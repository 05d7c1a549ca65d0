CONSTANTS
  Configs <- MCConfigs
  BitsPerSlot = 1
  Word = 60
  Counts = {1, 2, 50}
  MaxOps = 4
SPECIFICATION Spec
INVARIANTS ReadsBack CountsMatchBitmaps HandedOutExists RootStands
CHECK_DEADLOCK FALSE
