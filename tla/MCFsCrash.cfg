CONSTANTS
  a = a
  b = b
  Names <- MCNames
  PathNames <- MCNames
  NameLen <- MCNameLen
  BlockSize = 48
  NumInodes = 12
  NumBlocks = 4
  RootBlock = 1
  MaxDepth = 1
  FileSizes = {0, 60}
  TargetSizes = {5}
  SubtreeMoves = FALSE
  MaxCrashes = 1
SYMMETRY MCSymmetry
SPECIFICATION CrashSpec
INVARIANTS
  WritesAddUp SoundOnceRepeated NamesInBetween NeverNameless DamageIsLocal
