CONSTANTS
  f = f
  g = g
  Files <- MCFiles
  Payloads <- MCPayloads
  NewSizes = {0, 1, 2, 5}
  BlockSize = 2
  NumBlocks = 4
  LenModulus = 4
  ForeignFiles <- MCForeign
  Absent = Absent
SYMMETRY MCSymmetry
SPECIFICATION FileSpec
INVARIANTS TypeOK MappedOnce
PROPERTIES IsStore SlackIsOwn OnlyUninitIsLost
