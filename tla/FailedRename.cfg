CONSTANTS
  a = a
  b = b
  Names <- MCNames
  PathNames <- MCNames
  NameLen <- MCNameLen
  BlockSize = 48
  NumInodes = 12
  NumBlocks = 8
  RootBlock = 5
  MaxDepth = 1
  FileSizes = {0}
  TargetSizes = {}
  SubtreeMoves = FALSE
SYMMETRY Symmetry
SPECIFICATION Spec
PROPERTIES FailureKeepsNames
