CONSTANTS
  a = a
  b = b
  Names <- MCNames
  PathNames <- MCNames
  NameLen <- MCNameLen
  BlockSize = 48
  NumInodes = 13
  NumBlocks = 9
  RootBlock = 5
  MaxDepth = 2
  FileSizes = {}
  TargetSizes = {}
  SubtreeMoves = FALSE
SYMMETRY Symmetry
SPECIFICATION Spec
INVARIANTS NamesFormTree DotsMatchTree
