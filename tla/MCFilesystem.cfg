CONSTANTS
  a = a
  b = b
  Names <- MCNames
  PathNames <- MCNames
  NameLen <- MCNameLen
  BlockSize = 48
  NumInodes = 12
  NumBlocks = 4
  RootBlock = 1
  MaxDepth = 1
  FileSizes = {20, 40, 96}
  TargetSizes = {5, 61}
  SubtreeMoves = FALSE
SYMMETRY Symmetry
SPECIFICATION Spec
INVARIANTS 
  ImageReadable BlocksOwnedOnce NoDanglingEntry LinksExact UsedDirsExact CountsNeverLow SizesFitRuns
PROPERTIES SuccessLeaksNothing DriftOnlyAtReopen IsNamespace
