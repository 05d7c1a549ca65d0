CONSTANTS
  a = a
  b = b
  c = c
  z = z
  Names <- MCNames
  PathNames <- MCNames
  HostNames <- MCHostNames
  NameLen <- MCNameLen
  BlockSize = 48
  NumInodes = 13
  NumBlocks = 9
  RootBlock = 5
  MaxDepth = 2
  FileSizes = {0, 50}
  TargetSizes = {7, 60, 61}
  SubtreeMoves = FALSE
  HostTrees <- MCHostTrees
SPECIFICATION FairHostSpec
INVARIANTS SuccessIsReplica ImageWithinReplica FailsForRoomOnly
PROPERTY WalkEnds
