CONSTANTS
  ByteBits = 3
  BufBits = 9
  MaxBit = 10
  MaxRun = 4
  Nodes <- MCNodes
  Root = 0
  Outside <- MCOutside
  Logicals <- MCLogicals
  Trees <- MCTrees
  Depth = 4
  MaxExtentDepth = 2
  i1 = i1
  Inodes <- MCInodes
  Half = 2
  PermBits = 2
  TypeBits = 2
  Regular = 1
  Directory = 0
  Stamps = {0, 1}
  METADATA_CTIME = 1
  Links = {1, 2}
SPECIFICATION PartsSpec
INVARIANTS LowestZero FirstFit FindsWhatTreeHolds LegalDepthSuffices
PROPERTIES LoopsEnd IsAttributes
