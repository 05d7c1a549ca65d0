CONSTANTS
  Names <- MCNames
  NameLen <- MCNameLen
  BlockSize = 68
  Inodes = {11, 12}
  Self = 10
  Parents = {2, 3}
SPECIFICATION Spec
INVARIANTS BlockTiled NamesUnique EmptiedIsFresh
PROPERTY IsNameMap
