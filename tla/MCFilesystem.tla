---------------------------- MODULE MCFilesystem ----------------------------
EXTENDS FilesystemProperties, TLC
CONSTANTS a, b
MCNames == {a, b}
MCNameLen == [n \in MCNames \cup {".", ".."} |-> 1]
MCPathNames == AllNames     \* paths with `.` and `..` in them
Symmetry == Permutations(MCNames)
=============================================================================
