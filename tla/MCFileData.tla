----------------------------- MODULE MCFileData -----------------------------
(* Values of the constants of FileData.  The bytes of a payload are its    *)
(* author's number plus their position.                                    *)
EXTENDS FileData, TLC
CONSTANTS f, g

MCFiles == {f, g}
MCSymmetry == Permutations(MCFiles)
Payload(author, n) == [i \in 1 .. n |-> author + i]
MCPayloads == {Payload(100, n) : n \in {0, 3, 5}} \cup {Payload(200, n) : n \in {1, 4}}

Init1(log, len, phys) == Extent(log, len, phys, FALSE)
Uninit1(log, len, phys) == Extent(log, len, phys, TRUE)
Foreign(size, extents) == [size |-> size, extents |-> extents]

(* Two extents out of order on disk; a hole; an uninitialized middle; room *)
(* allocated past the end.                                                 *)
MCForeign ==
  {Foreign(4, <<Init1(0, 1, 3), Init1(1, 1, 1)>>),
   Foreign(5, <<Init1(0, 1, 2), Init1(2, 1, 1)>>),
   Foreign(5, <<Init1(0, 1, 1), Uninit1(1, 1, 3), Init1(2, 1, 2)>>),
   Foreign(1, <<Init1(0, 2, 2), Uninit1(2, 1, 1)>>)}
=============================================================================
