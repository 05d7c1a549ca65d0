------------------------------ MODULE Extents ------------------------------
(***************************************************************************)
(* Leaf extents (spec/src/extent.rs) and the search of a leaf that         *)
(* resolve_logical_block of ext4/src/filesystem.rs does.                   *)
(***************************************************************************)
EXTENDS Integers, Sequences

Hole == -1     \* no physical block: the block reads as zeros

Extent(log, len, phys, uninit) ==
  [log |-> log, len |-> len, phys |-> phys, uninit |-> uninit]

Covers(ext, k) == ext.log <= k /\ k < ext.log + ext.len

(* What one extent says of a logical block that it covers. *)
Place(ext, k) == IF ext.uninit THEN Hole ELSE ext.phys + (k - ext.log)

(* The first extent of the leaf that covers k decides. *)
Resolve(extents, k) ==
  LET hits == {j \in DOMAIN extents : Covers(extents[j], k)} IN
  IF hits = {} THEN Hole
  ELSE LET first == CHOOSE j \in hits : \A i \in hits : j <= i
       IN Place(extents[first], k)
=============================================================================
