------------------------------ MODULE NameMap -------------------------------
(***************************************************************************)
(* What one directory promises: a map from names to inodes in which an     *)
(* entry stays what it was until it is removed.  An insertion may be       *)
(* refused for want of room (outcome "full"), and then changes nothing.    *)
(***************************************************************************)
CONSTANTS Names, Inodes

VARIABLES map, outcome

Init == map = [n \in Names |-> 0] /\ outcome = "ok"

Add(name, inode) ==
  /\ map[name] = 0
  /\ \/ map' = [map EXCEPT ![name] = inode] /\ outcome' = "ok"
     \/ map' = map /\ outcome' = "full"

Remove(name) ==
  /\ map[name] # 0
  /\ map' = [map EXCEPT ![name] = 0]
  /\ outcome' = "ok"

Rename(old, new) ==
  /\ map[old] # 0 /\ map[new] = 0
  /\ \/ map' = [map EXCEPT ![new] = map[old], ![old] = 0] /\ outcome' = "ok"
     \/ map' = map /\ outcome' = "full"

Next ==
  \/ \E name \in Names, inode \in Inodes : Add(name, inode)
  \/ \E name \in Names : Remove(name)
  \/ \E old, new \in Names : Rename(old, new)

Spec == Init /\ [][Next]_<<map, outcome>>
=============================================================================
