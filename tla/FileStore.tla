----------------------------- MODULE FileStore -----------------------------
(***************************************************************************)
(* What a caller may count on for file contents: a map from files to byte  *)
(* strings that only the file's own calls change.                          *)
(***************************************************************************)
EXTENDS Sequences, Naturals

CONSTANTS Files, Payloads, Absent

VARIABLE contents

StoreInit == \A f \in Files : contents[f] = Absent \/ contents[f] \in Seq(Nat)

Create(f, data) ==
  /\ contents[f] = Absent
  /\ contents' = [contents EXCEPT ![f] = data]

Remove(f) ==
  /\ contents[f] # Absent
  /\ contents' = [contents EXCEPT ![f] = Absent]

Shrink(f) ==
  /\ contents[f] # Absent
  /\ \E n \in 0 .. (Len(contents[f]) - 1) :
       contents' = [contents EXCEPT ![f] = SubSeq(@, 1, n)]

(* What the new part holds is not promised here. *)
Grow(f) ==
  /\ contents[f] # Absent /\ contents'[f] # Absent
  /\ Len(contents'[f]) > Len(contents[f])
  /\ SubSeq(contents'[f], 1, Len(contents[f])) = contents[f]
  /\ contents' = [contents EXCEPT ![f] = contents'[f]]

StoreNext ==
  \E f \in Files :
    \/ \E data \in Payloads : Create(f, data)
    \/ Remove(f)
    \/ Shrink(f)
    \/ Grow(f)

StoreSpec == StoreInit /\ [][StoreNext]_contents
=============================================================================
