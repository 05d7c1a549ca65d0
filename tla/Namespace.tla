----------------------------- MODULE Namespace ------------------------------
(***************************************************************************)
(* What the write operations promise a caller: a tree of names, a function *)
(* from paths to nodes, that each successful call changes in one place.  A *)
(* failed call changes nothing, with one exception that the code has: a    *)
(* rename onto an existing file may fail after it has removed that file.   *)
(* The changes are relations between the tree t before a call and the tree *)
(* u after it.                                                             *)
(***************************************************************************)
EXTENDS Naturals, Sequences

CONSTANTS Names, FileSizes, TargetSizes

VARIABLES tree,      \* from the paths that exist to [kind, size]
          outcome    \* "ok": one change; "same": success without; "failed"

Node(kind, size) == [kind |-> kind, size |-> size]

Init == tree = [p \in {<<>>} |-> Node("dir", 0)] /\ outcome = "same"

IsDirectory(t, p) == p \in DOMAIN t /\ t[p].kind = "dir"

(* The paths at and below p. *)
Under(t, p) == {r \in DOMAIN t : Len(p) <= Len(r) /\ SubSeq(r, 1, Len(p)) = p}

Suffix(r, p) == SubSeq(r, Len(p) + 1, Len(r))

With(t, p, node) == [r \in DOMAIN t \cup {p} |-> IF r = p THEN node ELSE t[r]]

Without(t, p) == [r \in DOMAIN t \ {p} |-> t[r]]

NewNodes ==
  {Node("dir", 0)} \cup {Node("reg", size) : size \in FileSizes}
                   \cup {Node("lnk", size) : size \in TargetSizes}

Make(t, u) ==
  \E p \in DOMAIN u \ DOMAIN t :
    /\ IsDirectory(t, SubSeq(p, 1, Len(p) - 1))
    /\ u[p] \in NewNodes
    /\ u = With(t, p, u[p])

Drop(t, u) ==
  \E p \in DOMAIN t \ DOMAIN u : Under(t, p) = {p} /\ u = Without(t, p)

(* p and all below it move to q, which is free, or a file that p, a file,  *)
(* replaces; the new parent is never p or below it.                        *)
Move(t, u) ==
  \E p \in DOMAIN t \ DOMAIN u, q \in DOMAIN u :
    LET rest == DOMAIN t \ (Under(t, p) \cup {q})
        parent == SubSeq(q, 1, Len(q) - 1)
    IN
    /\ q # <<>> /\ IsDirectory(t, parent) /\ parent \notin Under(t, p)
    /\ q \notin DOMAIN t \/ ~ (IsDirectory(t, p) \/ IsDirectory(t, q))
    /\ u = [r \in rest \cup {q \o Suffix(s, p) : s \in Under(t, p)} |->
              IF r \in rest THEN t[r] ELSE t[p \o Suffix(r, q)]]

Resize(t, u) ==
  \E p \in DOMAIN t \cap DOMAIN u :
    /\ t[p].kind = "reg" /\ u[p] # t[p]
    /\ u[p] \in {Node("reg", size) : size \in FileSizes}
    /\ u = With(t, p, u[p])

(* The overwriting rename that lost its destination. *)
LoseTarget(t, u) ==
  \E p \in DOMAIN t \ DOMAIN u : ~ IsDirectory(t, p) /\ u = Without(t, p)

Change(t, u) == Make(t, u) \/ Drop(t, u) \/ Move(t, u) \/ Resize(t, u)
Failure(t, u) == u = t \/ LoseTarget(t, u)

Next ==
  \/ outcome' = "ok" /\ Change(tree, tree')
  \/ outcome' = "same" /\ tree' = tree
  \/ outcome' = "failed" /\ Failure(tree, tree')

Spec == Init /\ [][Next]_<<tree, outcome>>
=============================================================================
