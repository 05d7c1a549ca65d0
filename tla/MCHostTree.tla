----------------------------- MODULE MCHostTree -----------------------------
(* Values of the constants of HostTree.  z is a name that is not UTF-8.    *)
EXTENDS HostTree
CONSTANTS a, b, c, z

MCNames == {a, b, c}
MCHostNames == {a, b, c, z}
MCNameLen == [n \in MCNames \cup {".", ".."} |-> 1]

(* Targets: UTF-8, and with one invalid byte that makes 60 bytes of 58 and *)
(* 61, one too many, of 59.                                                *)
LinkNode(size, invalid) ==
  [kind |-> "lnk", size |-> size, bad |-> [k \in 1 .. 3 |-> IF k = 1 THEN invalid ELSE 0]]

Nodes == {[kind |-> "reg", size |-> 0], [kind |-> "reg", size |-> 50],
          LinkNode(7, 0), LinkNode(58, 1), LinkNode(59, 1),
          [kind |-> "other", size |-> 0]}
DirNode == [kind |-> "dir", size |-> 0]

(* Directories up to two deep: the shape of the directories, then any      *)
(* nodes among a few of the places in them.                                *)
Shapes ==
  {{}, {<<a>>}, {<<a>>, <<b>>}, {<<a>>, <<a, b>>}, {<<a>>, <<b>>, <<a, b>>}, {<<z>>, <<b>>}}
Spots(shape) ==
  {p \in {<<b>>, <<c>>, <<z>>, <<a, a>>, <<z, a>>, <<b, a>>, <<a, b, a>>} :
     p \notin shape /\ (Len(p) = 1 \/ SubSeq(p, 1, Len(p) - 1) \in shape)}
MCHostTrees ==
  UNION {UNION {{[p \in shape \cup used |-> IF p \in shape THEN DirNode ELSE fill[p]] :
                   fill \in [used -> Nodes]} :
                 used \in {u \in SUBSET Spots(shape) : u = {} \/ \E p, q \in u : u = {p, q}}} :
          shape \in Shapes}
=============================================================================
