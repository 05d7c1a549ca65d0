---------------------------- MODULE MCExtentTree ----------------------------
(* Trees of up to four nodes: every graph over a few leaves and indices,   *)
(* labelled with what a search of all branches finds.                      *)
EXTENDS ExtentTree, FiniteSets

CONSTANT Depth     \* levels of branches searched for the labels

MCNodes == 0 .. 3
MCLogicals == 0 .. 3
MCOutside == 9

Low  == Leaf(<<Extent(0, 2, 40, FALSE)>>)
High == Leaf(<<Extent(2, 1, 50, FALSE)>>)
Leaves == {Low, High, Leaf(<<Extent(1, 1, 60, TRUE), Extent(2, 2, 70, FALSE)>>)}

Entry(log, child) == [log |-> log, child |-> child]
Fork(c, d) == Index(<<Entry(0, c), Entry(2, d)>>)
To(c) == Index(<<Entry(1, c)>>)

(* The root may fork, be out of order or lead outside; below it the graph  *)
(* may go on, end or turn back.                                            *)
Graphs ==
  {g \in [MCNodes -> Leaves \cup {NoNode, Index(<<Entry(2, 1), Entry(0, 2)>>),
                       Index(<<Entry(0, MCOutside)>>), To(1), To(3), Fork(1, 2), Fork(2, 3)}] :
     g[0] # NoNode /\ g[2] \notin {To(1), Fork(1, 2)} /\ g[3] \in Leaves \cup {To(1)}}

Highest(S) == IF S = {} THEN 0 ELSE CHOOSE m \in S : \A x \in S : x <= m

(* The block that a node's parts, searched in every branch, give to k. *)
HoldsUpTo(node) ==
  LET h[d \in 0 .. Depth, n \in MCNodes \cup {MCOutside}, k \in MCLogicals] ==
        IF n = MCOutside THEN Hole
        ELSE IF node[n].kind = "index"
          THEN IF d = 0 THEN Hole
               ELSE Highest({h[d - 1, node[n].indices[j].child, k] :
                              j \in DOMAIN node[n].indices} \cup {Hole})
          ELSE Resolve(node[n].extents, k)
  IN [n \in MCNodes |-> [k \in MCLogicals |-> h[Depth, n, k]]]

HeightUpTo(node) ==
  LET h[d \in 0 .. Depth, n \in MCNodes \cup {MCOutside}] ==
        IF n = MCOutside \/ d = 0 \/ node[n].kind # "index" THEN 0
        ELSE 1 + Highest({h[d - 1, node[n].indices[j].child] :
                            j \in DOMAIN node[n].indices})
  IN [n \in MCNodes |-> h[Depth, n]]

MCTrees == {[node |-> g, holds |-> HoldsUpTo(g), height |-> HeightUpTo(g)] : g \in Graphs}
=============================================================================
