----------------------------- MODULE ExtentTree -----------------------------
(***************************************************************************)
(* resolve_logical_block of ext4/src/filesystem.rs over an extent tree,    *)
(* one iteration of its loop per step.  The tree is data that another      *)
(* writer left: its blocks may form any graph, be no node at all, or lie   *)
(* outside the image.  The code looks at a node's depth only to tell a     *)
(* leaf from an index.                                                     *)
(*                                                                         *)
(* Beside its nodes a tree carries what its writer means by it (holds: the *)
(* physical block each node's subtree gives to each logical block) and     *)
(* the height of each node; Sound says when the nodes agree with that.     *)
(***************************************************************************)
EXTENDS Extents

CONSTANTS Nodes,          \* the blocks that hold nodes, and the inode's i_block
          Root,           \* the node in the inode
          Outside,        \* a block number past the end of the image
          Logicals,       \* the logical blocks asked for
          Trees,
          MaxExtentDepth  \* MAX_EXTENT_DEPTH

Leaf(extents)  == [kind |-> "leaf", extents |-> extents, indices |-> <<>>]
Index(indices) == [kind |-> "index", extents |-> <<>>, indices |-> indices]
NoNode         == [kind |-> "bad", extents |-> <<>>, indices |-> <<>>]

NodeType ==
  [kind : {"leaf", "index", "bad"},
   extents : Seq([log : Nat, len : Nat, phys : Nat, uninit : BOOLEAN]),
   indices : Seq([log : Nat, child : Nodes \cup {Outside}])]

TreeType ==
  [node : [Nodes -> NodeType],
   holds : [Nodes -> [Logicals -> Nat \cup {Hole}]],
   height : [Nodes -> Nat]]

ASSUME ExtentTreeAssumption ==
  /\ Root \in Nodes /\ Outside \notin Nodes
  /\ Logicals \subseteq Nat
  /\ MaxExtentDepth \in Nat
  /\ Trees \subseteq TreeType

VARIABLES tree, logical,  \* the question
          at,             \* the node in node_buf
          steps,          \* iterations left
          reads,          \* blocks read from disk
          result,         \* "pending", "ok" or the error
          physical        \* the answer when ok

walkVars == <<tree, logical, at, steps, reads, result, physical>>

(* Mutant: the node in the inode is counted as a level of its own. *)
IterationsOneFewer == MaxExtentDepth

Iterations == MaxExtentDepth + 1

TreeInit ==
  /\ tree \in Trees /\ logical \in Logicals
  /\ at = Root /\ steps = Iterations
  /\ reads = 0 /\ result = "pending" /\ physical = Hole

-----------------------------------------------------------------------------
Node == tree.node[at]

Answer(block) ==
  /\ result' = "ok" /\ physical' = block
  /\ steps' = steps - 1
  /\ UNCHANGED <<tree, logical, at, reads>>

Fail(error, left) ==
  /\ result' = error /\ steps' = left
  /\ UNCHANGED <<tree, logical, at, reads, physical>>

(* The indices are passed from the left up to the first that starts past k;*)
(* the last one passed is followed.                                        *)
Passed(indices, k) ==
  {j \in DOMAIN indices : \A i \in 1 .. j : indices[i].log <= k}

(* Mutant: an index that starts at the block itself is not passed. *)
ChosenStrictly(indices, k) ==
  {j \in Passed(indices, k - 1) : \A i \in Passed(indices, k - 1) : i <= j}

(* The index to follow, if any. *)
Chosen(indices, k) ==
  {j \in Passed(indices, k) : \A i \in Passed(indices, k) : i <= j}

Exhausted == steps = 0 /\ Fail("tooDeep", 0)

Undecodable == steps > 0 /\ Node.kind = "bad" /\ Fail("bad", steps - 1)

AtLeaf == steps > 0 /\ Node.kind = "leaf" /\ Answer(Resolve(Node.extents, logical))

BelowFirstIndex ==
  /\ steps > 0 /\ Node.kind = "index" /\ Chosen(Node.indices, logical) = {}
  /\ Answer(Hole)

(* Mutant: only leaves are counted. *)
DescendUncounted ==
  /\ steps > 0 /\ Node.kind = "index"
  /\ \E j \in Chosen(Node.indices, logical) :
       LET child == Node.indices[j].child IN
       IF child = Outside THEN Fail("io", steps - 1)
       ELSE /\ at' = child /\ reads' = (reads + 1) % (MaxExtentDepth + 3)
            /\ UNCHANGED <<tree, logical, steps, result, physical>>

Descend ==
  /\ steps > 0 /\ Node.kind = "index"
  /\ \E j \in Chosen(Node.indices, logical) :
       LET child == Node.indices[j].child IN
       IF child = Outside THEN Fail("io", steps - 1)
       ELSE /\ at' = child /\ steps' = steps - 1 /\ reads' = reads + 1
            /\ UNCHANGED <<tree, logical, result, physical>>

Iterate ==
  result = "pending" /\ (Exhausted \/ Undecodable \/ AtLeaf \/ BelowFirstIndex \/ Descend)

(* The call returns. *)
Returned == result # "pending" /\ UNCHANGED walkVars

TreeNext == Iterate \/ Returned
TreeSpec == TreeInit /\ [][TreeNext]_walkVars

-----------------------------------------------------------------------------
(* When the nodes of a tree say what its writer means: the extents of a    *)
(* leaf do not overlap; the indices ascend and what is below each lies     *)
(* between it and the next; a node holds what its parts hold, and no more. *)
SoundLeaf(n, t) ==
  LET exts == t.node[n].extents IN
  /\ \A i, j \in DOMAIN exts, k \in Logicals :
       Covers(exts[i], k) /\ Covers(exts[j], k) => i = j
  /\ \A k \in Logicals :
       /\ \A i \in DOMAIN exts : Covers(exts[i], k) => t.holds[n][k] = Place(exts[i], k)
       /\ (\A i \in DOMAIN exts : ~ Covers(exts[i], k)) => t.holds[n][k] = Hole

SoundIndex(n, t) ==
  LET ind == t.node[n].indices
      below(j) == t.holds[ind[j].child]
  IN
  /\ \A j \in DOMAIN ind :
       /\ ind[j].child \in Nodes /\ t.height[ind[j].child] < t.height[n]
       /\ \A i \in 1 .. (j - 1) : ind[i].log < ind[j].log
       /\ \A k \in Logicals : below(j)[k] # Hole =>
            ind[j].log <= k /\ \A i \in DOMAIN ind : j < i => k < ind[i].log
  /\ \A k \in Logicals :
       /\ \A j \in DOMAIN ind : below(j)[k] # Hole => t.holds[n][k] = below(j)[k]
       /\ (\A j \in DOMAIN ind : below(j)[k] = Hole) => t.holds[n][k] = Hole

(* Every node a descent from n can meet is as it should be: S is the set   *)
(* of the nodes of n's subtree.                                            *)
SoundSet(S, t) ==
  \A n \in S :
    \/ t.node[n].kind = "leaf" /\ SoundLeaf(n, t)
    \/ /\ t.node[n].kind = "index" /\ SoundIndex(n, t)
       /\ \A j \in DOMAIN t.node[n].indices : t.node[n].indices[j].child \in S

Sound(t) == \E S \in SUBSET Nodes : Root \in S /\ SoundSet(S, t)

-----------------------------------------------------------------------------
TreeTypeOK ==
  /\ tree \in TreeType /\ logical \in Logicals /\ at \in Nodes
  /\ steps \in 0 .. (MaxExtentDepth + 1) /\ reads \in 0 .. (MaxExtentDepth + 1)
  /\ result \in {"pending", "ok", "tooDeep", "bad", "io"}
  /\ physical \in Nat \cup {Hole}

(* The walk finds what the tree holds: following one index per node loses  *)
(* nothing of the flat map from logical to physical blocks, whatever the   *)
(* tree's shape and wherever its holes are.                                *)
FindsWhatTreeHolds ==
  result = "ok" /\ Sound(tree) => physical = tree.holds[Root][logical]

(* A tree no higher than the limit is walked to its end; the limit is      *)
(* neither one too low nor ever needed for a sound tree.                   *)
LegalDepthSuffices ==
  Sound(tree) /\ tree.height[Root] <= MaxExtentDepth => result \in {"pending", "ok"}
=============================================================================
