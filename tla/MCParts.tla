------------------------------ MODULE MCParts ------------------------------
(***************************************************************************)
(* The parts that share no state with the handle or with each other, one   *)
(* of them in each behaviour: the two searches of a bitmap, the walk of an *)
(* extent tree, and the inode records.  The variables of the others keep   *)
(* the value they begin with.                                              *)
(***************************************************************************)
EXTENDS FindZero, FindZeroRun, MCExtentTree, MCInodeFields

VARIABLE part

bitVars == <<base, offset, verdict, zero>>
lengthVars == <<n, bit, runStart, runLen, outcome, answer>>
searchVars == <<buf, maxBit, bitVars, lengthVars>>
allVars == <<part, searchVars, walkVars, table>>

ArgsIdle == buf = {} /\ maxBit = 0
BitIdle == base = 0 /\ offset = 0 /\ verdict = "scanning" /\ zero = 0
RunIdle ==
  /\ n = 0 /\ bit = 0 /\ runStart = NoStart /\ runLen = 0
  /\ outcome = "scanning" /\ answer = 0
NoTree ==
  [node |-> [k \in Nodes |-> NoNode], height |-> [k \in Nodes |-> 0],
   holds |-> [k \in Nodes |-> [l \in Logicals |-> Hole]]]
WalkIdle ==
  /\ tree = NoTree /\ logical = 0 /\ at = Root /\ steps = Iterations /\ reads = 0
  /\ result = "pending" /\ physical = Hole
TableIdle ==
  table = [i \in Inodes |->
             [mode |-> 0, uidLo |-> 0, uidHi |-> 0, gidLo |-> 0, gidHi |-> 0,
              sizeLo |-> 0, sizeHi |-> 0, links |-> 1,
              atime |-> METADATA_CTIME, mtime |-> METADATA_CTIME, ctime |-> METADATA_CTIME]]

PartsInit ==
  \/ part = "bit" /\ ZeroInit /\ RunIdle /\ WalkIdle /\ TableIdle
  \/ part = "run" /\ RunInit /\ BitIdle /\ WalkIdle /\ TableIdle
  \/ part = "tree" /\ TreeInit /\ ArgsIdle /\ BitIdle /\ RunIdle /\ TableIdle
  \/ part = "inode" /\ Init /\ ArgsIdle /\ BitIdle /\ RunIdle /\ WalkIdle

(* A loop goes on until it returns. *)
Loop ==
  \/ part = "bit" /\ ZeroNext /\ UNCHANGED <<part, lengthVars, walkVars, table>>
  \/ part = "run" /\ RunNext /\ UNCHANGED <<part, bitVars, walkVars, table>>
  \/ part = "tree" /\ Iterate /\ UNCHANGED <<part, searchVars, table>>

Call == part = "inode" /\ Next /\ UNCHANGED <<part, searchVars, walkVars>>

HasReturned ==
  \/ part = "bit" /\ verdict # "scanning"
  \/ part = "run" /\ outcome # "scanning"
  \/ part = "tree" /\ result # "pending"

PartsNext ==
  \/ Loop
  \/ Call
  \/ HasReturned /\ UNCHANGED allVars

(* Sequential code runs on: a loop that can take a step does.              *)
PartsSpec == PartsInit /\ [][PartsNext]_allVars /\ WF_allVars(Loop)

-----------------------------------------------------------------------------
(* Each loop ends, whatever the bitmap, the bounds or the graph that the   *)
(* tree's blocks form: no bit, byte or node leaves it without a next step, *)
(* and none is passed for ever.                                            *)
LoopsEnd == part \in {"bit", "run", "tree"} => <>HasReturned
=============================================================================
