------------------------------ MODULE HostTree ------------------------------
(***************************************************************************)
(* populate_from_host_tree of cli/src/lib.rs: a walk of a host directory   *)
(* tree with an explicit stack, one action per directory taken and per     *)
(* entry, every entry a call of the handle.  The host's read_dir gives the *)
(* entries in any order and may fail at any moment.                        *)
(***************************************************************************)
EXTENDS FilesystemProperties

CONSTANTS HostTrees,   \* trees: functions from host paths to HostNodes
          HostNames    \* the names in them; those not in PathNames are no UTF-8

(* A node of the host tree: a file with its bytes or a symlink with those  *)
(* of its target, of which bad[k] sequences of k bytes are no UTF-8.       *)
HostNodes ==
  [kind : {"dir", "reg", "other"}, size : Nat]
    \cup [kind : {"lnk"}, size : Nat, bad : [1 .. 3 -> Nat]]

(* The length of what to_string_lossy makes of a target: U+FFFD, 3 bytes,  *)
(* takes the place of each such sequence.                                  *)
Lossy(node) == node.size + 2 * node.bad[1] + node.bad[2]

ASSUME HostAssumption ==
  /\ PathNames \subseteq HostNames /\ "." \notin HostNames /\ ".." \notin HostNames
  /\ \A h \in HostTrees : \A p \in DOMAIN h :
       /\ p \in Seq(HostNames) /\ p # <<>>
       /\ h[p] \in HostNodes
       /\ h[p].kind = "lnk" =>
            /\ h[p].size > 0     \* as symlink(2) has it
            /\ h[p].bad[1] + 2 * h[p].bad[2] + 3 * h[p].bad[3] <= h[p].size
       /\ LET parent == SubSeq(p, 1, Len(p) - 1) IN
          parent # <<>> => parent \in DOMAIN h /\ h[parent].kind = "dir"

(* What bounds the calls of Filesystem leaves room for those of the walk.  *)
ASSUME HostWithin ==
  \A h \in HostTrees : \A p \in DOMAIN h :
    /\ h[p].kind = "dir" => Len(p) <= MaxDepth
    /\ h[p].kind = "reg" => h[p].size \in FileSizes
    /\ h[p].kind = "lnk" => Lossy(h[p]) \in TargetSizes

VARIABLES host,      \* the tree to replicate
          stack,     \* directories still to be read
          dir,       \* the one being read, in a sequence of its own, or none
          left,      \* its entries not yet seen
          result,    \* "running", "ok" or "failed"
          lost       \* has the host failed?

walk == <<host, stack, dir, left, result, lost>>
hostVars == <<vars, walk>>

HostInit ==
  /\ Init
  /\ host \in HostTrees
  /\ stack = << <<>> >> /\ dir = <<>> /\ left = {}
  /\ result = "running" /\ lost = FALSE

ChildrenOf(h, p) ==
  {q[Len(q)] : q \in {r \in DOMAIN h : Len(r) = Len(p) + 1 /\ SubSeq(r, 1, Len(p)) = p}}

-----------------------------------------------------------------------------
Running == result = "running"
Between == Running /\ dir = <<>>
Reading == Running /\ dir # <<>>
Here == dir[1]

(* Mutant: the top is looked at and stays. *)
PoppedNone == stack

Popped == SubSeq(stack, 1, Len(stack) - 1)

(* The top of the stack is taken and its entries are read. *)
TakeDir ==
  /\ Between /\ stack # <<>>
  /\ dir' = <<stack[Len(stack)]>>
  /\ left' = ChildrenOf(host, stack[Len(stack)])
  /\ stack' = Popped
  /\ UNCHANGED <<vars, host, result, lost>>

CloseDir ==
  /\ Reading /\ left = {}
  /\ dir' = <<>>
  /\ UNCHANGED <<vars, host, stack, left, result, lost>>

Finish ==
  /\ Between /\ stack = <<>>
  /\ result' = "ok"
  /\ UNCHANGED <<vars, host, stack, dir, left, lost>>

(* read_dir, the type of an entry, its bytes or its target cannot be read. *)
HostError ==
  /\ Running /\ (Reading => left # {})
  /\ result' = "failed" /\ lost' = TRUE
  /\ UNCHANGED <<vars, host, stack, dir, left>>

(* Any error of the handle ends the walk. *)
Settle == result' = IF outcome' = "ok" THEN result ELSE "failed"

HostNode(name) == host[Append(Here, name)]

SkipEntry(name) ==
  /\ \/ name \notin PathNames
     \/ name \in PathNames /\ HostNode(name).kind = "other"
  /\ UNCHANGED <<vars, stack, result>>

DirEntry(name) ==
  /\ name \in PathNames /\ HostNode(name).kind = "dir"
  /\ Mkdir(Here, name)
  /\ stack' = IF outcome' = "ok" THEN Append(stack, Append(Here, name)) ELSE stack
  /\ Settle

FileEntry(name) ==
  /\ name \in PathNames /\ HostNode(name).kind = "reg"
  /\ CreateFile(Here, name, HostNode(name).size)
  /\ Settle
  /\ UNCHANGED stack

(* Mutant: any error of symlink is a warning. *)
LinkEntryForgiving(name) ==
  /\ name \in PathNames /\ HostNode(name).kind = "lnk"
  /\ Symlink(Here, name, Lossy(HostNode(name)))
  /\ UNCHANGED <<stack, result>>

(* Mutant: a target that is too long is cut. *)
LinkEntryCut(name) ==
  /\ name \in PathNames /\ HostNode(name).kind = "lnk"
  /\ Symlink(Here, name, IF Lossy(HostNode(name)) > MaxTarget
                       THEN MaxTarget ELSE Lossy(HostNode(name)))
  /\ Settle /\ UNCHANGED stack

(* The target goes through to_string_lossy.  One that is then too long is  *)
(* a warning, any other error ends the walk.                               *)
LinkEntry(name) ==
  /\ name \in PathNames /\ HostNode(name).kind = "lnk"
  /\ Symlink(Here, name, Lossy(HostNode(name)))
  /\ IF Lossy(HostNode(name)) > MaxTarget THEN UNCHANGED result ELSE Settle
  /\ UNCHANGED stack

SeeEntry ==
  /\ Reading
  /\ \E name \in left :
       /\ left' = left \ {name}
       /\ SkipEntry(name) \/ DirEntry(name) \/ FileEntry(name) \/ LinkEntry(name)
  /\ UNCHANGED <<host, dir, lost>>

Walks == TakeDir \/ CloseDir \/ Finish \/ SeeEntry

HostNext == Walks \/ HostError \/ (~ Running /\ UNCHANGED hostVars)

HostSpec == HostInit /\ [][HostNext]_hostVars

(* The loop is sequential code: while it can go on it does. *)
FairHostSpec == HostSpec /\ WF_hostVars(Walks)

-----------------------------------------------------------------------------
(* What of the host tree v0 replicates: what it can name, all the way from *)
(* the root, without the kinds and the targets it cannot hold.  A target   *)
(* counts as to_string_lossy gives it: one that is UTF-8 as it is, another *)
(* with the length it then has, which may be one too many.                 *)
Replicable(h) ==
  {p \in DOMAIN h :
     /\ \A k \in DOMAIN p : p[k] \in PathNames
     /\ h[p].kind # "other"
     /\ h[p].kind = "lnk" => Lossy(h[p]) <= MaxTarget}

Stored(node) ==
  [kind |-> node.kind,
   size |-> CASE node.kind = "dir" -> 0
              [] node.kind = "lnk" -> Lossy(node)
              [] OTHER -> node.size]

Replica(h) ==
  [p \in Replicable(h) \cup {<<>>} |->
     IF p = <<>> THEN [kind |-> "dir", size |-> 0] ELSE Stored(h[p])]

(* A walk that says it succeeded left nothing out, though it drops what it *)
(* finds on a stack and goes on after warnings: every name, the bytes of   *)
(* every file and the converted target of every symlink are there.         *)
SuccessIsReplica == result = "ok" => Tree = Replica(host)

(* Wherever the walk stops, the image shows part of the replica.           *)
ImageWithinReplica ==
  \A p \in DOMAIN Tree : p \in DOMAIN Replica(host) /\ Tree[p] = Replica(host)[p]

(* The handle never refuses what the walk asks: only want of room, in the  *)
(* image or in a directory's block, and the host itself make it fail.      *)
FailsForRoomOnly == result = "failed" => lost \/ outcome \in {"nospace", "full"}

(* The walk ends, and without an error it ends with ok. *)
WalkEnds == <>(result # "running")
=============================================================================
