----------------------------- MODULE Directory ------------------------------
(***************************************************************************)
(* One directory's block under every sequence of the edits that create,    *)
(* mkdir, symlink (an entry added), unlink, rmdir (one removed), a rename  *)
(* inside the directory (one added, then one removed) and a move of the    *)
(* directory itself (`..` rewritten) make of it.                           *)
(***************************************************************************)
EXTENDS DirBlock

CONSTANTS Inodes,     \* inodes an entry may name
          Self,       \* this directory's own inode
          Parents     \* the directories it may be moved under

ASSUME DirectoryAssumption ==
  /\ Inodes \subseteq Nat \ {0} /\ Parents \subseteq Nat \ {0}
  /\ Self \in Nat \ {0} /\ Parents # {}

VARIABLES block,      \* the directory's data block
          outcome     \* what the last edit of a name returned

vars == <<block, outcome>>

Init ==
  /\ \E parent \in Parents : block = FreshBlock(Self, parent)
  /\ outcome = "ok"

Full == outcome' = "full" /\ UNCHANGED block

(* Mutant: the name is not looked up first. *)
AddEntryAnyway(name, inode, ftype) ==
  \/ /\ Fits(block, name)
     /\ block' = Add(block, name, inode, ftype)
     /\ outcome' = "ok"
  \/ ~ Fits(block, name) /\ Full

(* The callers look the name up first and refuse one that is taken. *)
AddEntry(name, inode, ftype) ==
  /\ Called(block, name) = {}
  /\ \/ /\ Fits(block, name)
        /\ block' = Add(block, name, inode, ftype)
        /\ outcome' = "ok"
     \/ ~ Fits(block, name) /\ Full

RemoveEntry(name) ==
  /\ Called(block, name) # {}
  /\ block' = Remove(block, FirstOf(Called(block, name)).inode, name)
  /\ outcome' = "ok"

(* Mutant: the old entry is removed before the new one is known to fit. *)
RenameRemovesFirst(old, new) ==
  /\ Called(block, old) # {} /\ Called(block, new) = {}
  /\ LET src == FirstOf(Called(block, old))
         removed == Remove(block, src.inode, old)
     IN
     \/ /\ Fits(removed, new)
        /\ block' = Add(removed, new, src.inode, src.ftype)
        /\ outcome' = "ok"
     \/ ~ Fits(removed, new) /\ block' = removed /\ outcome' = "full"

(* rename with one parent and a free new name: the new entry first. *)
RenameEntry(old, new) ==
  /\ Called(block, old) # {} /\ Called(block, new) = {}
  /\ LET src == FirstOf(Called(block, old)) IN
     \/ /\ Fits(block, new)
        /\ block' = Remove(Add(block, new, src.inode, src.ftype), src.inode, old)
        /\ outcome' = "ok"
     \/ ~ Fits(block, new) /\ Full

MoveSelf(parent) ==
  /\ block' = SetDotDot(block, parent)
  /\ UNCHANGED outcome

Next ==
  \/ \E name \in Names, inode \in Inodes, ftype \in FileTypes :
       AddEntry(name, inode, ftype)
  \/ \E name \in Names : RemoveEntry(name)
  \/ \E old, new \in Names : RenameEntry(old, new)
  \/ \E parent \in Parents : MoveSelf(parent)

Spec == Init /\ [][Next]_vars

-----------------------------------------------------------------------------
EntryType ==
  [off : 0 .. BlockSize, recLen : 8 .. BlockSize,
   inode : Inodes \cup Parents \cup {Self}, name : AllNames, ftype : FileTypes]

(* Every entry is live and of its type: no edit of a directory that keeps  *)
(* its dots ever leaves a tombstone.                                       *)
TypeOK ==
  /\ block \subseteq EntryType
  /\ outcome \in {"ok", "full"}

(* The walk of read_dir, add_dir_entry and remove_dir_entry never fails:   *)
(* whatever was added, removed and merged, the entries tile the block, so  *)
(* no decode error, no overlap and no byte that no entry accounts for.     *)
BlockTiled == Tiled(block)

(* A name appears once, and the two dots are where mkdir put them, naming  *)
(* this directory and a directory it was moved under.                      *)
NamesUnique ==
  /\ \A e, f \in block : e.name = f.name => e = f
  /\ \E e \in block : e.name = "." /\ e.off = 0 /\ e.inode = Self
  /\ \E e \in block : e.name = ".." /\ e.off = 12 /\ e.inode \in Parents

(* Nothing is lost to fragmentation for good: once every name is removed,  *)
(* the block is the one mkdir wrote, and its whole slack can be used.      *)
EmptiedIsFresh ==
  (\A e \in block : e.name \in Dots)
    => \E parent \in Parents : block = FreshBlock(Self, parent)

(* The directory is a map from names to inodes. *)
Inode(name) ==
  IF Called(block, name) = {} THEN 0 ELSE FirstOf(Called(block, name)).inode

Promise == INSTANCE NameMap WITH
  map <- [n \in Names |-> Inode(n)]

IsNameMap == Promise!Spec
=============================================================================
