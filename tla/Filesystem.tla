----------------------------- MODULE Filesystem -----------------------------
(***************************************************************************)
(* The Filesystem handle of ext4/src/filesystem.rs over a single-group     *)
(* image: the block and inode bitmaps, the inode table, the directory      *)
(* blocks, and the free counts that the handle caches and flushes.  One    *)
(* action per public operation, with every early return and every failure  *)
(* that strikes after something was already written.                       *)
(*                                                                         *)
(* The counts of the superblock and of group 0 are one record: with one    *)
(* group every operation changes both alike.  An inode's extent list is    *)
(* one run (start, len), the only shape v0 writes; len = 0 is no extent.   *)
(***************************************************************************)
EXTENDS DirBlock, Bitmap, Sequences, FiniteSets

CONSTANTS NumInodes,     \* inodes_count
          NumBlocks,     \* blocks_count
          RootBlock,     \* root's data block, the last one mkfs allocates
          PathNames,     \* the components a caller's path is made of
          MaxDepth,      \* components of the parent part of a path, at most
          FileSizes,     \* contents given to create_file, new sizes to truncate
          TargetSizes,   \* lengths of the symlink targets given to symlink
          SubtreeMoves   \* may a caller move a directory below itself?

Root == 2
Reserved == 1 .. 10
MaxTarget == 60          \* I_BLOCK_LEN
NoInode == 0

Inodes == 1 .. NumInodes
Blocks == 0 .. (NumBlocks - 1)
PathsUpTo(depth) == UNION {[1 .. k -> PathNames] : k \in 0 .. depth}
Paths == PathsUpTo(MaxDepth)
FullPaths == PathsUpTo(MaxDepth + 1)

ASSUME FilesystemAssumption ==
  /\ NumInodes \in Nat /\ NumInodes >= 11
  /\ NumBlocks \in Nat /\ RootBlock \in Nat /\ RootBlock < NumBlocks
  /\ PathNames \subseteq AllNames /\ MaxDepth \in Nat
  /\ FileSizes \subseteq Nat /\ TargetSizes \subseteq Nat
  /\ SubtreeMoves \in BOOLEAN

VARIABLES blockBitmap,   \* the set bits of the block bitmap
          inodeBitmap,   \* the inodes whose bit is set
          inodes,        \* the inode table
          dirBlocks,     \* the entries each block holds; {} for file bytes
          diskCounts,    \* the counts in the superblock and the descriptor
          counts,        \* the handle's copy of them
          outcome        \* what the last call returned

disk == <<blockBitmap, inodeBitmap, inodes, dirBlocks>>
vars == <<disk, diskCounts, counts, outcome>>

Inode(kind, links, size, start, len) ==
  [kind |-> kind, links |-> links, size |-> size, start |-> start,
   len |-> len]

CeilDiv(a, b) == (a + b - 1) \div b
SatSub(a, b) == IF a > b THEN a - b ELSE 0

(* The image mkfs writes. *)
Init ==
  /\ blockBitmap = 0 .. RootBlock
  /\ inodeBitmap = Reserved
  /\ inodes = [i \in Inodes |-> IF i = Root
                 THEN Inode("dir", 2, BlockSize, RootBlock, 1)
                 ELSE Inode("none", 0, 0, 0, 0)]
  /\ dirBlocks = [b \in Blocks |->
                    IF b = RootBlock THEN FreshBlock(Root, Root) ELSE {}]
  /\ counts = [freeBlocks |-> NumBlocks - RootBlock - 1,
               freeInodes |-> NumInodes - 10,
               usedDirs |-> 1]
  /\ diskCounts = counts
  /\ outcome = "same"

-----------------------------------------------------------------------------
(* Reading: read_dir, lookup and open_path. *)
IsDir(i) == i \in Inodes /\ inodes[i].kind = "dir"

DirEntries(rec) == IF rec.len = 0 THEN {} ELSE dirBlocks[rec.start]

Lookup(d, name) ==
  LET hits == Called(DirEntries(inodes[d]), name) IN
  IF hits = {} THEN NoInode ELSE FirstOf(hits).inode

(* No component is followed through anything but a directory: a symlink    *)
(* in the middle of a path is an error.                                    *)
Walk(i, name) == IF IsDir(i) THEN Lookup(i, name) ELSE NoInode
OpenPath(path) ==
  LET at[k \in 0 .. Len(path)] == IF k = 0 THEN Root ELSE Walk(at[k - 1], path[k])
  IN at[Len(path)]

FtOf(kind) ==
  CASE kind = "dir" -> FtDir [] kind = "lnk" -> FtSymlink [] OTHER -> FtReg

(* Every call that is refused before it writes anything. *)
Refuse == outcome' = "refused" /\ UNCHANGED <<disk, diskCounts, counts>>

Flush == diskCounts' = counts'

-----------------------------------------------------------------------------
(* create_file, mkdir and symlink share one course: the inode bit, then    *)
(* the blocks, then the inode and its data, then the parent's entry; each  *)
(* may be the one that fails, and nothing undoes the ones before it.  Only *)
(* success flushes the counts.                                             *)
(* Mutant: the name is not looked up first. *)
CanInsertAnyName(d, name) == IsDir(d)

CanInsert(d, name) == IsDir(d) /\ Lookup(d, name) = NoInode

FirstFreeInode(i) == IsFirstZero({j - 1 : j \in inodeBitmap}, i - 1, NumInodes)

(* allocate_blocks_contiguous(n) returns s. *)
Allocates(n, s) ==
  IF n = 0 THEN s = 0 ELSE IsFirstFreeRun(blockBitmap, s, n, NumBlocks)

NoInodeLeft ==
  /\ inodeBitmap = Inodes
  /\ outcome' = "nospace"
  /\ UNCHANGED <<disk, diskCounts, counts>>

(* Mutant: the handle's count is left for a success to adjust. *)
NoRunLeftUncounted(i, n) ==
  /\ n > 0 /\ ~ HasFreeRun(blockBitmap, n, NumBlocks)
  /\ inodeBitmap' = inodeBitmap \cup {i}
  /\ outcome' = "nospace"
  /\ UNCHANGED <<blockBitmap, inodes, dirBlocks, counts, diskCounts>>

NoRunLeft(i, n) ==
  /\ n > 0 /\ ~ HasFreeRun(blockBitmap, n, NumBlocks)
  /\ inodeBitmap' = inodeBitmap \cup {i}
  /\ counts' = [counts EXCEPT !.freeInodes = SatSub(@, 1)]
  /\ outcome' = "nospace"
  /\ UNCHANGED <<blockBitmap, inodes, dirBlocks, diskCounts>>

(* Mutant: a directory counts before its parent has an entry for it. *)
AllocatedCountsEarly(i, s, n) ==
  /\ inodeBitmap' = inodeBitmap \cup {i}
  /\ blockBitmap' = blockBitmap \cup RunBits(s, n)
  /\ LET subdir == inodes'[i].kind = "dir" IN
     counts' = [counts EXCEPT !.freeInodes = SatSub(@, 1),
                              !.freeBlocks = SatSub(@, n),
                              !.usedDirs = IF subdir THEN @ + 1 ELSE @]

(* The new object is on disk; the counts are those of the handle.          *)
Allocated(i, s, n) ==
  /\ inodeBitmap' = inodeBitmap \cup {i}
  /\ blockBitmap' = blockBitmap \cup RunBits(s, n)
  /\ LET subdir == outcome' = "ok" /\ inodes'[i].kind = "dir" IN
     counts' = [counts EXCEPT !.freeInodes = SatSub(@, 1),
                              !.freeBlocks = SatSub(@, n),
                              !.usedDirs = IF subdir THEN @ + 1 ELSE @]

(* What the new object's blocks hold. *)
WithData(i, d, s, n, kind) ==
  [b \in Blocks |->
     IF b \in RunBits(s, n)
       THEN IF kind = "dir" THEN FreshBlock(i, d) ELSE {}
       ELSE dirBlocks[b]]

ParentFull(i, d, name, rec) ==
  /\ ~ Fits(DirEntries(inodes[d]), name)
  /\ inodes' = [inodes EXCEPT ![i] = rec]
  /\ dirBlocks' = WithData(i, d, rec.start, rec.len, rec.kind)
  /\ outcome' = "full"
  /\ Allocated(i, rec.start, rec.len)
  /\ UNCHANGED diskCounts

(* Mutant: the room in the parent's block is not checked. *)
LinkedUnchecked(i, d, name, rec) ==
  /\ inodes' = [inodes EXCEPT ![i] = rec,
                  ![d].links = IF rec.kind = "dir" THEN @ + 1 ELSE @]
  /\ dirBlocks' = [WithData(i, d, rec.start, rec.len, rec.kind) EXCEPT
                     ![inodes[d].start] = Add(@, name, i, FtOf(rec.kind))]
  /\ outcome' = "ok"
  /\ Allocated(i, rec.start, rec.len)
  /\ Flush

Linked(i, d, name, rec) ==
  /\ Fits(DirEntries(inodes[d]), name)
  /\ inodes' = [inodes EXCEPT ![i] = rec,
                  ![d].links = IF rec.kind = "dir" THEN @ + 1 ELSE @]
  /\ dirBlocks' = [WithData(i, d, rec.start, rec.len, rec.kind) EXCEPT
                     ![inodes[d].start] = Add(@, name, i, FtOf(rec.kind))]
  /\ outcome' = "ok"
  /\ Allocated(i, rec.start, rec.len)
  /\ Flush

Insert(d, name, kind, links, size, n) ==
  \/ ~ CanInsert(d, name) /\ Refuse
  \/ CanInsert(d, name) /\ NoInodeLeft
  \/ /\ CanInsert(d, name)
     /\ \E i \in Inodes :
          /\ FirstFreeInode(i)
          /\ \/ NoRunLeft(i, n)
             \/ \E s \in Blocks :
                  /\ Allocates(n, s)
                  /\ LET rec == Inode(kind, links, size, s, n) IN
                     ParentFull(i, d, name, rec) \/ Linked(i, d, name, rec)

CreateFile(path, name, size) ==
  Insert(OpenPath(path), name, "reg", 1, size, CeilDiv(size, BlockSize))

Mkdir(path, name) == Insert(OpenPath(path), name, "dir", 2, BlockSize, 1)

(* A fast symlink keeps its target in the inode: no block. *)
Symlink(path, name, size) ==
  IF size \in 1 .. MaxTarget
    THEN Insert(OpenPath(path), name, "lnk", 1, size, 0)
    ELSE Refuse

-----------------------------------------------------------------------------
(* Removal. *)
OwnRun(rec) == IF rec.size > 0 THEN RunBits(rec.start, rec.len) ELSE {}

Deleted(rec) == [rec EXCEPT !.links = 0, !.size = 0, !.start = 0, !.len = 0]

(* Mutant: the inode is not counted back. *)
FreedForgetsInode(c, rec) ==
  [c EXCEPT !.freeBlocks = @ + Cardinality(OwnRun(rec))]

Freed(c, rec) ==
  [c EXCEPT !.freeBlocks = @ + Cardinality(OwnRun(rec)), !.freeInodes = @ + 1]

(* Mutant: the entry stays. *)
WithEntry(d, t, name) == dirBlocks

(* What unlink does to the disk once it has found t under name in d.       *)
WithoutEntry(d, t, name) ==
  [dirBlocks EXCEPT ![inodes[d].start] = Remove(@, t, name)]

Unlink(path, name) ==
  LET d == OpenPath(path)
      t == IF IsDir(d) THEN Lookup(d, name) ELSE NoInode
  IN
  \/ (t \notin Inodes \/ IsDir(t)) /\ Refuse
  \/ /\ t \in Inodes /\ ~ IsDir(t)
     /\ blockBitmap' = blockBitmap \ OwnRun(inodes[t])
     /\ inodeBitmap' = inodeBitmap \ {t}
     /\ inodes' = [inodes EXCEPT ![t] = Deleted(@)]
     /\ dirBlocks' = WithoutEntry(d, t, name)
     /\ counts' = Freed(counts, inodes[t])
     /\ Flush /\ outcome' = "ok"

IsEmptyDir(t) == \A e \in Live(DirEntries(inodes[t])) : e.name \in Dots

(* Mutant: the parent keeps the link of the removed directory's `..`. *)
RmdirKeepsLink(path, name) ==
  LET d == OpenPath(path)
      t == IF IsDir(d) THEN Lookup(d, name) ELSE NoInode
      removable == t # Root /\ IsDir(t) /\ IsEmptyDir(t)
  IN
  \/ ~ removable /\ Refuse
  \/ /\ removable
     /\ blockBitmap' = blockBitmap \ OwnRun(inodes[t])
     /\ inodeBitmap' = inodeBitmap \ {t}
     /\ inodes' = [inodes EXCEPT ![t] = Deleted(@)]
     /\ dirBlocks' = WithoutEntry(d, t, name)
     /\ counts' = [Freed(counts, inodes[t]) EXCEPT !.usedDirs = SatSub(@, 1)]
     /\ Flush /\ outcome' = "ok"

(* The parent is written back from the copy read at the start, one link    *)
(* fewer, after the target: should the two be the same inode, the parent's *)
(* copy is what stays.                                                     *)
Rmdir(path, name) ==
  LET d == OpenPath(path)
      t == IF IsDir(d) THEN Lookup(d, name) ELSE NoInode
      removable == t # Root /\ IsDir(t) /\ IsEmptyDir(t)
  IN
  \/ ~ removable /\ Refuse
  \/ /\ removable
     /\ blockBitmap' = blockBitmap \ OwnRun(inodes[t])
     /\ inodeBitmap' = inodeBitmap \ {t}
     /\ inodes' = [inodes EXCEPT
                     ![t] = Deleted(@),
                     ![d] = [inodes[d] EXCEPT !.links = SatSub(@, 1)]]
     /\ dirBlocks' = WithoutEntry(d, t, name)
     /\ counts' = [Freed(counts, inodes[t]) EXCEPT !.usedDirs = SatSub(@, 1)]
     /\ Flush /\ outcome' = "ok"

-----------------------------------------------------------------------------
(* rename.  Children and the sets closed under them say what lies below a  *)
(* directory; moving a directory below itself is not refused by the code,  *)
(* and SubtreeMoves says whether callers try it.                           *)
Children(i) == {e.inode : e \in {f \in Live(DirEntries(inodes[i])) :
                                   f.name \notin Dots}}

Closed(S) == \A i \in S : Children(i) \subseteq S

Usable == (inodeBitmap \ Reserved) \cup {Root}

Below(s, d) ==
  \A S \in SUBSET Usable : s \in S /\ Closed(S) => d \in S

(* The disk and the counts once the destination t, if any, is unlinked.    *)
Displaced(t) == IF t = NoInode THEN {} ELSE {t}

AfterUnlink(d, t, name) ==
  IF t = NoInode THEN dirBlocks ELSE WithoutEntry(d, t, name)

(* Mutant: the old entry stays. *)
AfterMoveKeepsOld(blks, s, d1, oldName, d2, newName) ==
  [blks EXCEPT ![inodes[d2].start] = Add(@, newName, s, FtOf(inodes[s].kind))]

(* Mutant: `..` still names the old parent. *)
AfterMoveKeepsDotDot(blks, s, d1, oldName, d2, newName) ==
  LET added == [blks EXCEPT ![inodes[d2].start] =
                  Add(@, newName, s, FtOf(inodes[s].kind))]
  IN [added EXCEPT ![inodes[d1].start] = Remove(@, s, oldName)]

(* The new entry goes in before the old one comes out; a directory that    *)
(* changes parent then has its `..` rewritten.                             *)
AfterMove(blks, s, d1, oldName, d2, newName) ==
  LET added   == [blks EXCEPT ![inodes[d2].start] =
                    Add(@, newName, s, FtOf(inodes[s].kind))]
      removed == [added EXCEPT ![inodes[d1].start] = Remove(@, s, oldName)]
  IN IF d1 # d2 /\ IsDir(s)
       THEN [removed EXCEPT ![inodes[s].start] = SetDotDot(@, d2)]
       ELSE removed

Unlinked(t) ==
  /\ blockBitmap' = blockBitmap \ UNION {OwnRun(inodes[i]) : i \in Displaced(t)}
  /\ inodeBitmap' = inodeBitmap \ Displaced(t)
  /\ counts' = IF t = NoInode THEN counts ELSE Freed(counts, inodes[t])

(* No room for the new entry.  A destination already unlinked stays so,    *)
(* and unlink has flushed the counts.                                      *)
MoveFull(s, d2, t, newName) ==
  LET blks == AfterUnlink(d2, t, newName) IN
  /\ ~ Fits(blks[inodes[d2].start], newName)
  /\ Unlinked(t)
  /\ inodes' = [i \in Inodes |->
                  IF i \in Displaced(t) THEN Deleted(inodes[i]) ELSE inodes[i]]
  /\ dirBlocks' = blks
  /\ IF t = NoInode THEN UNCHANGED diskCounts ELSE Flush
  /\ outcome' = "full"

Moved(s, d1, oldName, d2, t, newName) ==
  LET blks == AfterUnlink(d2, t, newName)
      newParent == d1 # d2 /\ IsDir(s)
  IN
  /\ Fits(blks[inodes[d2].start], newName)
  /\ Unlinked(t)
  /\ inodes' = [i \in Inodes |->
       CASE i \in Displaced(t)  -> Deleted(inodes[i])
         [] newParent /\ i = d1 -> [inodes[i] EXCEPT !.links = SatSub(@, 1)]
         [] newParent /\ i = d2 -> [inodes[i] EXCEPT !.links = @ + 1]
         [] OTHER               -> inodes[i]]
  /\ dirBlocks' = AfterMove(blks, s, d1, oldName, d2, newName)
  /\ Flush /\ outcome' = "ok"

Rename(oldPath, oldName, newPath, newName) ==
  LET d1 == OpenPath(oldPath)
      s  == IF IsDir(d1) THEN Lookup(d1, oldName) ELSE NoInode
      d2 == OpenPath(newPath)
      t  == IF IsDir(d2) THEN Lookup(d2, newName) ELSE NoInode
      found == s \in Inodes /\ s # Root /\ IsDir(d2)
      clobbers == t # NoInode /\ t # s /\ (IsDir(t) \/ IsDir(s))
  IN
  \/ (~ found \/ clobbers) /\ Refuse
  \/ /\ found /\ t = s
     /\ outcome' = "same" /\ UNCHANGED <<disk, diskCounts, counts>>
  \/ /\ found /\ t # s /\ ~ clobbers
     /\ SubtreeMoves \/ ~ Below(s, d2)
     /\ \/ MoveFull(s, d2, t, newName)
        \/ Moved(s, d1, oldName, d2, t, newName)

-----------------------------------------------------------------------------
(* Mutant: the capacity of the run is not checked. *)
GrowUnchecked(i, size) ==
  /\ size > inodes[i].size
  /\ inodes' = [inodes EXCEPT ![i].size = size]
  /\ UNCHANGED <<blockBitmap, inodeBitmap, dirBlocks, counts>>
  /\ Flush /\ outcome' = "ok"

(* truncate: grow inside the blocks at hand, or shrink and free the tail.  *)
Grow(i, size) ==
  LET capacity == IF inodes[i].size > 0 THEN inodes[i].len * BlockSize ELSE 0 IN
  /\ size > inodes[i].size
  /\ \/ size > capacity /\ Refuse
     \/ /\ size <= capacity
        /\ inodes' = [inodes EXCEPT ![i].size = size]
        /\ UNCHANGED <<blockBitmap, inodeBitmap, dirBlocks, counts>>
        /\ Flush /\ outcome' = "ok"

(* Mutant: the whole run is freed, the part that is kept included. *)
ShrinkFreesAll(i, size) ==
  LET rec == inodes[i]
      kept == CeilDiv(size, BlockSize)
      run == RunBits(rec.start, rec.len)
  IN
  /\ size < rec.size
  /\ blockBitmap' = blockBitmap \ run
  /\ inodes' = [inodes EXCEPT ![i].size = size, ![i].len = kept,
                              ![i].start = IF kept = 0 THEN 0 ELSE @]
  /\ counts' = [counts EXCEPT !.freeBlocks = @ + Cardinality(run)]
  /\ Flush /\ outcome' = "ok"
  /\ UNCHANGED <<inodeBitmap, dirBlocks>>

(* Mutant: the tail is cut off the run but stays marked in the bitmap. *)
ShrinkLeaksTail(i, size) ==
  LET kept == CeilDiv(size, BlockSize) IN
  /\ size < inodes[i].size
  /\ inodes' = [inodes EXCEPT ![i].size = size, ![i].len = kept,
                              ![i].start = IF kept = 0 THEN 0 ELSE @]
  /\ UNCHANGED <<blockBitmap, inodeBitmap, dirBlocks, counts>>
  /\ Flush /\ outcome' = "ok"

Shrink(i, size) ==
  LET rec == inodes[i]
      kept == CeilDiv(size, BlockSize)
      tail == RunBits(rec.start, rec.len) \ RunBits(rec.start, kept)
  IN
  /\ size < rec.size
  /\ blockBitmap' = blockBitmap \ tail
  /\ inodes' = [inodes EXCEPT ![i].size = size, ![i].len = kept,
                              ![i].start = IF kept = 0 THEN 0 ELSE @]
  /\ counts' = [counts EXCEPT !.freeBlocks = @ + Cardinality(tail)]
  /\ Flush /\ outcome' = "ok"
  /\ UNCHANGED <<inodeBitmap, dirBlocks>>

Truncate(path, size) ==
  LET i == OpenPath(path)
      regular == i \in Inodes /\ inodes[i].kind = "reg"
  IN
  \/ ~ regular /\ Refuse
  \/ /\ regular /\ size = inodes[i].size
     /\ outcome' = "same" /\ UNCHANGED <<disk, diskCounts, counts>>
  \/ regular /\ Grow(i, size)
  \/ regular /\ Shrink(i, size)

(* chmod, chown and utime rewrite the inode's mode bits, owner and times,  *)
(* none of which the model holds, and do not flush the counts.             *)
SetAttr(path) ==
  \/ OpenPath(path) \notin Inodes /\ Refuse
  \/ /\ OpenPath(path) \in Inodes
     /\ outcome' = "same" /\ UNCHANGED <<disk, diskCounts, counts>>

(* The handle is dropped and the image opened again. *)
Reopen ==
  /\ counts' = diskCounts
  /\ outcome' = "same"
  /\ UNCHANGED <<disk, diskCounts>>

Next ==
  \/ \E path \in Paths, name \in PathNames :
       \/ Mkdir(path, name)
       \/ \E size \in FileSizes : CreateFile(path, name, size)
       \/ \E size \in TargetSizes : Symlink(path, name, size)
       \/ Unlink(path, name)
       \/ Rmdir(path, name)
       \/ \E newPath \in Paths, newName \in PathNames :
            Rename(path, name, newPath, newName)
  \/ \E path \in FullPaths :
       \/ \E size \in FileSizes : Truncate(path, size)
       \/ SetAttr(path)
  \/ Reopen

Spec == Init /\ [][Next]_vars
=============================================================================
