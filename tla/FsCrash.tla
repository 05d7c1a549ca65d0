------------------------------- MODULE FsCrash -------------------------------
(***************************************************************************)
(* The writes that one call of the handle issues, in the order in which    *)
(* the code issues them, and a crash between any two.                      *)
(*                                                                         *)
(* The variables of Filesystem hold what the device holds once the call    *)
(* under way has ended; image is what it holds now, and todo the writes    *)
(* that still separate the two.  A crash loses the handle and todo: the    *)
(* next handle opens image.  flush_metadata (superblock, then descriptor)  *)
(* is one write, as in Filesystem the two counts are one record.           *)
(*                                                                         *)
(* The code has no recovery of its own.  A caller that was interrupted in  *)
(* unlink, rmdir or truncate makes that call again first (owed); one that  *)
(* was interrupted in create_file, mkdir or symlink owes nothing.          *)
(***************************************************************************)
EXTENDS FilesystemProperties

CONSTANT MaxCrashes     \* bound on crashes

ASSUME CrashAssumption == MaxCrashes \in Nat

VARIABLES image,        \* the device
          todo,         \* the writes still to be issued
          call,         \* the call they belong to, if any
          began,        \* what the names showed when it began
          owed,         \* the interrupted call to be made again
          crashes

crashVars == <<vars, image, todo, call, began, owed, crashes>>

NoCall == [op |-> "none"]
Idle == todo = <<>>

(* The device when the call under way has ended. *)
Goal ==
  [blockBitmap |-> blockBitmap, inodeBitmap |-> inodeBitmap,
   inodes |-> inodes, dirBlocks |-> dirBlocks, counts |-> diskCounts]

Img == INSTANCE FilesystemProperties WITH
  blockBitmap <- image.blockBitmap, inodeBitmap <- image.inodeBitmap,
  inodes <- image.inodes, dirBlocks <- image.dirBlocks,
  diskCounts <- image.counts, counts <- image.counts, outcome <- "same"

(* What a walk of the names shows. *)
Shown == {[path |-> x.path, inode |-> x.inode, kind |-> inodes[x.inode].kind] :
            x \in NamedPaths}
ShownNow ==
  {[path |-> x.path, inode |-> x.inode, kind |-> image.inodes[x.inode].kind] :
     x \in Img!NamedPaths}

CrashInit ==
  /\ Init
  /\ image = Goal
  /\ todo = <<>> /\ call = NoCall /\ owed = NoCall
  /\ began = {} /\ crashes = 0

-----------------------------------------------------------------------------
(* A write puts val at what: a whole bitmap, the counts, or some records   *)
(* of the inode table or some blocks, val giving each its new content.     *)
Write(what, val) == [what |-> what, val |-> val]

Only(f, S) == [x \in S |-> f[x]]
Over(f, g) == [x \in DOMAIN f |-> IF x \in DOMAIN g THEN g[x] ELSE f[x]]

Put(img, w) ==
  CASE w.what = "blockBitmap" -> [img EXCEPT !.blockBitmap = w.val]
    [] w.what = "inodeBitmap" -> [img EXCEPT !.inodeBitmap = w.val]
    [] w.what = "inodes"      -> [img EXCEPT !.inodes = Over(@, w.val)]
    [] w.what = "dirBlocks"   -> [img EXCEPT !.dirBlocks = Over(@, w.val)]
    [] w.what = "counts"      -> [img EXCEPT !.counts = w.val]

BlockBits == Write("blockBitmap", blockBitmap')
InodeBits == Write("inodeBitmap", inodeBitmap')
InodeRecords(S) == Write("inodes", Only(inodes', S))
BlocksOf(blks, S) == Write("dirBlocks", Only(blks, {inodes[i].start : i \in S}))
Counts == Write("counts", diskCounts')

(* The order of the writes of each call.                                   *)
(* Mutant: the entry is written before what it names. *)
InsertCourseEntryFirst(d) ==
  LET new == inodeBitmap' \ inodeBitmap
      data == blockBitmap' \ blockBitmap
  IN <<BlocksOf(dirBlocks', {d}), InodeBits, BlockBits, InodeRecords(new),
       Write("dirBlocks", Only(dirBlocks', data)), InodeRecords({d}), Counts>>

(* Mutant: the block bitmap is kept in memory until the end. *)
InsertCourseBitsLast(d) ==
  LET new == inodeBitmap' \ inodeBitmap
      data == blockBitmap' \ blockBitmap
  IN <<InodeBits, InodeRecords(new),
       Write("dirBlocks", Only(dirBlocks', data)),
       BlocksOf(dirBlocks', {d}), InodeRecords({d}), BlockBits, Counts>>

(* create_file, mkdir, symlink: the entry comes after all it leads to. *)
InsertCourse(d) ==
  LET new == inodeBitmap' \ inodeBitmap
      data == blockBitmap' \ blockBitmap
  IN <<InodeBits, BlockBits, InodeRecords(new),
       Write("dirBlocks", Only(dirBlocks', data)),
       BlocksOf(dirBlocks', {d}), InodeRecords({d}), Counts>>

(* Mutant: the parent is not written back. *)
RemoveCourseKeepsParent(d, t) ==
  <<BlockBits, InodeBits, InodeRecords({t}), BlocksOf(dirBlocks', {d}), Counts>>

(* unlink, rmdir: the entry goes after all it led to. *)
RemoveCourse(d, t) ==
  <<BlockBits, InodeBits, InodeRecords({t}), BlocksOf(dirBlocks', {d}),
    InodeRecords({d}), Counts>>

(* Mutant: the old entry goes before the new one comes. *)
MoveCourseRemovesFirst(s, d1, oldName, d2, t, newName) ==
  LET unlinked == AfterUnlink(d2, t, newName)
      removed == IF outcome' = "full" THEN unlinked
                 ELSE [unlinked EXCEPT ![inodes[d1].start] = Remove(@, s, oldName)]
  IN <<BlockBits, InodeBits, InodeRecords(Displaced(t)),
       BlocksOf(unlinked, {d2}), Counts,
       BlocksOf(removed, {d1}), BlocksOf(dirBlocks', {d2}),
       BlocksOf(dirBlocks', {s}), InodeRecords({d1}), InodeRecords({d2}), Counts>>

(* rename: the unlink of the destination with its flush, then the entries. *)
MoveCourse(s, d1, oldName, d2, t, newName) ==
  LET unlinked == AfterUnlink(d2, t, newName)
      added == IF outcome' = "full" THEN unlinked
               ELSE [unlinked EXCEPT ![inodes[d2].start] =
                       Add(@, newName, s, FtOf(inodes[s].kind))]
      removed == IF outcome' = "full" THEN unlinked
                 ELSE [added EXCEPT ![inodes[d1].start] = Remove(@, s, oldName)]
  IN <<BlockBits, InodeBits, InodeRecords(Displaced(t)),
       BlocksOf(unlinked, {d2}), Counts,
       BlocksOf(added, {d2}), BlocksOf(removed, {d1}),
       BlocksOf(dirBlocks', {s}), InodeRecords({d1}), InodeRecords({d2}), Counts>>

ResizeCourse(i) == <<BlockBits, InodeRecords({i}), Counts>>

(* What is left of a course at img: it goes on with the first write that   *)
(* changes anything.                                                       *)
Pending(img, course) ==
  LET changes == {k \in 1 .. Len(course) : Put(img, course[k]) # img} IN
  IF changes = {} THEN <<>>
  ELSE SubSeq(course, CHOOSE k \in changes : \A j \in changes : k <= j, Len(course))

(* A call enters its course; one that changes nothing has none.            *)
Issue(course) == todo' = IF Goal' = Goal THEN <<>> ELSE Pending(image, course)

-----------------------------------------------------------------------------
(* An interrupted call that is owed is made before any other.              *)
Admits(c) == owed \in {NoCall, c}

(* A call that writes nothing (refused, or nothing to change) leaves all   *)
(* as it was and is no step here, unless it is the one owed.               *)
Calls(c) ==
  /\ todo' # <<>> \/ owed # NoCall
  /\ IF todo' = <<>> THEN call' = NoCall /\ began' = {}
                     ELSE call' = c /\ began' = Shown
  /\ owed' = NoCall
  /\ UNCHANGED <<image, crashes>>

(* An empty file takes the course of a symlink, which needs no block       *)
(* either; truncate makes empty files.                                     *)
InsertStep(path, name) ==
  /\ Admits([op |-> "insert"])
  /\ \/ Mkdir(path, name)
     \/ \E size \in FileSizes \ {0} : CreateFile(path, name, size)
     \/ \E size \in TargetSizes : Symlink(path, name, size)
  /\ Issue(InsertCourse(OpenPath(path)))
  /\ Calls([op |-> "insert"])

RemoveStep(path, name) ==
  LET d == OpenPath(path)
      t == IF IsDir(d) THEN Lookup(d, name) ELSE NoInode
      c(op) == [op |-> op, path |-> path, name |-> name]
  IN
  \/ /\ Admits(c("unlink"))
     /\ Unlink(path, name)
     /\ Issue(RemoveCourse(d, t))
     /\ Calls(c("unlink"))
  \/ /\ Admits(c("rmdir"))
     /\ Rmdir(path, name)
     /\ Issue(RemoveCourse(d, t))
     /\ Calls(c("rmdir"))

MoveStep(oldPath, oldName, newPath, newName) ==
  LET d1 == OpenPath(oldPath)
      s  == IF IsDir(d1) THEN Lookup(d1, oldName) ELSE NoInode
      d2 == OpenPath(newPath)
      t  == IF IsDir(d2) THEN Lookup(d2, newName) ELSE NoInode
  IN
  /\ Admits([op |-> "rename"]) /\ s # NoInode
  /\ Rename(oldPath, oldName, newPath, newName)
  /\ Issue(MoveCourse(s, d1, oldName, d2, t, newName))
  /\ Calls([op |-> "rename"])

ResizeStep(path, size) ==
  /\ Admits([op |-> "truncate", path |-> path, size |-> size])
  /\ Truncate(path, size)
  /\ Issue(ResizeCourse(OpenPath(path)))
  /\ Calls([op |-> "truncate", path |-> path, size |-> size])

OpenAgain ==
  Admits(NoCall) /\ Reopen /\ UNCHANGED <<todo, call, began, owed, image, crashes>>

WriteNext ==
  /\ ~ Idle
  /\ image' = Put(image, Head(todo))
  /\ todo' = Pending(image', Tail(todo))
  /\ IF todo' = <<>> THEN call' = NoCall /\ began' = {}
                     ELSE UNCHANGED <<call, began>>
  /\ UNCHANGED <<vars, owed, crashes>>

(* rename has no call that completes it (a second one finds both names on  *)
(* one inode and reports success), so the behaviours after a crash in it   *)
(* are left out; what it would leave is the image before each write.       *)
Crash ==
  /\ ~ Idle /\ crashes < MaxCrashes /\ call.op # "rename"
  /\ crashes' = crashes + 1
  /\ todo' = <<>> /\ began' = {}
  /\ call' = NoCall
  /\ owed' = IF call.op = "insert" THEN NoCall ELSE call
  /\ blockBitmap' = image.blockBitmap /\ inodeBitmap' = image.inodeBitmap
  /\ inodes' = image.inodes /\ dirBlocks' = image.dirBlocks
  /\ diskCounts' = image.counts /\ counts' = image.counts
  /\ outcome' = "same"
  /\ UNCHANGED image

(* A call whose directory is not there is refused, so it is no step. *)
DirPaths == {path \in Paths : IsDir(OpenPath(path))}

(* No call begins while another is under way. *)
CallNext ==
  \/ \E path \in DirPaths, name \in PathNames :
       \/ InsertStep(path, name)
       \/ RemoveStep(path, name)
       \/ \E newPath \in DirPaths, newName \in PathNames :
            MoveStep(path, name, newPath, newName)
  \/ \E path \in FullPaths, size \in FileSizes : ResizeStep(path, size)
  \/ OpenAgain

CrashNext == (Idle /\ CallNext) \/ WriteNext \/ Crash

CrashSpec == CrashInit /\ [][CrashNext]_crashVars

-----------------------------------------------------------------------------
(* The writes of a call, in their order, add up to what the call does as a *)
(* whole: nothing is overwritten by a stale copy (the parent's block read  *)
(* before an edit of the same call, the parent's inode) and nothing is     *)
(* left in memory.                                                         *)
WritesAddUp == Idle => image = Goal

(* No block has two owners, no entry dangles, and the names are a tree,    *)
(* with dots that agree.  Only room and exact counts may be lost.          *)
Consistent ==
  BlocksOwnedOnce /\ NoDanglingEntry /\ NamesFormTree /\ DotsMatchTree

(* Wherever create_file, mkdir or symlink is interrupted, and wherever     *)
(* unlink, rmdir or truncate is, once the interrupted removal is repeated: *)
(* the image is consistent.                                                *)
SoundOnceRepeated == Idle /\ owed = NoCall => Consistent

(* Between two writes of a call the names show nothing that was there      *)
(* neither before nor after it, and all that was there before and after.   *)
NamesInBetween ==
  ~ Idle => /\ ShownNow \subseteq began \cup Shown
            /\ began \cap Shown \subseteq ShownNow

(* What keeps a name through the call has one at every moment of it: a     *)
(* crash in rename may leave two names, never none.                        *)
InodesIn(names) == {x.inode : x \in names}
NeverNameless ==
  ~ Idle => InodesIn(began) \cap InodesIn(Shown) \subseteq InodesIn(ShownNow)

(* A crash harms the object of the call only: whatever else has a name     *)
(* keeps its inode bit and its blocks, shared with nothing that has one.   *)
Bystanders ==
  (InodesIn(ShownNow) \cap InodesIn(Shown)) \
    (IF call.op = "truncate" THEN {OpenPath(call.path)} ELSE {})
DamageIsLocal ==
  ~ Idle => \A i \in Bystanders :
    /\ i \in image.inodeBitmap
    /\ OwnRun(image.inodes[i]) \subseteq image.blockBitmap \ (0 .. (RootBlock - 1))
    /\ \A j \in Bystanders \ {i} :
         OwnRun(image.inodes[i]) \cap OwnRun(image.inodes[j]) = {}
=============================================================================
