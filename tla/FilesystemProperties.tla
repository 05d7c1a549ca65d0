------------------------ MODULE FilesystemProperties ------------------------
(* What the image and the handle must satisfy after every operation.       *)
EXTENDS Filesystem

InodeType ==
  [kind : {"none", "reg", "dir", "lnk"}, links : Nat, size : Nat,
   start : Blocks, len : 0 .. NumBlocks]

CountsType == [freeBlocks : Nat, freeInodes : Nat, usedDirs : Nat]

EntryType ==
  [off : 0 .. BlockSize, recLen : 8 .. BlockSize, inode : Inodes,
   name : AllNames, ftype : FileTypes]

TypeOK ==
  /\ blockBitmap \subseteq Blocks
  /\ inodeBitmap \subseteq Inodes
  /\ inodes \in [Inodes -> InodeType]
  /\ dirBlocks \in [Blocks -> SUBSET EntryType]
  /\ counts \in CountsType /\ diskCounts \in CountsType
  /\ outcome \in {"ok", "same", "refused", "nospace", "full"}

(* The image can be read: its fields have their types, and the block of    *)
(* every allocated directory, one that a failed mkdir left behind too, is  *)
(* what the linear walks of lookup, read_dir, add_dir_entry and            *)
(* remove_dir_entry take for granted: records one after another from the   *)
(* block's first byte to its last, no two of them over the same bytes, and *)
(* no live name twice, though the edits check no more than the last        *)
(* record's slack.                                                         *)
ImageReadable ==
  /\ TypeOK
  /\ \A d \in {i \in Usable : IsDir(i) /\ inodes[i].len > 0} :
       LET es == DirEntries(inodes[d]) IN
       /\ inodes[d].len = 1 /\ Tiled(es)
       /\ \A e, f \in Live(es) : e.name = f.name => e = f

-----------------------------------------------------------------------------
(* Vocabulary.  Reachable: in every closed set that holds the root.        *)
Reachable ==
  {i \in Usable : \A S \in SUBSET Usable : Root \in S /\ Closed(S) => i \in S}

Dirs == {i \in Reachable : IsDir(i)}

Named(i) == {e \in Live(DirEntries(inodes[i])) : e.name \notin Dots}

(* The (directory, entry) pairs, in any allocated directory, that name i.  *)
References(i) ==
  {r \in UNION {{d} \X Named(d) : d \in {j \in Usable : IsDir(j)}} :
     r[2].inode = i}

Owned(S) == UNION {OwnRun(inodes[i]) : i \in S}
LeakedInodes == Usable \ Reachable
LeakedBlocks == blockBitmap \ (0 .. (RootBlock - 1) \cup Owned(Reachable))

-----------------------------------------------------------------------------
(* No block is handed out twice: the runs of two allocated inodes are      *)
(* disjoint, marked in the block bitmap and clear of the metadata, and an  *)
(* inode whose bit is clear owns nothing.                                  *)
BlocksOwnedOnce ==
  /\ \A i \in Usable :
       /\ OwnRun(inodes[i]) \subseteq blockBitmap \ (0 .. (RootBlock - 1))
       /\ \A j \in Usable \ {i} : OwnRun(inodes[i]) \cap OwnRun(inodes[j]) = {}
  /\ \A i \in Inodes \ Usable : OwnRun(inodes[i]) = {}

(* Nothing reachable names an inode that was freed, or one of another type *)
(* than the entry says: reuse of an inode number never shows through an    *)
(* old name.                                                               *)
NoDanglingEntry ==
  \A d \in Dirs : \A e \in Live(DirEntries(inodes[d])) :
    /\ e.inode \in Usable
    /\ inodes[e.inode].links > 0
    /\ e.ftype = FtOf(inodes[e.inode].kind)

(* The names form a tree: an inode has one name at most, the root none,    *)
(* and whatever has a name can be reached from the root.                   *)
NamesFormTree ==
  /\ References(Root) = {}
  /\ \A i \in Usable : Cardinality(References(i)) <= 1
  /\ \A i \in Usable : References(i) # {} => i \in Reachable

(* The two dots agree with the tree, also after a directory has moved.     *)
DotsMatchTree ==
  \A d \in Dirs :
    /\ Lookup(d, ".") = d
    /\ \/ d = Root /\ Lookup(d, "..") = Root
       \/ \E r \in References(d) : r[1] = Lookup(d, "..")

(* links_count is what e2fsck recounts: two and one per subdirectory for a *)
(* directory, one for a file or a symlink.                                 *)
LinksExact ==
  \A i \in Reachable :
    inodes[i].links =
      IF IsDir(i) THEN 2 + Cardinality({e \in Named(i) : IsDir(e.inode)}) ELSE 1

(* used_dirs_count, cached and on disk, is the number of directories that  *)
(* have a name: one that mkdir failed to enter in its parent never counts. *)
UsedDirsExact ==
  counts.usedDirs = Cardinality(Dirs) /\ diskCounts.usedDirs = counts.usedDirs

(* Free counts may be stale but never too low, so none saturates at zero   *)
(* and none hides room that the bitmaps have.                              *)
FreeBlocks == Cardinality(Blocks \ blockBitmap)
FreeInodes == Cardinality(Inodes \ inodeBitmap)

CountsNeverLow ==
  \A c \in {counts, diskCounts} :
    c.freeBlocks >= FreeBlocks /\ c.freeInodes >= FreeInodes

(* A file's run is as long as its size needs, whatever was truncated.      *)
SizesFitRuns ==
  \A i \in Usable :
    inodes[i].kind = "reg" => inodes[i].len = CeilDiv(inodes[i].size, BlockSize)

-----------------------------------------------------------------------------
(* A call that succeeds leaks nothing, and reclaims nothing leaked before. *)
SuccessLeaksNothing ==
  [][outcome' \in {"ok", "same"} =>
       /\ LeakedInodes' = LeakedInodes
       /\ LeakedBlocks' = LeakedBlocks]_vars

(* The handle's counts follow the bitmaps through every call, those that   *)
(* fail half way included; only opening the image again makes them drift.  *)
Drift == <<counts.freeBlocks - FreeBlocks, counts.freeInodes - FreeInodes>>

DriftOnlyAtReopen == [][Drift' = Drift \/ Reopen]_vars

(* Refuted: rename "mirrors POSIX rename(2)".  A rename, or any other      *)
(* call, that fails leaves every name where it was.                        *)
NamedPaths ==
  LET root == [path |-> <<>>, inode |-> Root]
      upTo[k \in 0 .. Cardinality(Usable)] ==
        {root} \cup
          (IF k = 0 THEN {}
           ELSE UNION {{[path |-> Append(x.path, e.name), inode |-> e.inode] :
                          e \in Named(x.inode)} : x \in upTo[k - 1]})
  IN upTo[Cardinality(Usable)]

NodeOf(rec) ==
  [kind |-> rec.kind, size |-> IF rec.kind = "dir" THEN 0 ELSE rec.size]

Tree ==
  LET named == NamedPaths IN
  [p \in {x.path : x \in named} |->
     NodeOf(inodes[(CHOOSE x \in named : x.path = p).inode])]

FailureKeepsNames == [][outcome' \notin {"ok", "same"} => Tree' = Tree]_vars

-----------------------------------------------------------------------------
(* The handle implements the namespace of module Namespace.                *)
Promise == INSTANCE Namespace WITH
  tree <- Tree,
  outcome <- IF outcome \in {"ok", "same"} THEN outcome ELSE "failed"

IsNamespace == Promise!Spec
=============================================================================
