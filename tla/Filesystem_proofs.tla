------------------------- MODULE Filesystem_proofs --------------------------
(***************************************************************************)
(* First part.  The allocator's invariants, for every image size, set of   *)
(* names, path depth and set of file sizes, as long as callers do not name *)
(* `.` or `..` in a path (see run rmdir_dot for what happens when they     *)
(* do).                                                                    *)
(***************************************************************************)
EXTENDS FilesystemProperties, DirBlock_proofs, WellFoundedInduction,
        FiniteSetTheorems

(* Induction on a set, least counterexample. *)
LEMMA NatSetInduction ==
  ASSUME NEW S, 0 \in S, \A n \in Nat : n \in S => n + 1 \in S
  PROVE  Nat \subseteq S
<1>1. \A T \in SUBSET Nat : T # {} => \E m \in T : \A k \in T : ~ (k < m)
  <2>. SUFFICES ASSUME NEW T \in SUBSET Nat, T # {}
       PROVE  \E m \in T : \A k \in T : ~ (k < m)
    OBVIOUS
  <2>1. PICK m \in T : \A k \in T : ~ (<<k, m>> \in OpToRel(<, Nat))
    BY NatLessThanWellFounded, WFMin
  <2>. QED
    BY <2>1 DEF OpToRel
<1>. SUFFICES ASSUME Nat \ S # {} PROVE FALSE
  OBVIOUS
<1>2. PICK m \in Nat \ S : \A k \in Nat \ S : ~ (k < m)
  BY <1>1
<1>3. m # 0 /\ m - 1 \in Nat /\ m - 1 < m
  BY <1>2
<1>4. m - 1 \in S
  BY <1>2, <1>3
<1>5. (m - 1) + 1 \in S
  BY <1>3, <1>4
<1>. QED
  BY <1>2, <1>5

(* open_path looks up one component after the other, from the root.        *)
Opens(path, at) ==
  \A k \in 0 .. Len(path) :
    at[k] = IF k = 0 THEN Root ELSE Walk(at[k - 1], path[k])

LEMMA OpenPathRuns ==
  ASSUME NEW path \in FullPaths, NEW G, Root \in G,
         \A i \in G : \A name \in PathNames : Walk(i, name) \in G
  PROVE  /\ Len(path) \in Nat /\ path \in [1 .. Len(path) -> PathNames]
         /\ \E at : Opens(path, at) /\ OpenPath(path) = at[Len(path)]
<1>. DEFINE n == Len(path)
            Step(f, k) == IF k = 0 THEN Root ELSE Walk(f[k - 1], path[k])
<1>1. n \in Nat /\ path \in [1 .. n -> PathNames]
  <2>1. PICK k \in Nat : path \in [1 .. k -> PathNames]
    BY FilesystemAssumption DEF FullPaths, PathsUpTo
  <2>2. path \in Seq(PathNames) /\ Len(path) = k
    BY <2>1
  <2>. QED
    BY <2>1, <2>2
<1>. HIDE DEF n
<1>. DEFINE Chains(m) == {f \in [0 .. m -> G] : \A k \in 0 .. m : f[k] = Step(f, k)}
            S == {m \in Nat : m <= n => Chains(m) # {}}
<1>2. 0 \in S
  <2>1. [k \in 0 .. 0 |-> Root] \in Chains(0)
    OBVIOUS
  <2>. QED
    BY <2>1
<1>3. ASSUME NEW m \in Nat, m \in S PROVE m + 1 \in S
  <2>. SUFFICES ASSUME m + 1 <= n PROVE Chains(m + 1) # {}
    OBVIOUS
  <2>1. PICK f \in Chains(m) : TRUE
    BY <1>1, <1>3
  <2>. DEFINE g == [k \in 0 .. (m + 1) |-> IF k = m + 1 THEN Walk(f[m], path[m + 1])
                                                       ELSE f[k]]
  <2>2. f[m] \in G /\ path[m + 1] \in PathNames
    BY <1>1, <2>1
  <2>3. g \in [0 .. (m + 1) -> G]
    BY <2>1, <2>2
  <2>4. \A k \in 0 .. (m + 1) : g[k] = Step(g, k)
    <3>1. ASSUME NEW k \in 0 .. m PROVE g[k] = Step(g, k)
      <4>1. g[k] = f[k] /\ f[k] = Step(f, k)
        BY <2>1
      <4>2. k # 0 => g[k - 1] = f[k - 1]
        OBVIOUS
      <4>. QED
        BY <4>1, <4>2
    <3>2. g[m + 1] = Step(g, m + 1)
      OBVIOUS
    <3>. QED
      BY <3>1, <3>2
  <2>. QED
    BY <2>3, <2>4
<1>4. PICK f \in Chains(n) : TRUE
  <2>1. n \in S
    <3>. HIDE DEF S
    <3>. QED
      BY <1>1, <1>2, <1>3, NatSetInduction
  <2>. QED
    BY <1>1, <2>1
<1>. DEFINE at == CHOOSE h : h = [k \in 0 .. n |-> Step(h, k)]
<1>5. at = [k \in 0 .. n |-> Step(at, k)]
  <2>1. f = [k \in 0 .. n |-> Step(f, k)]
    BY <1>4
  <2>. QED
    BY <2>1
<1>6. OpenPath(path) = at[n]
  BY DEF OpenPath, n
<1>7. Opens(path, at)
  <2>1. \A k \in 0 .. n : at[k] = Step(at, k)
    BY <1>5
  <2>. QED
    BY <2>1 DEF Opens, n
<1>. QED
  BY <1>1, <1>6, <1>7 DEF n

(* It returns what a chain of lookups from the root can reach.             *)
LEMMA OpenPathStays ==
  ASSUME NEW path \in FullPaths, NEW G, Root \in G,
         \A i \in G : \A name \in PathNames : Walk(i, name) \in G
  PROVE  OpenPath(path) \in G
<1>. DEFINE n == Len(path)
<1>1. /\ n \in Nat /\ path \in [1 .. n -> PathNames]
      /\ \E at : Opens(path, at) /\ OpenPath(path) = at[n]
  BY OpenPathRuns
<1>2. PICK at : Opens(path, at) /\ OpenPath(path) = at[n]
  BY <1>1
<1>5. \A k \in 0 .. n : at[k] = IF k = 0 THEN Root ELSE Walk(at[k - 1], path[k])
  BY <1>2 DEF Opens
<1>. HIDE DEF n
<1>7. at[n] \in G
  <2>. DEFINE T == {m \in Nat : m <= n => at[m] \in G}
  <2>1. 0 \in T
    BY <1>1, <1>5
  <2>2. ASSUME NEW m \in Nat, m \in T PROVE m + 1 \in T
    <3>1. m + 1 <= n => path[m + 1] \in PathNames
      BY <1>1
    <3>2. m + 1 <= n => at[m + 1] = Walk(at[m], path[m + 1])
      BY <1>1, <1>5
    <3>. QED
      BY <1>1, <2>2, <3>1, <3>2
  <2>3. n \in T
    <3>. HIDE DEF T
    <3>. QED
      BY <1>1, <2>1, <2>2, NatSetInduction
  <2>. QED
    BY <1>1, <2>3
<1>. QED
  BY <1>2, <1>7 DEF n

-----------------------------------------------------------------------------
(* The inductive invariant.  Its directories are the allocated ones with a *)
(* block: an inode that a failed mkdir leaked is one, an inode that rmdir  *)
(* freed is none, though it keeps its kind.                                *)
NoDotsInPaths == PathNames \cap Dots = {}

DirRecs == {i \in Usable : inodes[i].kind = "dir" /\ inodes[i].len > 0}

Block(d) == dirBlocks[inodes[d].start]

Refers(blk, name, i) == \E e \in blk : e.name = name /\ e.inode = i

(* A directory's block: sound, with a `..`. *)
DirectoryBlock(blk) == Sound(blk, Inodes) /\ \E e \in blk : e.name = ".."

MetadataMarked ==
  /\ Reserved \subseteq inodeBitmap
  /\ 0 .. (RootBlock - 1) \subseteq blockBitmap
  /\ Root \in DirRecs

DirsSound ==
  \A d \in DirRecs : /\ inodes[d].len = 1 /\ inodes[d].size > 0
                     /\ DirectoryBlock(Block(d))

RefsUsable ==
  \A d \in DirRecs, i \in Inodes, n \in Names :
    Refers(Block(d), n, i) => i \in Usable /\ (inodes[i].kind = "dir" => i \in DirRecs)

RefsUnique ==
  \A d1, d2 \in DirRecs, i \in Inodes, n1, n2 \in Names :
    Refers(Block(d1), n1, i) /\ Refers(Block(d2), n2, i) => d1 = d2 /\ n1 = n2

(* An inode whose bit is clear is blank, but for its kind. *)
FreedBlank ==
  \A i \in Inodes \ Usable : inodes[i].size = 0 /\ inodes[i].len = 0

IInv ==
  /\ TypeOK
  /\ MetadataMarked
  /\ FreedBlank
  /\ BlocksOwnedOnce
  /\ SizesFitRuns
  /\ DirsSound
  /\ RefsUsable
  /\ RefsUnique

LEMMA Constants ==
  ASSUME NoDotsInPaths
  PROVE  /\ NumInodes \in Nat /\ NumInodes >= 11
         /\ NumBlocks \in Nat /\ RootBlock \in Nat /\ RootBlock < NumBlocks
         /\ BlockSize \in Nat /\ BlockSize >= 24
         /\ PathNames \subseteq Names
         /\ "." \notin Names /\ ".." \notin Names
         /\ FileSizes \subseteq Nat /\ TargetSizes \subseteq Nat
         /\ 0 \in Blocks /\ 0 \notin Inodes /\ Root \in Inodes
<1>1. Names \cap Dots = {}
  BY DirBlockAssumption
<1>. QED
  BY <1>1, FilesystemAssumption, BlockSizeBounds
     DEF NoDotsInPaths, AllNames, Dots, Blocks, Inodes, Root

(* ceil_div rounds up, and does not fall when its argument grows. *)
LEMMA CeilDivBounds ==
  ASSUME NEW a \in Nat, NEW b \in Nat, b > 0
  PROVE  /\ CeilDiv(a, b) \in Nat
         /\ a <= CeilDiv(a, b) * b /\ CeilDiv(a, b) * b < a + b
<1>. DEFINE q == CeilDiv(a, b)
<1>1. q \in Int /\ q * b <= a + b - 1 /\ a + b - 1 < (q + 1) * b
  BY DEF CeilDiv
<1>2. (q + 1) * b = q * b + b
  BY <1>1
<1>3. q \in Nat
  BY <1>1, <1>2 DEF CeilDiv
<1>. QED
  BY <1>1, <1>2, <1>3

LEMMA MultipleBelow ==
  ASSUME NEW p \in Nat, NEW q \in Nat, NEW b \in Nat, p * b < q * b + b
  PROVE  p <= q
<1>. SUFFICES ASSUME p >= q + 1 PROVE FALSE
  OBVIOUS
<1>1. PICK k \in Nat : p = q + 1 + k
  <2>1. p - q - 1 \in Nat /\ p = q + 1 + (p - q - 1)
    OBVIOUS
  <2>. QED
    BY <2>1
<1>2. p * b = q * b + b + k * b
  BY <1>1
<1>3. k * b \in Nat /\ q * b \in Nat
  OBVIOUS
<1>. QED
  BY <1>2, <1>3

LEMMA CeilDivMonotone ==
  ASSUME NEW a \in Nat, NEW c \in Nat, a <= c, NEW b \in Nat, b > 0
  PROVE  CeilDiv(a, b) <= CeilDiv(c, b)
<1>1. CeilDiv(a, b) \in Nat /\ CeilDiv(a, b) * b < a + b
  BY CeilDivBounds
<1>2. CeilDiv(c, b) \in Nat /\ c <= CeilDiv(c, b) * b
  BY CeilDivBounds
<1>3. CeilDiv(a, b) * b < CeilDiv(c, b) * b + b
  BY <1>1, <1>2
<1>. QED
  BY <1>1, <1>2, <1>3, MultipleBelow

LEMMA CeilDivInCapacity ==
  ASSUME NEW a \in Nat, NEW b \in Nat, b > 0, NEW len \in Nat, a <= len * b
  PROVE  CeilDiv(a, b) <= len
<1>1. CeilDiv(a, b) \in Nat /\ CeilDiv(a, b) * b < a + b
  BY CeilDivBounds
<1>2. CeilDiv(a, b) * b < len * b + b
  BY <1>1
<1>. QED
  BY <1>1, <1>2, MultipleBelow

LEMMA CeilDivZero ==
  ASSUME NEW a \in Nat, NEW b \in Nat, b > 0
  PROVE  CeilDiv(a, b) = 0 <=> a = 0
<1>1. CeilDiv(a, b) \in Nat /\ a <= CeilDiv(a, b) * b /\ CeilDiv(a, b) * b < a + b
  BY CeilDivBounds
<1>2. a = 0 => CeilDiv(a, b) <= 0
  BY CeilDivInCapacity
<1>. QED
  BY <1>1, <1>2

-----------------------------------------------------------------------------
(* What a path resolves to, and what a name is found to be.                *)
LEMMA InodeFields ==
  ASSUME TypeOK, NEW i \in Inodes
  PROVE  /\ inodes[i] \in InodeType
         /\ inodes[i].kind \in {"none", "reg", "dir", "lnk"}
         /\ inodes[i].links \in Nat /\ inodes[i].size \in Nat
         /\ inodes[i].start \in Blocks /\ inodes[i].len \in 0 .. NumBlocks
BY DEF TypeOK, InodeType

LEMMA LookupFinds ==
  ASSUME NoDotsInPaths, IInv, NEW d \in DirRecs, NEW name
  PROVE  \/ /\ Lookup(d, name) = NoInode
            /\ \A e \in Block(d) : e.name # name
         \/ /\ Lookup(d, name) \in Inodes
            /\ Refers(Block(d), name, Lookup(d, name))
<1>1. Sound(Block(d), Inodes) /\ inodes[d].len # 0
  BY DEF IInv, DirsSound, DirectoryBlock, DirRecs
<1>2. DirEntries(inodes[d]) = Block(d)
  BY <1>1 DEF DirEntries, Block
<1>3. \A e \in Block(d) : e.inode \in Inodes /\ e.inode # 0
  BY <1>1, SoundEntry, Constants
<1>4. CASE \A e \in Block(d) : e.name # name
  <2>1. Called(Block(d), name) = {}
    BY <1>4 DEF Called, Live
  <2>. QED
    BY <1>2, <1>4, <2>1 DEF Lookup
<1>5. CASE \E e \in Block(d) : e.name = name
  <2>1. PICK e \in Block(d) : e.name = name
    BY <1>5
  <2>2. Called(Block(d), name) = {e} /\ FirstOf(Called(Block(d), name)) = e
    BY <1>1, <1>3, <2>1, TargetIsUnique
  <2>3. Lookup(d, name) = e.inode
    BY <1>2, <2>2 DEF Lookup
  <2>. QED
    BY <1>3, <2>1, <2>3 DEF Refers
<1>. QED
  BY <1>4, <1>5

Resolved(i) == i \in Usable /\ (inodes[i].kind = "dir" => i \in DirRecs)

LEMMA LookupResolves ==
  ASSUME NoDotsInPaths, IInv, NEW d \in DirRecs, NEW name \in PathNames,
         Lookup(d, name) # NoInode
  PROVE  /\ Lookup(d, name) \in Inodes
         /\ Refers(Block(d), name, Lookup(d, name))
         /\ Resolved(Lookup(d, name))
<1>1. Lookup(d, name) \in Inodes /\ Refers(Block(d), name, Lookup(d, name))
  BY LookupFinds
<1>2. name \in Names
  BY Constants
<1>. QED
  BY <1>1, <1>2 DEF IInv, RefsUsable, Resolved

LEMMA UsableInodes ==
  ASSUME NoDotsInPaths, IInv
  PROVE  Usable \subseteq Inodes /\ 0 \notin Usable /\ DirRecs \subseteq Usable
BY Constants DEF IInv, TypeOK, Usable, DirRecs

LEMMA WalksResolve ==
  ASSUME NoDotsInPaths, IInv
  PROVE  LET G == {NoInode} \cup {i \in Usable : Resolved(i)} IN
         Root \in G /\ \A i \in G : \A name \in PathNames : Walk(i, name) \in G
<1>. DEFINE G == {NoInode} \cup {i \in Usable : Resolved(i)}
<1>1. Root \in G
  BY DEF IInv, MetadataMarked, Resolved, DirRecs
<1>2. ASSUME NEW i \in G, NEW name \in PathNames PROVE Walk(i, name) \in G
  <2>1. CASE ~ IsDir(i)
    BY <2>1 DEF Walk
  <2>2. CASE IsDir(i)
    <3>1. i \in DirRecs
      BY <2>2, Constants DEF IsDir, Resolved, NoInode
    <3>2. Lookup(i, name) \in G
      BY <3>1, LookupResolves DEF Resolved
    <3>. QED
      BY <2>2, <3>2 DEF Walk
  <2>. QED
    BY <2>1, <2>2
<1>. QED
  BY <1>1, <1>2

LEMMA PathResolves ==
  ASSUME NoDotsInPaths, IInv, NEW path \in FullPaths
  PROVE  OpenPath(path) = NoInode \/ Resolved(OpenPath(path))
<1>. DEFINE G == {NoInode} \cup {i \in Usable : Resolved(i)}
<1>1. Root \in G /\ \A i \in G : \A name \in PathNames : Walk(i, name) \in G
  BY WalksResolve
<1>. HIDE DEF G
<1>3. OpenPath(path) \in G
  BY <1>1, OpenPathStays
<1>. QED
  BY <1>3 DEF G

LEMMA PathsAreFull == Paths \subseteq FullPaths
BY FilesystemAssumption DEF Paths, FullPaths, PathsUpTo

LEMMA PathIsDir ==
  ASSUME NoDotsInPaths, IInv, NEW path \in Paths, IsDir(OpenPath(path))
  PROVE  OpenPath(path) \in DirRecs
BY PathResolves, PathsAreFull, Constants DEF Resolved, IsDir, NoInode

(* The directories' blocks are apart, and inside the image.                *)
LEMMA StartsApart ==
  ASSUME NoDotsInPaths, IInv
  PROVE  /\ \A d \in DirRecs : /\ inodes[d].start \in Blocks
                               /\ OwnRun(inodes[d]) = {inodes[d].start}
         /\ \A d, k \in DirRecs : d # k => inodes[d].start # inodes[k].start
<1>1. \A d \in DirRecs : /\ inodes[d].start \in Blocks
                         /\ OwnRun(inodes[d]) = {inodes[d].start}
  <2>. SUFFICES ASSUME NEW d \in DirRecs
       PROVE  /\ inodes[d].start \in Blocks
              /\ OwnRun(inodes[d]) = {inodes[d].start}
    OBVIOUS
  <2>1. inodes[d].start \in Blocks
    BY UsableInodes, InodeFields DEF IInv
  <2>2. inodes[d].start \in Int
    BY <2>1 DEF Blocks
  <2>3. inodes[d].len = 1 /\ inodes[d].size > 0
    BY DEF IInv, DirsSound
  <2>. QED
    BY <2>1, <2>2, <2>3 DEF OwnRun, RunBits
<1>2. \A d, k \in DirRecs : d # k => OwnRun(inodes[d]) \cap OwnRun(inodes[k]) = {}
  BY UsableInodes DEF IInv, BlocksOwnedOnce
<1>. QED
  BY <1>1, <1>2

(* An inode's run is a finite set of blocks.                               *)
LEMMA OwnRunFinite ==
  ASSUME NoDotsInPaths, NEW rec \in InodeType
  PROVE  /\ Cardinality(OwnRun(rec)) \in Nat
         /\ IsFiniteSet(OwnRun(rec))
<1>1. rec.start \in Int /\ rec.len \in Int
  BY Constants DEF InodeType, Blocks
<1>2. IsFiniteSet(RunBits(rec.start, rec.len))
  BY <1>1, FS_Interval DEF RunBits
<1>3. IsFiniteSet(OwnRun(rec))
  BY <1>2, FS_EmptySet DEF OwnRun
<1>. QED
  BY <1>3, FS_CardinalityType

-----------------------------------------------------------------------------
(* One directory's block is edited; the other directories' stay.           *)
At(blks, d) == blks[inodes[d].start]

AllSound(blks) ==
  /\ blks \in [Blocks -> SUBSET EntryType]
  /\ \A d \in DirRecs : DirectoryBlock(At(blks, d))

Rewrite(blks, d, blk) == [blks EXCEPT ![inodes[d].start] = blk]

LEMMA SoundIsTyped ==
  ASSUME NEW blk, Sound(blk, Inodes) PROVE blk \in SUBSET EntryType
BY DEF Sound, EntriesOver, EntryType

LEMMA EditOne ==
  ASSUME NoDotsInPaths, IInv, NEW blks, AllSound(blks), NEW d \in DirRecs,
         NEW blk, DirectoryBlock(blk)
  PROVE  /\ AllSound(Rewrite(blks, d, blk))
         /\ At(Rewrite(blks, d, blk), d) = blk
         /\ \A k \in DirRecs : k # d => At(Rewrite(blks, d, blk), k) = At(blks, k)
<1>. DEFINE new == Rewrite(blks, d, blk)
<1>1. inodes[d].start \in Blocks
  BY StartsApart
<1>2. blk \in SUBSET EntryType
  BY SoundIsTyped DEF DirectoryBlock
<1>3. new \in [Blocks -> SUBSET EntryType]
  BY <1>2 DEF AllSound, Rewrite
<1>4. At(new, d) = blk
  BY <1>1 DEF At, AllSound, Rewrite
<1>5. \A k \in DirRecs : k # d => At(new, k) = At(blks, k)
  BY StartsApart DEF At, AllSound, Rewrite
<1>. QED
  BY <1>3, <1>4, <1>5 DEF AllSound

AddedAt(blks, d, name, i, ft) ==
  [blks EXCEPT ![inodes[d].start] = Add(@, name, i, ft)]

RemovedAt(blks, d, i, name) ==
  [blks EXCEPT ![inodes[d].start] = Remove(@, i, name)]

MovedTo(blks, d, parent) ==
  [blks EXCEPT ![inodes[d].start] = SetDotDot(@, parent)]

LEMMA EditAdd ==
  ASSUME NoDotsInPaths, IInv, NEW blks, AllSound(blks), NEW d \in DirRecs,
         NEW name \in Names, NEW i \in Inodes, NEW ft \in FileTypes,
         \A e \in At(blks, d) : e.name # name, Fits(At(blks, d), name)
  PROVE  /\ AllSound(AddedAt(blks, d, name, i, ft))
         /\ \A k \in DirRecs, n \in Names, j \in Inodes :
              Refers(At(AddedAt(blks, d, name, i, ft), k), n, j)
                <=> Refers(At(blks, k), n, j) \/ (k = d /\ n = name /\ j = i)
<1>. DEFINE new == AddedAt(blks, d, name, i, ft)
            old == At(blks, d)
            blk == Add(old, name, i, ft)
<1>1. Sound(old, Inodes) /\ \E e \in old : e.name = ".."
  BY DEF AllSound, DirectoryBlock
<1>2. Sound(blk, Inodes)
  BY <1>1, AddSound DEF AllNames
<1>3. /\ \A e \in old : \E f \in blk : SameEntry(e, f)
      /\ \A f \in blk : \/ \E e \in old : SameEntry(e, f)
                        \/ f.name = name /\ f.inode = i /\ f.ftype = ft
      /\ \E f \in blk : f.name = name /\ f.inode = i /\ f.ftype = ft
  BY <1>1, AddEffect
<1>4. new = Rewrite(blks, d, blk)
  BY DEF At, Rewrite, AddedAt
<1>. HIDE DEF new, old, blk
<1>5. DirectoryBlock(blk)
  BY <1>1, <1>2, <1>3 DEF DirectoryBlock, SameEntry
<1>6. /\ AllSound(new) /\ At(new, d) = blk
      /\ \A k \in DirRecs : k # d => At(new, k) = At(blks, k)
  <2>1. /\ AllSound(Rewrite(blks, d, blk)) /\ At(Rewrite(blks, d, blk), d) = blk
        /\ \A k \in DirRecs : k # d => At(Rewrite(blks, d, blk), k) = At(blks, k)
    BY <1>5, EditOne
  <2>. QED
    BY <1>4, <2>1
<1>7. \A n, j : Refers(blk, n, j) <=> Refers(old, n, j) \/ (n = name /\ j = i)
  BY <1>3 DEF Refers, SameEntry
<1>. QED
  BY <1>6, <1>7 DEF old, new

LEMMA EditRemove ==
  ASSUME NoDotsInPaths, IInv, NEW blks, AllSound(blks), NEW d \in DirRecs,
         NEW name \in Names, NEW i \in Inodes, Refers(At(blks, d), name, i)
  PROVE  /\ AllSound(RemovedAt(blks, d, i, name))
         /\ \A e \in At(RemovedAt(blks, d, i, name), d) : e.name # name
         /\ \A k \in DirRecs, n \in Names, j \in Inodes :
              Refers(At(RemovedAt(blks, d, i, name), k), n, j)
                <=> Refers(At(blks, k), n, j) /\ ~ (k = d /\ n = name)
<1>. DEFINE new == RemovedAt(blks, d, i, name)
            old == At(blks, d)
            blk == Remove(old, i, name)
<1>1. Sound(old, Inodes) /\ \E e \in old : e.name = ".."
  BY DEF AllSound, DirectoryBlock
<1>2. PICK t \in old : t.name = name /\ t.inode = i
  BY DEF Refers
<1>3. t.inode # 0 /\ t.name # "." /\ t.name # ".."
  BY <1>2, Constants
<1>4. Sound(blk, Inodes)
  BY <1>1, <1>2, <1>3, RemoveSound
<1>5. /\ \A e \in old : e # t => \E f \in blk : SameEntry(e, f)
      /\ \A f \in blk : f.name # name /\ \E e \in old : e # t /\ SameEntry(e, f)
  BY <1>1, <1>2, <1>3, RemoveEffect
<1>6. new = Rewrite(blks, d, blk)
  BY DEF At, Rewrite, RemovedAt
<1>. HIDE DEF new, old, blk
<1>7. DirectoryBlock(blk)
  BY <1>1, <1>3, <1>4, <1>5 DEF DirectoryBlock, SameEntry
<1>8. /\ AllSound(new) /\ At(new, d) = blk
      /\ \A k \in DirRecs : k # d => At(new, k) = At(blks, k)
  <2>1. /\ AllSound(Rewrite(blks, d, blk)) /\ At(Rewrite(blks, d, blk), d) = blk
        /\ \A k \in DirRecs : k # d => At(Rewrite(blks, d, blk), k) = At(blks, k)
    BY <1>7, EditOne
  <2>. QED
    BY <1>6, <2>1
<1>9. \A e \in old : e.name = name => e = t
  BY <1>1, <1>2 DEF Sound
<1>10. \A n, j : Refers(blk, n, j) <=> Refers(old, n, j) /\ n # name
  <2>. SUFFICES ASSUME NEW n, NEW j
       PROVE  Refers(blk, n, j) <=> Refers(old, n, j) /\ n # name
    OBVIOUS
  <2>1. ASSUME Refers(blk, n, j) PROVE Refers(old, n, j) /\ n # name
    BY <1>5, <2>1 DEF Refers, SameEntry
  <2>2. ASSUME Refers(old, n, j), n # name PROVE Refers(blk, n, j)
    <3>1. PICK e \in old : e.name = n /\ e.inode = j
      BY <2>2 DEF Refers
    <3>2. PICK f \in blk : SameEntry(e, f)
      BY <1>2, <1>5, <2>2, <3>1
    <3>. QED
      BY <3>1, <3>2 DEF Refers, SameEntry
  <2>. QED
    BY <2>1, <2>2
<1>. QED
  BY <1>5, <1>8, <1>10 DEF old, new

LEMMA EditDotDot ==
  ASSUME NoDotsInPaths, IInv, NEW blks, AllSound(blks), NEW d \in DirRecs,
         NEW parent \in Inodes
  PROVE  /\ AllSound(MovedTo(blks, d, parent))
         /\ \A k \in DirRecs, n \in Names, j \in Inodes :
              Refers(At(MovedTo(blks, d, parent), k), n, j)
                <=> Refers(At(blks, k), n, j)
<1>. DEFINE new == MovedTo(blks, d, parent)
            old == At(blks, d)
            blk == SetDotDot(old, parent)
<1>1. Sound(old, Inodes)
  BY DEF AllSound, DirectoryBlock
<1>2. PICK t \in old : t.name = ".."
  BY DEF AllSound, DirectoryBlock
<1>3. t.inode # 0
  BY <1>1, SoundEntry, Constants
<1>. DEFINE moved == Entry(t.off, t.recLen, parent, t.name, t.ftype)
<1>4. Sound(blk, Inodes) /\ blk = (old \ {t}) \cup {moved}
  BY <1>1, <1>2, <1>3, SetDotDotSound
<1>5. moved.name = ".."
  BY <1>2 DEF Entry
<1>6. new = Rewrite(blks, d, blk)
  BY DEF At, Rewrite, MovedTo
<1>. HIDE DEF new, old, blk, moved
<1>7. DirectoryBlock(blk)
  BY <1>4, <1>5 DEF DirectoryBlock
<1>8. /\ AllSound(new) /\ At(new, d) = blk
      /\ \A k \in DirRecs : k # d => At(new, k) = At(blks, k)
  <2>1. /\ AllSound(Rewrite(blks, d, blk)) /\ At(Rewrite(blks, d, blk), d) = blk
        /\ \A k \in DirRecs : k # d => At(Rewrite(blks, d, blk), k) = At(blks, k)
    BY <1>7, EditOne
  <2>. QED
    BY <1>6, <2>1
<1>9. \A n \in Names : \A j : Refers(blk, n, j) <=> Refers(old, n, j)
  BY <1>2, <1>4, <1>5, Constants DEF Refers
<1>. QED
  BY <1>8, <1>9 DEF old, new

-----------------------------------------------------------------------------
(* What several actions share: a step that leaves the disk alone, one that *)
(* only takes blocks away, one that edits directories already there.       *)
Outcomes == {"ok", "same", "refused", "nospace", "full"}

LEMMA DiskUnchanged ==
  ASSUME IInv, UNCHANGED disk, counts' \in CountsType, diskCounts' \in CountsType,
         outcome' \in Outcomes
  PROVE  IInv'
<1>1. UNCHANGED <<blockBitmap, inodeBitmap, inodes, dirBlocks>>
  BY DEF disk
<1>2. TypeOK'
  BY <1>1 DEF IInv, TypeOK, Outcomes
<1>3. Usable' = Usable /\ DirRecs' = DirRecs /\ \A d : Block(d)' = Block(d)
  BY <1>1 DEF Usable, DirRecs, Block
<1>4. MetadataMarked' /\ FreedBlank' /\ BlocksOwnedOnce' /\ SizesFitRuns'
  BY <1>1, <1>3 DEF IInv, MetadataMarked, FreedBlank, BlocksOwnedOnce, SizesFitRuns
<1>5. DirsSound' /\ RefsUsable' /\ RefsUnique'
  BY <1>1, <1>3 DEF IInv, DirsSound, RefsUsable, RefsUnique
<1>. QED
  BY <1>2, <1>4, <1>5 DEF IInv

LEMMA InvIsSound ==
  ASSUME IInv PROVE AllSound(dirBlocks)
BY DEF IInv, TypeOK, DirsSound, AllSound, At, Block

(* Blocks and inodes are given back, and nobody's run grows. *)
LEMMA RunsShrink ==
  ASSUME IInv, NEW freed,
         blockBitmap' = blockBitmap \ freed,
         Usable' \subseteq Usable,
         \A i \in Inodes : OwnRun(inodes'[i]) \subseteq OwnRun(inodes[i]) \ freed,
         \A i \in Inodes \ Usable' : OwnRun(inodes'[i]) = {}
  PROVE  BlocksOwnedOnce'
<1>1. Usable \subseteq Inodes
  BY DEF IInv, TypeOK, Usable, Inodes, Root, MetadataMarked, DirRecs, Reserved
<1>2. ASSUME NEW i \in Usable'
      PROVE  /\ OwnRun(inodes'[i]) \subseteq blockBitmap' \ (0 .. (RootBlock - 1))
             /\ \A j \in Usable' \ {i} : OwnRun(inodes'[i]) \cap OwnRun(inodes'[j]) = {}
  <2>1. i \in Usable /\ i \in Inodes
    BY <1>1, <1>2
  <2>2. OwnRun(inodes[i]) \subseteq blockBitmap \ (0 .. (RootBlock - 1))
    BY <2>1 DEF IInv, BlocksOwnedOnce
  <2>3. \A j \in Usable \ {i} : OwnRun(inodes[i]) \cap OwnRun(inodes[j]) = {}
    BY <2>1 DEF IInv, BlocksOwnedOnce
  <2>. QED
    BY <1>1, <2>1, <2>2, <2>3
<1>. QED
  BY <1>2 DEF BlocksOwnedOnce

LEMMA DirsKept ==
  ASSUME IInv, AllSound(dirBlocks'), DirRecs' \subseteq DirRecs,
         \A d \in DirRecs' : /\ inodes'[d].start = inodes[d].start
                             /\ inodes'[d].len = inodes[d].len
                             /\ inodes'[d].size = inodes[d].size,
         \A d \in DirRecs', n \in Names, i \in Inodes :
           Refers(At(dirBlocks', d), n, i) =>
             i \in Usable' /\ (inodes'[i].kind = "dir" => i \in DirRecs'),
         \A d1, d2 \in DirRecs', i \in Inodes, n1, n2 \in Names :
           Refers(At(dirBlocks', d1), n1, i) /\ Refers(At(dirBlocks', d2), n2, i)
             => d1 = d2 /\ n1 = n2
  PROVE  DirsSound' /\ RefsUsable' /\ RefsUnique'
<1>1. \A d \in DirRecs' : Block(d)' = At(dirBlocks', d)
  BY DEF Block, At
<1>2. DirsSound'
  BY <1>1 DEF IInv, DirsSound, AllSound
<1>3. RefsUsable'
  BY <1>1 DEF RefsUsable
<1>4. RefsUnique'
  BY <1>1 DEF RefsUnique
<1>. QED
  BY <1>2, <1>3, <1>4

LEMMA CountsStay ==
  ASSUME NEW c \in CountsType, NEW n \in Nat, NEW m \in Nat
  PROVE  /\ SatSub(c.freeInodes, n) \in Nat /\ SatSub(c.freeBlocks, n) \in Nat
         /\ SatSub(c.usedDirs, n) \in Nat
         /\ [c EXCEPT !.freeInodes = n] \in CountsType
         /\ [c EXCEPT !.freeBlocks = n] \in CountsType
         /\ [c EXCEPT !.usedDirs = n] \in CountsType
BY DEF CountsType, SatSub

-----------------------------------------------------------------------------
(* create_file, mkdir and symlink. *)
Shape(kind, size, n) ==
  /\ size \in Nat /\ n \in Nat
  /\ \/ kind = "reg" /\ n = CeilDiv(size, BlockSize)
     \/ kind = "dir" /\ size = BlockSize /\ n = 1
     \/ kind = "lnk" /\ n = 0

LEMMA FirstFreeIsFree ==
  ASSUME NEW i \in Inodes, FirstFreeInode(i) PROVE i \notin inodeBitmap
BY DEF FirstFreeInode, IsFirstZero

(* The inode's bit is set and nothing else.                                *)
LEMMA InodeLeaked ==
  ASSUME NoDotsInPaths, IInv, NEW i \in Inodes, i \notin inodeBitmap, NEW n,
         NoRunLeft(i, n)
  PROVE  IInv'
<1>1. UNCHANGED <<blockBitmap, inodes, dirBlocks, diskCounts>>
      /\ inodeBitmap' = inodeBitmap \cup {i}
  BY DEF NoRunLeft
<1>2. i \notin Usable /\ Usable' = Usable \cup {i} /\ Usable \subseteq Inodes
  <2>1. i \notin Reserved /\ i # Root
    BY DEF IInv, MetadataMarked, Reserved, Root
  <2>. QED
    BY <1>1, <2>1, UsableInodes DEF Usable
<1>3. inodes[i].size = 0 /\ inodes[i].len = 0
  BY <1>2 DEF IInv, FreedBlank
<1>4. DirRecs' = DirRecs
  BY <1>1, <1>2, <1>3 DEF DirRecs
<1>5. TypeOK'
  <2>1. counts' \in CountsType
    <3>1. counts \in CountsType /\ 1 \in Nat
      BY DEF IInv, TypeOK
    <3>2. counts' = [counts EXCEPT !.freeInodes = SatSub(counts.freeInodes, 1)]
      BY DEF NoRunLeft
    <3>. QED
      BY <3>1, <3>2, CountsStay
  <2>. QED
    BY <1>1, <2>1 DEF IInv, TypeOK, NoRunLeft
<1>6. MetadataMarked' /\ FreedBlank'
  BY <1>1, <1>2, <1>4 DEF IInv, MetadataMarked, FreedBlank
<1>7. SizesFitRuns'
  <2>1. CeilDiv(0, BlockSize) = 0
    BY CeilDivZero, Constants
  <2>. QED
    BY <1>1, <1>2, <1>3, <2>1 DEF IInv, SizesFitRuns
<1>8. BlocksOwnedOnce'
  <2>1. OwnRun(inodes[i]) = {}
    BY <1>3 DEF OwnRun
  <2>. QED
    BY <1>1, <1>2, <2>1 DEF IInv, BlocksOwnedOnce
<1>9. DirsSound' /\ RefsUsable' /\ RefsUnique'
  <2>1. \A d : At(dirBlocks', d) = Block(d)
    BY <1>1 DEF At, Block
  <2>2. \A d \in DirRecs, n1 \in Names, j \in Inodes :
          Refers(At(dirBlocks', d), n1, j) =>
            j \in Usable' /\ (inodes'[j].kind = "dir" => j \in DirRecs')
    BY <1>1, <1>2, <1>4, <2>1 DEF IInv, RefsUsable
  <2>3. \A d1, d2 \in DirRecs, j \in Inodes, n1, n2 \in Names :
          Refers(At(dirBlocks', d1), n1, j) /\ Refers(At(dirBlocks', d2), n2, j)
            => d1 = d2 /\ n1 = n2
    BY <2>1 DEF IInv, RefsUnique
  <2>4. AllSound(dirBlocks')
    BY <1>1, InvIsSound
  <2>. QED
    BY <1>1, <1>4, <2>2, <2>3, <2>4, DirsKept
<1>. QED
  BY <1>5, <1>6, <1>7, <1>8, <1>9 DEF IInv

(* The bits, the inode and its run, once written. *)
NewInode(i, d, rec) ==
  /\ inodes' \in [Inodes -> InodeType]
  /\ inodes'[i] = rec
  /\ \A j \in Inodes \ {i} : /\ inodes'[j].kind = inodes[j].kind
                             /\ inodes'[j].size = inodes[j].size
                             /\ inodes'[j].start = inodes[j].start
                             /\ inodes'[j].len = inodes[j].len
  /\ inodeBitmap' = inodeBitmap \cup {i}
  /\ blockBitmap' = blockBitmap \cup RunBits(rec.start, rec.len)

LEMMA RecType ==
  ASSUME NoDotsInPaths, NEW kind, NEW links \in Nat, NEW size, NEW n, NEW s \in Blocks,
         Shape(kind, size, n), Allocates(n, s)
  PROVE  Inode(kind, links, size, s, n) \in InodeType
<1>1. n \in Nat /\ size \in Nat /\ kind \in {"none", "reg", "dir", "lnk"}
  BY DEF Shape
<1>2. n <= NumBlocks
  BY <1>1, Constants DEF Allocates, IsFirstFreeRun, IsFreeRun
<1>. QED
  BY <1>1, <1>2, Constants DEF Inode, InodeType

LEMMA NewInodeOwns ==
  ASSUME NoDotsInPaths, IInv, NEW i \in Inodes, i \notin inodeBitmap, NEW d,
         NEW kind, NEW links \in Nat, NEW size, NEW n, NEW s \in Blocks,
         Shape(kind, size, n), Allocates(n, s),
         NewInode(i, d, Inode(kind, links, size, s, n))
  PROVE  /\ i \notin Usable /\ Usable' = Usable \cup {i}
         /\ DirRecs' = DirRecs \cup (IF kind = "dir" THEN {i} ELSE {})
         /\ blockBitmap' \subseteq Blocks
         /\ RunBits(s, n) \subseteq Blocks \ blockBitmap
         /\ \A k \in DirRecs : /\ inodes[k].start \notin RunBits(s, n)
                               /\ inodes'[k].start = inodes[k].start
         /\ MetadataMarked' /\ FreedBlank' /\ BlocksOwnedOnce' /\ SizesFitRuns'
<1>. DEFINE rec == Inode(kind, links, size, s, n)
<1>1. /\ rec.kind = kind /\ rec.size = size /\ rec.start = s /\ rec.len = n
      /\ inodes'[i] = rec
  BY DEF Inode, NewInode
<1>2. n \in Nat /\ size \in Nat /\ s \in Nat /\ s < NumBlocks
  BY Constants DEF Shape, Blocks
<1>3. RunBits(s, n) \subseteq Blocks /\ RunBits(s, n) \cap blockBitmap = {}
  <2>1. CASE n = 0
    BY <1>2, <2>1 DEF RunBits
  <2>2. CASE n # 0
    BY <1>2, <2>2, Constants DEF Allocates, IsFirstFreeRun, IsFreeRun, RunBits, Blocks
  <2>. QED
    BY <2>1, <2>2
<1>. HIDE DEF rec
<1>4. OwnRun(inodes'[i]) \subseteq RunBits(s, n)
  BY <1>1 DEF OwnRun
<1>5. i \notin Usable /\ Usable' = Usable \cup {i} /\ Usable \subseteq Inodes
  <2>1. i \notin Reserved /\ i # Root
    BY DEF IInv, MetadataMarked, Reserved, Root
  <2>. QED
    BY <2>1, UsableInodes DEF Usable, NewInode
<1>6. \A j \in Inodes \ {i} : OwnRun(inodes'[j]) = OwnRun(inodes[j])
  BY DEF OwnRun, NewInode
<1>7. blockBitmap' = blockBitmap \cup RunBits(s, n)
  BY <1>1 DEF NewInode, rec
<1>8. blockBitmap \subseteq Blocks
  BY DEF IInv, TypeOK
<1>9. DirRecs' = DirRecs \cup (IF kind = "dir" THEN {i} ELSE {})
  <2>1. kind = "dir" => n = 1
    BY DEF Shape
  <2>2. \A j \in Inodes \ {i} : inodes'[j].kind = inodes[j].kind
                                /\ inodes'[j].len = inodes[j].len
    BY DEF NewInode
  <2>3. inodes'[i].kind = kind /\ inodes'[i].len = n
    BY <1>1
  <2>4. \A j \in Usable : j \in DirRecs' <=> j \in DirRecs
    BY <1>5, <2>2 DEF DirRecs
  <2>5. i \in DirRecs' <=> kind = "dir"
    BY <1>2, <1>5, <2>1, <2>3 DEF DirRecs
  <2>6. DirRecs' \subseteq Usable \cup {i} /\ DirRecs \subseteq Usable
    BY <1>5 DEF DirRecs
  <2>. QED
    BY <1>5, <2>4, <2>5, <2>6
<1>10. \A j \in Usable : OwnRun(inodes[j]) \subseteq blockBitmap \ (0 .. (RootBlock - 1))
  BY DEF IInv, BlocksOwnedOnce
<1>11. \A k \in DirRecs : /\ inodes[k].start \notin RunBits(s, n)
                          /\ inodes'[k].start = inodes[k].start
  <2>1. \A k \in DirRecs : OwnRun(inodes[k]) = {inodes[k].start} /\ k \in Usable
    BY StartsApart, UsableInodes
  <2>. QED
    BY <1>3, <1>5, <1>10, <2>1 DEF NewInode
<1>12. MetadataMarked'
  BY <1>7, <1>9 DEF IInv, MetadataMarked, NewInode
<1>13. FreedBlank'
  BY <1>5 DEF IInv, FreedBlank, NewInode
<1>14. BlocksOwnedOnce'
  <2>1. \A j \in Usable' :
          OwnRun(inodes'[j]) \subseteq blockBitmap' \ (0 .. (RootBlock - 1))
    <3>1. RunBits(s, n) \cap 0 .. (RootBlock - 1) = {}
      BY <1>3 DEF IInv, MetadataMarked
    <3>. QED
      BY <1>4, <1>5, <1>6, <1>7, <1>10, <3>1
  <2>2. \A j, k \in Usable : j # k => OwnRun(inodes[j]) \cap OwnRun(inodes[k]) = {}
    BY DEF IInv, BlocksOwnedOnce
  <2>3. \A j \in Usable : OwnRun(inodes[j]) \cap RunBits(s, n) = {}
    BY <1>3, <1>10
  <2>4. \A j \in Usable' : \A k \in Usable' \ {j} :
          OwnRun(inodes'[j]) \cap OwnRun(inodes'[k]) = {}
    BY <1>4, <1>5, <1>6, <2>2, <2>3
  <2>5. \A j \in Inodes \ Usable' : OwnRun(inodes'[j]) = {}
    BY <1>5, <1>6 DEF IInv, BlocksOwnedOnce
  <2>. QED
    BY <2>1, <2>4, <2>5 DEF BlocksOwnedOnce
<1>15. SizesFitRuns'
  <2>1. inodes'[i].kind = "reg" => inodes'[i].len = CeilDiv(inodes'[i].size, BlockSize)
    BY <1>1 DEF Shape
  <2>. QED
    BY <1>5, <2>1 DEF IInv, SizesFitRuns, NewInode
<1>. QED
  BY <1>3, <1>5, <1>7, <1>8, <1>9, <1>11, <1>12, <1>13, <1>14, <1>15

(* The directories, once the parent has its entry or has refused it.       *)
LEMMA NewInodeDirs ==
  ASSUME NoDotsInPaths, IInv, NEW i \in Inodes, NEW d \in DirRecs,
         NEW kind, NEW rec, rec.kind = kind, kind = "dir" => rec.len = 1 /\ rec.size > 0,
         NewInode(i, d, rec), i \notin Usable, Usable' = Usable \cup {i},
         DirRecs' = DirRecs \cup (IF kind = "dir" THEN {i} ELSE {}),
         \A k \in DirRecs : inodes'[k].start = inodes[k].start,
         AllSound(dirBlocks'),
         kind = "dir" => dirBlocks'[rec.start] = FreshBlock(i, d),
         NEW name,
         \A k \in DirRecs, n \in Names, j \in Inodes :
           Refers(At(dirBlocks', k), n, j) =>
             Refers(Block(k), n, j) \/ (k = d /\ n = name /\ j = i)
  PROVE  DirsSound' /\ RefsUsable' /\ RefsUnique'
<1>1. i \notin DirRecs /\ d \in Inodes /\ DirRecs \subseteq Inodes
  BY UsableInodes
<1>2. \A k \in DirRecs : Block(k)' = At(dirBlocks', k)
  BY DEF Block, At
<1>3. kind = "dir" => Block(i)' = FreshBlock(i, d)
  BY DEF Block, NewInode
<1>4. \A n \in Names : \A j : ~ Refers(FreshBlock(i, d), n, j)
  <2>1. \A e \in FreshBlock(i, d) : e.name \notin Names
    BY Constants DEF FreshBlock, Entry
  <2>. QED
    BY <2>1 DEF Refers
<1>5. DirectoryBlock(FreshBlock(i, d))
  <2>1. Sound(FreshBlock(i, d), Inodes)
    BY <1>1, FreshSound
  <2>2. Entry(12, BlockSize - 12, d, "..", FtDir).name = ".."
    BY DEF Entry
  <2>. QED
    BY <2>1, <2>2 DEF DirectoryBlock, FreshBlock
<1>6. \A k \in DirRecs', n \in Names, j \in Inodes :
        Refers(Block(k)', n, j) =>
          /\ k \in DirRecs
          /\ Refers(Block(k), n, j) \/ (k = d /\ n = name /\ j = i)
  BY <1>2, <1>3, <1>4
<1>7. \A k \in DirRecs, n \in Names : ~ Refers(Block(k), n, i)
  BY DEF IInv, RefsUsable
<1>8. DirsSound'
  <2>1. ASSUME NEW k \in DirRecs
        PROVE  /\ inodes'[k].len = 1 /\ inodes'[k].size > 0
               /\ DirectoryBlock(Block(k)')
    BY <1>1, <1>2 DEF IInv, DirsSound, NewInode, AllSound
  <2>2. kind = "dir" => /\ inodes'[i].len = 1 /\ inodes'[i].size > 0
                        /\ DirectoryBlock(Block(i)')
    BY <1>3, <1>5 DEF NewInode
  <2>. QED
    BY <2>1, <2>2 DEF DirsSound
<1>9. RefsUsable'
  <2>. SUFFICES ASSUME NEW k \in DirRecs', NEW j \in Inodes, NEW n \in Names,
                       Refers(Block(k)', n, j)
       PROVE  j \in Usable' /\ (inodes'[j].kind = "dir" => j \in DirRecs')
    BY DEF RefsUsable
  <2>1. CASE j = i
    BY <2>1 DEF NewInode
  <2>2. CASE j # i
    <3>1. k \in DirRecs /\ Refers(Block(k), n, j)
      BY <1>6, <2>2
    <3>2. j \in Usable /\ (inodes[j].kind = "dir" => j \in DirRecs)
      BY <3>1 DEF IInv, RefsUsable
    <3>3. inodes'[j].kind = inodes[j].kind
      BY <2>2 DEF NewInode
    <3>. QED
      BY <3>2, <3>3
  <2>. QED
    BY <2>1, <2>2
<1>10. RefsUnique'
  <2>. SUFFICES ASSUME NEW k1 \in DirRecs', NEW k2 \in DirRecs', NEW j \in Inodes,
                       NEW n1 \in Names, NEW n2 \in Names,
                       Refers(Block(k1)', n1, j), Refers(Block(k2)', n2, j)
       PROVE  k1 = k2 /\ n1 = n2
    BY DEF RefsUnique
  <2>1. k1 \in DirRecs /\ k2 \in DirRecs
    BY <1>6
  <2>2. CASE j = i
    BY <1>6, <1>7, <2>1, <2>2
  <2>3. CASE j # i
    <3>1. Refers(Block(k1), n1, j) /\ Refers(Block(k2), n2, j)
      BY <1>6, <2>3
    <3>. QED
      BY <2>1, <3>1 DEF IInv, RefsUnique
  <2>. QED
    BY <2>2, <2>3
<1>. QED
  BY <1>8, <1>9, <1>10

(* The new blocks, before the parent is touched.                           *)
LEMMA WithDataSound ==
  ASSUME NoDotsInPaths, IInv, NEW i \in Inodes, NEW d \in DirRecs, NEW kind,
         NEW s \in Blocks, NEW n, RunBits(s, n) \subseteq Int,
         kind = "dir" => n = 1,
         \A k \in DirRecs : inodes[k].start \notin RunBits(s, n)
  PROVE  /\ AllSound(WithData(i, d, s, n, kind))
         /\ \A k \in DirRecs : At(WithData(i, d, s, n, kind), k) = Block(k)
         /\ kind = "dir" => /\ WithData(i, d, s, n, kind)[s] = FreshBlock(i, d)
                            /\ \A k \in DirRecs : inodes[k].start # s
<1>. DEFINE blks == WithData(i, d, s, n, kind)
<1>1. AllSound(dirBlocks)
  BY InvIsSound
<1>2. FreshBlock(i, d) \in SUBSET EntryType
  BY FreshSound, SoundIsTyped, UsableInodes
<1>3. blks \in [Blocks -> SUBSET EntryType]
  BY <1>1, <1>2 DEF AllSound, WithData
<1>4. \A k \in DirRecs : At(blks, k) = Block(k)
  BY StartsApart DEF At, Block, WithData
<1>5. AllSound(blks)
  BY <1>1, <1>3, <1>4 DEF AllSound, At, Block
<1>6. kind = "dir" => s \in RunBits(s, n)
  BY Constants DEF RunBits, Blocks
<1>7. kind = "dir" => blks[s] = FreshBlock(i, d)
  BY <1>6 DEF WithData
<1>. QED
  BY <1>4, <1>5, <1>6, <1>7

LEMMA AllocatedCounts ==
  ASSUME IInv, NEW i, NEW s, NEW n \in Nat, Allocated(i, s, n)
  PROVE  counts' \in CountsType
<1>1. counts \in CountsType
  BY DEF IInv, TypeOK
<1>2. /\ SatSub(counts.freeInodes, 1) \in Nat /\ SatSub(counts.freeBlocks, n) \in Nat
      /\ \A b \in BOOLEAN : (IF b THEN counts.usedDirs + 1 ELSE counts.usedDirs) \in Nat
  BY <1>1 DEF CountsType, SatSub
<1>3. \E b \in BOOLEAN :
        counts' = [freeBlocks |-> SatSub(counts.freeBlocks, n),
                   freeInodes |-> SatSub(counts.freeInodes, 1),
                   usedDirs |-> IF b THEN counts.usedDirs + 1 ELSE counts.usedDirs]
  BY <1>1 DEF Allocated, CountsType
<1>. QED
  BY <1>2, <1>3 DEF CountsType

(* A new object on disk: the inode i, its run, and the parent d, where its *)
(* name was free.                                                          *)
Placed(i, d, name, rec) ==
  /\ rec \in InodeType /\ (rec.kind = "dir" => rec.len = 1 /\ rec.size > 0)
  /\ d \in DirRecs /\ d \in Inodes /\ d # i /\ i \notin Usable
  /\ name \in Names /\ \A e \in Block(d) : e.name # name
  /\ NewInode(i, d, rec)
  /\ RunBits(rec.start, rec.len) \subseteq Blocks \ blockBitmap
  /\ Usable' = Usable \cup {i}
  /\ DirRecs' = DirRecs \cup (IF rec.kind = "dir" THEN {i} ELSE {})
  /\ \A k \in DirRecs : inodes'[k].start = inodes[k].start
  /\ LET blks == WithData(i, d, rec.start, rec.len, rec.kind) IN
     /\ AllSound(blks)
     /\ \A k \in DirRecs : At(blks, k) = Block(k)
     /\ rec.kind = "dir" => /\ blks[rec.start] = FreshBlock(i, d)
                            /\ \A k \in DirRecs : inodes[k].start # rec.start

LEMMA NewObject ==
  ASSUME NoDotsInPaths, IInv, NEW path \in Paths, NEW d, d = OpenPath(path),
         NEW name \in PathNames, NEW kind, NEW links \in Nat, NEW size, NEW n,
         Shape(kind, size, n), CanInsert(d, name),
         NEW i \in Inodes, FirstFreeInode(i), NEW s \in Blocks, Allocates(n, s),
         NEW rec, rec = Inode(kind, links, size, s, n),
         ParentFull(i, d, name, rec) \/ Linked(i, d, name, rec)
  PROVE  /\ Placed(i, d, name, rec) /\ blockBitmap' \subseteq Blocks
         /\ MetadataMarked' /\ FreedBlank' /\ BlocksOwnedOnce' /\ SizesFitRuns'
<1>1. /\ rec.kind = kind /\ rec.size = size /\ rec.start = s /\ rec.len = n
      /\ n \in Nat /\ (kind = "dir" => n = 1 /\ size > 0)
      /\ rec \in InodeType
  <2>1. rec \in InodeType
    BY RecType
  <2>. QED
    BY <2>1, Constants DEF Inode, Shape
<1>2. d \in DirRecs /\ d \in Inodes /\ \A e \in Block(d) : e.name # name
  <2>1. d \in DirRecs
    BY PathIsDir DEF CanInsert
  <2>. QED
    BY <2>1, LookupFinds, UsableInodes, Constants DEF CanInsert, NoInode
<1>3. i \notin inodeBitmap /\ name \in Names
  BY FirstFreeIsFree, Constants
<1>4. d # i
  BY <1>2, <1>3, UsableInodes DEF DirRecs, Usable, IInv, MetadataMarked, Reserved, Root
<1>5. NewInode(i, d, rec)
  <2>1. inodes \in [Inodes -> InodeType]
    BY DEF IInv, TypeOK
  <2>2. CASE ParentFull(i, d, name, rec)
    <3>1. inodes' = [inodes EXCEPT ![i] = rec] /\ Allocated(i, rec.start, rec.len)
      BY <2>2 DEF ParentFull
    <3>2. /\ inodeBitmap' = inodeBitmap \cup {i}
          /\ blockBitmap' = blockBitmap \cup RunBits(rec.start, rec.len)
      BY <3>1 DEF Allocated
    <3>. QED
      BY <1>1, <2>1, <3>1, <3>2 DEF NewInode
  <2>3. CASE Linked(i, d, name, rec)
    <3>1. /\ inodes' = [inodes EXCEPT ![i] = rec,
                          ![d].links = IF rec.kind = "dir" THEN @ + 1 ELSE @]
          /\ Allocated(i, rec.start, rec.len)
      BY <2>3 DEF Linked
    <3>2. /\ inodeBitmap' = inodeBitmap \cup {i}
          /\ blockBitmap' = blockBitmap \cup RunBits(rec.start, rec.len)
      BY <3>1 DEF Allocated
    <3>3. /\ inodes'[i] = rec
          /\ \A j \in Inodes \ {i, d} : inodes'[j] = inodes[j]
          /\ inodes'[d] = [inodes[d] EXCEPT !.links =
                             IF rec.kind = "dir" THEN @ + 1 ELSE @]
          /\ DOMAIN inodes' = Inodes
          /\ inodes' = [j \in Inodes |-> inodes'[j]]
      BY <1>1, <1>2, <1>4, <2>1, <3>1
    <3>4. inodes[d] \in InodeType
      BY <1>2, <2>1
    <3>5. inodes'[d] \in InodeType
      BY <3>3, <3>4 DEF InodeType
    <3>6. inodes' \in [Inodes -> InodeType]
      <4>1. \A j \in Inodes : inodes'[j] \in InodeType
        BY <1>1, <2>1, <3>3, <3>5
      <4>. QED
        BY <3>3, <4>1
    <3>7. /\ inodes'[d].kind = inodes[d].kind /\ inodes'[d].size = inodes[d].size
          /\ inodes'[d].start = inodes[d].start /\ inodes'[d].len = inodes[d].len
      BY <3>3, <3>4 DEF InodeType
    <3>. QED
      BY <3>2, <3>3, <3>6, <3>7 DEF NewInode
  <2>. QED
    BY <2>2, <2>3
<1>6. /\ i \notin Usable /\ Usable' = Usable \cup {i}
      /\ DirRecs' = DirRecs \cup (IF kind = "dir" THEN {i} ELSE {})
      /\ blockBitmap' \subseteq Blocks
      /\ RunBits(s, n) \subseteq Blocks \ blockBitmap
      /\ \A k \in DirRecs : /\ inodes[k].start \notin RunBits(s, n)
                            /\ inodes'[k].start = inodes[k].start
      /\ MetadataMarked' /\ FreedBlank' /\ BlocksOwnedOnce' /\ SizesFitRuns'
  BY <1>3, <1>5, NewInodeOwns
<1>. DEFINE blks == WithData(i, d, s, n, kind)
<1>7. /\ AllSound(blks)
      /\ \A k \in DirRecs : At(blks, k) = Block(k)
      /\ kind = "dir" => /\ blks[s] = FreshBlock(i, d)
                         /\ \A k \in DirRecs : inodes[k].start # s
  <2>1. /\ kind = "dir" => n = 1
        /\ \A k \in DirRecs : inodes[k].start \notin RunBits(s, n)
        /\ RunBits(s, n) \subseteq Int
    BY <1>1, <1>6 DEF RunBits
  <2>2. AllSound(blks)
    BY <1>2, <2>1, WithDataSound
  <2>3. \A k \in DirRecs : At(blks, k) = Block(k)
    BY <1>2, <2>1, WithDataSound
  <2>4. kind = "dir" => /\ blks[s] = FreshBlock(i, d)
                       /\ \A k \in DirRecs : inodes[k].start # s
    BY <1>2, <2>1, WithDataSound
  <2>. QED
    BY <2>2, <2>3, <2>4
<1>8. Placed(i, d, name, rec)
  <2>. HIDE DEF blks
  <2>1. blks = WithData(i, d, rec.start, rec.len, rec.kind)
    BY <1>1 DEF blks
  <2>. QED
    BY <1>1, <1>2, <1>3, <1>4, <1>5, <1>6, <1>7, <2>1 DEF Placed
<1>. QED
  BY <1>6, <1>8

LEMMA InsertIInv ==
  ASSUME NoDotsInPaths, IInv, NEW path \in Paths, NEW name \in PathNames, NEW kind,
         NEW links \in Nat, NEW size, NEW n, Shape(kind, size, n),
         Insert(OpenPath(path), name, kind, links, size, n)
  PROVE  IInv'
<1>. DEFINE d == OpenPath(path)
<1>1. CASE Refuse
  BY <1>1, DiskUnchanged DEF Refuse, IInv, TypeOK, Outcomes
<1>2. CASE CanInsert(d, name) /\ NoInodeLeft
  BY <1>2, DiskUnchanged DEF NoInodeLeft, IInv, TypeOK, Outcomes
<1>3. ASSUME CanInsert(d, name), NEW i \in Inodes, FirstFreeInode(i), NoRunLeft(i, n)
      PROVE  IInv'
  BY <1>3, FirstFreeIsFree, InodeLeaked
<1>4. ASSUME CanInsert(d, name), NEW i \in Inodes, FirstFreeInode(i),
             NEW s \in Blocks, Allocates(n, s),
             \/ ParentFull(i, d, name, Inode(kind, links, size, s, n))
             \/ Linked(i, d, name, Inode(kind, links, size, s, n))
      PROVE  IInv'
  <2>. DEFINE rec == Inode(kind, links, size, s, n)
  <2>1. /\ Placed(i, d, name, rec) /\ blockBitmap' \subseteq Blocks
        /\ MetadataMarked' /\ FreedBlank' /\ BlocksOwnedOnce' /\ SizesFitRuns'
    BY <1>4, NewObject
  <2>2. rec.kind = kind /\ rec.start = s /\ rec.len = n /\ n \in Nat
    BY DEF Inode, Shape
  <2>. HIDE DEF d, rec
  <2>. DEFINE blks == WithData(i, d, s, n, kind)
  <2>. HIDE DEF blks
  <2>3. /\ d \in DirRecs /\ d \in Inodes /\ \A e \in Block(d) : e.name # name
        /\ NewInode(i, d, rec) /\ i \notin Usable /\ Usable' = Usable \cup {i}
        /\ DirRecs' = DirRecs \cup (IF kind = "dir" THEN {i} ELSE {})
        /\ \A k \in DirRecs : inodes'[k].start = inodes[k].start
        /\ kind = "dir" => rec.len = 1 /\ rec.size > 0
    BY <2>1, <2>2 DEF Placed
  <2>4. /\ AllSound(blks)
        /\ \A k \in DirRecs : At(blks, k) = Block(k)
        /\ kind = "dir" => /\ blks[s] = FreshBlock(i, d)
                           /\ \A k \in DirRecs : inodes[k].start # s
    BY <2>1, <2>2 DEF Placed, blks
  <2>5. CASE ParentFull(i, d, name, rec)
    <3>1. dirBlocks' = blks /\ Allocated(i, rec.start, rec.len)
          /\ outcome' = "full" /\ UNCHANGED diskCounts
      BY <2>2, <2>5 DEF ParentFull, blks
    <3>2. AllSound(dirBlocks')
      BY <2>4, <3>1 DEF AllSound, At, DirRecs
    <3>3. DirsSound' /\ RefsUsable' /\ RefsUnique'
      <4>1. \A k \in DirRecs, m \in Names, j \in Inodes :
              Refers(At(dirBlocks', k), m, j) =>
                Refers(Block(k), m, j) \/ (k = d /\ m = name /\ j = i)
        BY <2>4, <3>1 DEF At
      <4>2. kind = "dir" => dirBlocks'[rec.start] = FreshBlock(i, d)
        BY <2>2, <2>4, <3>1
      <4>. QED
        BY <2>1, <2>2, <2>3, <3>2, <4>1, <4>2, NewInodeDirs
    <3>4. TypeOK'
      <4>1. counts' \in CountsType
        BY <2>2, <3>1, AllocatedCounts
      <4>. QED
        BY <2>1, <2>3, <3>1, <3>2, <4>1 DEF IInv, TypeOK, NewInode, AllSound
    <3>. QED
      BY <2>1, <2>3, <3>3, <3>4 DEF IInv
  <2>6. CASE Linked(i, d, name, rec)
    <3>1. /\ dirBlocks' = [blks EXCEPT ![inodes[d].start] =
                             Add(@, name, i, FtOf(kind))]
          /\ Allocated(i, rec.start, rec.len)
          /\ outcome' = "ok" /\ diskCounts' = counts'
          /\ Fits(DirEntries(inodes[d]), name)
      BY <2>2, <2>6 DEF Linked, blks, Flush
    <3>2. name \in Names /\ FtOf(kind) \in FileTypes
      BY Constants DEF FtOf, FileTypes
    <3>3. Fits(At(blks, d), name) /\ \A e \in At(blks, d) : e.name # name
      <4>1. inodes[d].len # 0
        BY <2>3 DEF DirRecs
      <4>2. DirEntries(inodes[d]) = Block(d)
        BY <4>1 DEF DirEntries, Block
      <4>. QED
        BY <2>3, <2>4, <3>1, <4>2
    <3>4. /\ AllSound(dirBlocks')
          /\ \A k \in DirRecs, m \in Names, j \in Inodes :
               Refers(At(dirBlocks', k), m, j)
                 <=> Refers(At(blks, k), m, j) \/ (k = d /\ m = name /\ j = i)
      <4>1. dirBlocks' = AddedAt(blks, d, name, i, FtOf(kind))
        BY <3>1 DEF AddedAt
      <4>2. /\ AllSound(AddedAt(blks, d, name, i, FtOf(kind)))
            /\ \A k \in DirRecs, m \in Names, j \in Inodes :
                 Refers(At(AddedAt(blks, d, name, i, FtOf(kind)), k), m, j)
                   <=> Refers(At(blks, k), m, j) \/ (k = d /\ m = name /\ j = i)
        BY <1>4, <2>3, <2>4, <3>2, <3>3, EditAdd
      <4>. QED
        BY <4>1, <4>2
    <3>5. DirsSound' /\ RefsUsable' /\ RefsUnique'
      <4>1. \A k \in DirRecs, m \in Names, j \in Inodes :
              Refers(At(dirBlocks', k), m, j) =>
                Refers(Block(k), m, j) \/ (k = d /\ m = name /\ j = i)
        BY <2>4, <3>4
      <4>2. kind = "dir" => dirBlocks'[rec.start] = FreshBlock(i, d)
        BY <2>2, <2>3, <2>4, <3>1 DEF AllSound
      <4>. QED
        BY <2>1, <2>2, <2>3, <3>4, <4>1, <4>2, NewInodeDirs
    <3>6. TypeOK'
      <4>1. counts' \in CountsType
        BY <2>2, <3>1, AllocatedCounts
      <4>. QED
        BY <2>1, <2>3, <3>1, <3>4, <4>1 DEF IInv, TypeOK, NewInode, AllSound
    <3>. QED
      BY <2>1, <2>3, <3>5, <3>6 DEF IInv
  <2>. QED
    BY <1>4, <2>5, <2>6 DEF rec, d
<1>. QED
  BY <1>1, <1>2, <1>3, <1>4 DEF Insert

-----------------------------------------------------------------------------
(* unlink and rmdir. *)
Found(d, name) == IF IsDir(d) THEN Lookup(d, name) ELSE NoInode

LEMMA FoundResolves ==
  ASSUME NoDotsInPaths, IInv, NEW path \in Paths, NEW name \in PathNames,
         Found(OpenPath(path), name) # NoInode
  PROVE  /\ OpenPath(path) \in DirRecs
         /\ Found(OpenPath(path), name) \in Inodes
         /\ Refers(Block(OpenPath(path)), name, Found(OpenPath(path), name))
         /\ Resolved(Found(OpenPath(path), name))
<1>1. IsDir(OpenPath(path))
  BY DEF Found
<1>. QED
  BY <1>1, PathIsDir, LookupResolves DEF Found

(* The inode t, its bit and its run are given back.                        *)
FreesInode(t) ==
  /\ inodes' \in [Inodes -> InodeType]
  /\ inodes'[t].size = 0 /\ inodes'[t].len = 0
  /\ \A j \in Inodes : inodes'[j].kind = inodes[j].kind
  /\ \A j \in Inodes \ {t} : /\ inodes'[j].size = inodes[j].size
                             /\ inodes'[j].start = inodes[j].start
                             /\ inodes'[j].len = inodes[j].len
  /\ blockBitmap' = blockBitmap \ OwnRun(inodes[t])
  /\ inodeBitmap' = inodeBitmap \ {t}

LEMMA FreedOwns ==
  ASSUME NoDotsInPaths, IInv, NEW t \in Usable, t # Root, FreesInode(t)
  PROVE  /\ Usable' = Usable \ {t} /\ DirRecs' = DirRecs \ {t}
         /\ blockBitmap' \subseteq Blocks /\ inodeBitmap' \subseteq Inodes
         /\ MetadataMarked' /\ FreedBlank' /\ BlocksOwnedOnce' /\ SizesFitRuns'
<1>1. t \in Inodes /\ t \notin Reserved /\ Usable \subseteq Inodes
  BY UsableInodes DEF Usable
<1>2. Usable' = Usable \ {t}
  BY DEF Usable, FreesInode
<1>3. DirRecs' = DirRecs \ {t}
  <2>1. \A j \in Usable' : j \in DirRecs' <=> j \in DirRecs
    BY <1>1, <1>2 DEF DirRecs, FreesInode
  <2>2. DirRecs' \subseteq Usable' /\ DirRecs \subseteq Usable
    BY DEF DirRecs
  <2>. QED
    BY <1>2, <2>1, <2>2
<1>4. \A j \in Usable : /\ OwnRun(inodes[j]) \subseteq blockBitmap \ (0 .. (RootBlock - 1))
                        /\ j # t => OwnRun(inodes[j]) \cap OwnRun(inodes[t]) = {}
  BY DEF IInv, BlocksOwnedOnce
<1>5. MetadataMarked'
  <2>1. 0 .. (RootBlock - 1) \subseteq blockBitmap'
    BY <1>4 DEF IInv, MetadataMarked, FreesInode
  <2>. QED
    BY <1>1, <1>3, <2>1 DEF IInv, MetadataMarked, FreesInode
<1>6. FreedBlank'
  BY <1>1, <1>2 DEF IInv, FreedBlank, FreesInode
<1>7. BlocksOwnedOnce'
  <2>1. \A j \in Inodes \ {t} : OwnRun(inodes'[j]) = OwnRun(inodes[j])
    BY DEF OwnRun, FreesInode
  <2>2. OwnRun(inodes'[t]) = {}
    BY DEF OwnRun, FreesInode
  <2>3. \A j \in Inodes \ Usable : OwnRun(inodes[j]) = {}
    BY DEF IInv, BlocksOwnedOnce
  <2>4. \A j \in Inodes : OwnRun(inodes'[j]) \subseteq OwnRun(inodes[j]) \ OwnRun(inodes[t])
    BY <1>4, <2>1, <2>2, <2>3
  <2>5. \A j \in Inodes \ Usable' : OwnRun(inodes'[j]) = {}
    BY <1>2, <2>1, <2>2, <2>3
  <2>. QED
    BY <1>2, <2>4, <2>5, RunsShrink DEF FreesInode
<1>8. SizesFitRuns'
  BY <1>1, <1>2 DEF IInv, SizesFitRuns, FreesInode
<1>9. blockBitmap' \subseteq Blocks /\ inodeBitmap' \subseteq Inodes
  BY DEF IInv, TypeOK, FreesInode
<1>. QED
  BY <1>2, <1>3, <1>5, <1>6, <1>7, <1>8, <1>9

LEMMA FreedCounts ==
  ASSUME NoDotsInPaths, IInv, NEW t \in Inodes
  PROVE  Freed(counts, inodes[t]) \in CountsType
<1>1. counts \in CountsType /\ inodes[t] \in InodeType
  BY DEF IInv, TypeOK
<1>2. Cardinality(OwnRun(inodes[t])) \in Nat
  BY <1>1, OwnRunFinite
<1>. DEFINE n == Cardinality(OwnRun(inodes[t]))
<1>3. counts.freeBlocks \in Nat /\ counts.freeInodes \in Nat
  BY <1>1 DEF CountsType
<1>. HIDE DEF n
<1>4. counts.freeBlocks + n \in Nat /\ counts.freeInodes + 1 \in Nat
  BY <1>2, <1>3 DEF n
<1>5. [counts EXCEPT !.freeBlocks = @ + n, !.freeInodes = @ + 1] \in CountsType
  BY <1>1, <1>4 DEF CountsType
<1>. QED
  BY <1>5 DEF Freed, n

LEMMA DeletedType ==
  ASSUME NoDotsInPaths, NEW rec \in InodeType
  PROVE  /\ Deleted(rec) \in InodeType /\ Deleted(rec).kind = rec.kind
         /\ Deleted(rec).size = 0 /\ Deleted(rec).len = 0
<1>1. 0 \in Blocks /\ 0 \in 0 .. NumBlocks
  BY Constants
<1>2. Deleted(rec) \in InodeType
  BY <1>1 DEF Deleted, InodeType
<1>3. Deleted(rec).kind = rec.kind
  BY DEF Deleted, InodeType
<1>4. Deleted(rec).size = 0
  BY DEF Deleted, InodeType
<1>5. Deleted(rec).len = 0
  BY DEF Deleted, InodeType
<1>. QED
  BY <1>2, <1>3, <1>4, <1>5

(* The entry of t is gone, and it was the only one.                        *)
LEMMA FreedDirs ==
  ASSUME NoDotsInPaths, IInv, NEW t \in Usable, t # Root, FreesInode(t),
         NEW d \in DirRecs, NEW name \in Names, Refers(Block(d), name, t),
         dirBlocks' = WithoutEntry(d, t, name)
  PROVE  AllSound(dirBlocks') /\ DirsSound' /\ RefsUsable' /\ RefsUnique'
<1>1. t \in Inodes /\ Usable' = Usable \ {t} /\ DirRecs' = DirRecs \ {t}
  BY FreedOwns, UsableInodes
<1>2. dirBlocks' = RemovedAt(dirBlocks, d, t, name)
  BY DEF WithoutEntry, RemovedAt
<1>3. AllSound(dirBlocks) /\ \A k : At(dirBlocks, k) = Block(k)
  BY InvIsSound DEF At, Block
<1>4. AllSound(RemovedAt(dirBlocks, d, t, name))
  BY <1>1, <1>3, EditRemove
<1>5. \A k \in DirRecs, n \in Names, j \in Inodes :
        Refers(At(RemovedAt(dirBlocks, d, t, name), k), n, j)
          <=> Refers(At(dirBlocks, k), n, j) /\ ~ (k = d /\ n = name)
  BY <1>1, <1>3, EditRemove
<1>6. \A k \in DirRecs, n \in Names, j \in Inodes :
        Refers(At(dirBlocks', k), n, j) => Refers(Block(k), n, j) /\ j # t
  BY <1>1, <1>2, <1>3, <1>5 DEF IInv, RefsUnique
<1>7. \A k \in DirRecs', n \in Names, j \in Inodes :
        Refers(At(dirBlocks', k), n, j) =>
          j \in Usable' /\ (inodes'[j].kind = "dir" => j \in DirRecs')
  BY <1>1, <1>6 DEF IInv, RefsUsable, FreesInode
<1>8. \A k1, k2 \in DirRecs', j \in Inodes, n1, n2 \in Names :
        Refers(At(dirBlocks', k1), n1, j) /\ Refers(At(dirBlocks', k2), n2, j)
          => k1 = k2 /\ n1 = n2
  BY <1>1, <1>6 DEF IInv, RefsUnique
<1>9. AllSound(dirBlocks')
  BY <1>2, <1>4
<1>10. \A k \in DirRecs' : /\ inodes'[k].start = inodes[k].start
                           /\ inodes'[k].len = inodes[k].len
                           /\ inodes'[k].size = inodes[k].size
  BY <1>1, UsableInodes DEF FreesInode
<1>11. DirsSound' /\ RefsUsable' /\ RefsUnique'
  BY <1>1, <1>7, <1>8, <1>9, <1>10, DirsKept
<1>. QED
  BY <1>9, <1>11

LEMMA UnlinkIInv ==
  ASSUME NoDotsInPaths, IInv, NEW path \in Paths, NEW name \in PathNames,
         Unlink(path, name)
  PROVE  IInv'
<1>. DEFINE d == OpenPath(path)
            t == Found(d, name)
<1>1. CASE Refuse
  BY <1>1, DiskUnchanged DEF Refuse, IInv, TypeOK, Outcomes
<1>2. CASE /\ t \in Inodes /\ ~ IsDir(t)
           /\ blockBitmap' = blockBitmap \ OwnRun(inodes[t])
           /\ inodeBitmap' = inodeBitmap \ {t}
           /\ inodes' = [inodes EXCEPT ![t] = Deleted(@)]
           /\ dirBlocks' = WithoutEntry(d, t, name)
           /\ counts' = Freed(counts, inodes[t])
           /\ Flush /\ outcome' = "ok"
  <2>1. t # NoInode
    BY <1>2, Constants DEF NoInode
  <2>2. d \in DirRecs /\ Refers(Block(d), name, t) /\ Resolved(t)
    BY <2>1, FoundResolves
  <2>. HIDE DEF d, t
  <2>3. t \in Usable /\ t # Root
    BY <1>2, <2>2 DEF Resolved, IInv, MetadataMarked, DirRecs, IsDir
  <2>4. FreesInode(t)
    <3>1. inodes \in [Inodes -> InodeType]
      BY DEF IInv, TypeOK
    <3>2. Deleted(inodes[t]) \in InodeType /\ Deleted(inodes[t]).kind = inodes[t].kind
          /\ Deleted(inodes[t]).size = 0 /\ Deleted(inodes[t]).len = 0
      BY <1>2, <3>1, DeletedType
    <3>. QED
      BY <1>2, <3>1, <3>2 DEF FreesInode
  <2>5. name \in Names
    BY Constants
  <2>6. AllSound(dirBlocks') /\ DirsSound' /\ RefsUsable' /\ RefsUnique'
    BY <1>2, <2>2, <2>3, <2>4, <2>5, FreedDirs
  <2>7. /\ blockBitmap' \subseteq Blocks /\ inodeBitmap' \subseteq Inodes
        /\ MetadataMarked' /\ FreedBlank' /\ BlocksOwnedOnce' /\ SizesFitRuns'
    BY <2>3, <2>4, FreedOwns
  <2>8. TypeOK'
    BY <1>2, <2>4, <2>6, <2>7, FreedCounts DEF TypeOK, Flush, FreesInode, AllSound
  <2>. QED
    BY <2>6, <2>7, <2>8 DEF IInv
<1>. QED
  BY <1>1, <1>2 DEF Unlink, Found

LEMMA RmdirIInv ==
  ASSUME NoDotsInPaths, IInv, NEW path \in Paths, NEW name \in PathNames,
         Rmdir(path, name)
  PROVE  IInv'
<1>. DEFINE d == OpenPath(path)
            t == Found(d, name)
<1>1. CASE Refuse
  BY <1>1, DiskUnchanged DEF Refuse, IInv, TypeOK, Outcomes
<1>2. CASE /\ t # Root /\ IsDir(t) /\ IsEmptyDir(t)
           /\ blockBitmap' = blockBitmap \ OwnRun(inodes[t])
           /\ inodeBitmap' = inodeBitmap \ {t}
           /\ inodes' = [inodes EXCEPT
                           ![t] = Deleted(@),
                           ![d] = [inodes[d] EXCEPT !.links = SatSub(@, 1)]]
           /\ dirBlocks' = WithoutEntry(d, t, name)
           /\ counts' = [Freed(counts, inodes[t]) EXCEPT !.usedDirs = SatSub(@, 1)]
           /\ Flush /\ outcome' = "ok"
  <2>1. t # NoInode /\ t \in Inodes
    BY <1>2, Constants DEF NoInode, IsDir
  <2>2. d \in DirRecs /\ Refers(Block(d), name, t) /\ Resolved(t)
    BY <2>1, FoundResolves
  <2>. HIDE DEF d, t
  <2>3. t \in Usable /\ t # Root /\ t \in DirRecs /\ d \in Inodes
    BY <1>2, <2>2, UsableInodes DEF Resolved, IsDir
  <2>4. name \in Names /\ name \notin Dots
    BY Constants DEF Dots
  <2>5. d # t
    <3>. SUFFICES ASSUME d = t PROVE FALSE
      OBVIOUS
    <3>1. PICK e \in Block(t) : e.name = name /\ e.inode = t
      BY <2>2 DEF Refers
    <3>2. DirEntries(inodes[t]) = Block(t)
      BY <2>3 DEF DirEntries, Block, DirRecs
    <3>3. e \in Live(DirEntries(inodes[t]))
      BY <2>1, <3>1, <3>2, Constants DEF Live, IsUnused
    <3>. QED
      BY <1>2, <2>4, <3>1, <3>3 DEF IsEmptyDir
  <2>6. FreesInode(t)
    <3>1. inodes \in [Inodes -> InodeType]
      BY DEF IInv, TypeOK
    <3>2. Deleted(inodes[t]) \in InodeType /\ Deleted(inodes[t]).kind = inodes[t].kind
          /\ Deleted(inodes[t]).size = 0 /\ Deleted(inodes[t]).len = 0
      BY <2>1, <3>1, DeletedType
    <3>. DEFINE parent == [inodes[d] EXCEPT !.links = SatSub(@, 1)]
    <3>3. /\ parent \in InodeType /\ parent.kind = inodes[d].kind
          /\ parent.size = inodes[d].size /\ parent.start = inodes[d].start
          /\ parent.len = inodes[d].len
      <4>1. inodes[d] \in InodeType
        BY <2>3, <3>1
      <4>. QED
        BY <4>1 DEF InodeType, SatSub
    <3>4. inodes' = [inodes EXCEPT ![t] = Deleted(inodes[t]), ![d] = parent]
      BY <1>2
    <3>. HIDE DEF parent
    <3>. QED
      BY <1>2, <2>1, <2>3, <2>5, <3>1, <3>2, <3>3, <3>4 DEF FreesInode
  <2>7. AllSound(dirBlocks') /\ DirsSound' /\ RefsUsable' /\ RefsUnique'
    BY <1>2, <2>2, <2>3, <2>4, <2>6, FreedDirs
  <2>8. /\ blockBitmap' \subseteq Blocks /\ inodeBitmap' \subseteq Inodes
        /\ MetadataMarked' /\ FreedBlank' /\ BlocksOwnedOnce' /\ SizesFitRuns'
    BY <2>3, <2>6, FreedOwns
  <2>9. counts' \in CountsType
    BY <1>2, <2>1, FreedCounts DEF CountsType, SatSub
  <2>10. TypeOK'
    BY <1>2, <2>6, <2>7, <2>8, <2>9 DEF TypeOK, Flush, FreesInode, AllSound
  <2>. QED
    BY <2>7, <2>8, <2>10 DEF IInv
<1>. QED
  BY <1>1, <1>2 DEF Rmdir, Found

-----------------------------------------------------------------------------
(* truncate, the attributes, and opening the image again.                  *)
LEMMA RunResized ==
  ASSUME NoDotsInPaths, IInv, NEW i \in Usable, inodes[i].kind = "reg", NEW freed,
         inodes' \in [Inodes -> InodeType], inodes'[i].kind = "reg",
         inodes'[i].len = CeilDiv(inodes'[i].size, BlockSize),
         \A j \in Inodes \ {i} : inodes'[j] = inodes[j],
         freed \subseteq OwnRun(inodes[i]),
         OwnRun(inodes'[i]) \subseteq OwnRun(inodes[i]) \ freed,
         blockBitmap' = blockBitmap \ freed,
         UNCHANGED <<inodeBitmap, dirBlocks>>,
         counts' \in CountsType, diskCounts' = counts', outcome' = "ok"
  PROVE  IInv'
<1>1. i \in Inodes /\ Usable \subseteq Inodes /\ Usable' = Usable
  BY UsableInodes DEF Usable
<1>2. i \notin DirRecs /\ DirRecs' = DirRecs
  BY <1>1 DEF DirRecs
<1>3. \A d : At(dirBlocks', d) = At(dirBlocks, d)
  BY DEF At
<1>4. BlocksOwnedOnce'
  <2>1. \A j \in Usable \ {i} : OwnRun(inodes[j]) \cap OwnRun(inodes[i]) = {}
    BY DEF IInv, BlocksOwnedOnce
  <2>2. \A j \in Inodes \ Usable : OwnRun(inodes[j]) = {}
    BY DEF IInv, BlocksOwnedOnce
  <2>3. \A j \in Inodes : OwnRun(inodes'[j]) \subseteq OwnRun(inodes[j]) \ freed
    BY <2>1, <2>2
  <2>4. \A j \in Inodes \ Usable' : OwnRun(inodes'[j]) = {}
    BY <1>1, <2>2
  <2>. QED
    BY <1>1, <2>3, <2>4, RunsShrink
<1>5. MetadataMarked'
  <2>1. freed \cap 0 .. (RootBlock - 1) = {}
    BY DEF IInv, BlocksOwnedOnce
  <2>. QED
    BY <1>2, <2>1 DEF IInv, MetadataMarked
<1>6. FreedBlank' /\ SizesFitRuns'
  BY <1>1 DEF IInv, FreedBlank, SizesFitRuns
<1>7. TypeOK'
  BY DEF IInv, TypeOK
<1>8. DirsSound' /\ RefsUsable' /\ RefsUnique'
  <2>1. AllSound(dirBlocks')
    BY InvIsSound
  <2>2. \A d : At(dirBlocks', d) = Block(d)
    BY DEF At, Block
  <2>3. \A d \in DirRecs, n \in Names, j \in Inodes :
          Refers(At(dirBlocks', d), n, j) =>
            j \in Usable' /\ (inodes'[j].kind = "dir" => j \in DirRecs')
    BY <1>1, <1>2, <2>2 DEF IInv, RefsUsable
  <2>4. \A d1, d2 \in DirRecs, j \in Inodes, n1, n2 \in Names :
          Refers(At(dirBlocks', d1), n1, j) /\ Refers(At(dirBlocks', d2), n2, j)
            => d1 = d2 /\ n1 = n2
    BY <2>2 DEF IInv, RefsUnique
  <2>5. \A d \in DirRecs : inodes'[d] = inodes[d]
    BY <1>1, <1>2, UsableInodes
  <2>. QED
    BY <1>2, <2>1, <2>3, <2>4, <2>5, DirsKept
<1>. QED
  BY <1>4, <1>5, <1>6, <1>7, <1>8 DEF IInv

LEMMA GrowIInv ==
  ASSUME NoDotsInPaths, IInv, NEW i \in Usable, inodes[i].kind = "reg",
         NEW size \in Nat, Grow(i, size)
  PROVE  IInv'
<1>1. i \in Inodes /\ inodes \in [Inodes -> InodeType] /\ counts \in CountsType
  BY UsableInodes DEF IInv, TypeOK
<1>2. /\ inodes[i] \in InodeType /\ inodes[i].size \in Nat /\ inodes[i].len \in Nat
  BY <1>1, Constants DEF InodeType
<1>3. CASE Refuse
  BY <1>3, DiskUnchanged DEF Refuse, IInv, TypeOK, Outcomes
<1>4. CASE ~ Refuse
  <2>. DEFINE rec == [inodes[i] EXCEPT !.size = size]
  <2>1. /\ size > inodes[i].size
        /\ size <= (IF inodes[i].size > 0 THEN inodes[i].len * BlockSize ELSE 0)
        /\ inodes' = [inodes EXCEPT ![i].size = size]
        /\ UNCHANGED <<blockBitmap, inodeBitmap, dirBlocks, counts>>
        /\ Flush /\ outcome' = "ok"
    BY <1>4 DEF Grow
  <2>2. inodes[i].size > 0 /\ size <= inodes[i].len * BlockSize
    BY <1>2, <2>1
  <2>3. /\ rec \in InodeType /\ rec.kind = inodes[i].kind /\ rec.size = size
        /\ rec.len = inodes[i].len /\ rec.start = inodes[i].start
    BY <1>2 DEF InodeType
  <2>4. /\ inodes' \in [Inodes -> InodeType] /\ inodes'[i] = rec
        /\ \A j \in Inodes \ {i} : inodes'[j] = inodes[j]
    <3>1. inodes' = [inodes EXCEPT ![i] = rec]
      BY <2>1
    <3>. HIDE DEF rec
    <3>. QED
      BY <1>1, <2>3, <3>1
  <2>. HIDE DEF rec
  <2>5. rec.len = CeilDiv(rec.size, BlockSize)
    <3>1. inodes[i].len = CeilDiv(inodes[i].size, BlockSize)
      BY DEF IInv, SizesFitRuns
    <3>2. CeilDiv(inodes[i].size, BlockSize) <= CeilDiv(size, BlockSize)
      BY <1>2, <2>1, Constants, CeilDivMonotone
    <3>3. CeilDiv(size, BlockSize) <= inodes[i].len
      BY <1>2, <2>2, Constants, CeilDivInCapacity
    <3>4. CeilDiv(size, BlockSize) \in Nat
      BY Constants, CeilDivBounds
    <3>. QED
      BY <1>2, <2>3, <3>1, <3>2, <3>3, <3>4
  <2>6. OwnRun(rec) = OwnRun(inodes[i])
    BY <1>2, <2>1, <2>2, <2>3 DEF OwnRun
  <2>7. blockBitmap' = blockBitmap \ {} /\ diskCounts' = counts'
        /\ counts' \in CountsType
    BY <1>1, <2>1 DEF Flush
  <2>. QED
    BY <2>1, <2>3, <2>4, <2>5, <2>6, <2>7, RunResized
<1>. QED
  BY <1>3, <1>4

LEMMA ShrinkIInv ==
  ASSUME NoDotsInPaths, IInv, NEW i \in Usable, inodes[i].kind = "reg",
         NEW size \in Nat, Shrink(i, size)
  PROVE  IInv'
<1>. DEFINE kept == CeilDiv(size, BlockSize)
            run == RunBits(inodes[i].start, inodes[i].len)
            tail == run \ RunBits(inodes[i].start, kept)
            start == IF kept = 0 THEN 0 ELSE inodes[i].start
<1>1. i \in Inodes /\ inodes \in [Inodes -> InodeType] /\ counts \in CountsType
  BY UsableInodes DEF IInv, TypeOK
<1>2. /\ inodes[i] \in InodeType /\ inodes[i].size \in Nat
      /\ inodes[i].len \in Nat /\ inodes[i].len <= NumBlocks
      /\ inodes[i].start \in Blocks /\ inodes[i].start \in Int
  BY <1>1, Constants DEF InodeType, Blocks
<1>3. /\ size < inodes[i].size
      /\ blockBitmap' = blockBitmap \ tail
      /\ inodes' = [inodes EXCEPT ![i].size = size, ![i].len = kept,
                                  ![i].start = IF kept = 0 THEN 0 ELSE @]
      /\ counts' = [counts EXCEPT !.freeBlocks = @ + Cardinality(tail)]
      /\ diskCounts' = counts' /\ outcome' = "ok"
      /\ UNCHANGED <<inodeBitmap, dirBlocks>>
  BY DEF Shrink, Flush
<1>4. kept \in Nat /\ kept <= inodes[i].len /\ (kept = 0 <=> size = 0)
  <2>1. inodes[i].len = CeilDiv(inodes[i].size, BlockSize)
    BY DEF IInv, SizesFitRuns
  <2>2. CeilDiv(size, BlockSize) <= CeilDiv(inodes[i].size, BlockSize)
    BY <1>2, <1>3, Constants, CeilDivMonotone
  <2>3. CeilDiv(size, BlockSize) \in Nat
    BY Constants, CeilDivBounds
  <2>4. CeilDiv(size, BlockSize) = 0 <=> size = 0
    BY Constants, CeilDivZero
  <2>. QED
    BY <2>1, <2>2, <2>3, <2>4
<1>5. OwnRun(inodes[i]) = run
  BY <1>2, <1>3 DEF OwnRun
<1>. HIDE DEF kept
<1>6. start \in Blocks /\ kept \in 0 .. NumBlocks
  BY <1>2, <1>4, Constants
<1>7. /\ inodes' \in [Inodes -> InodeType]
      /\ \A j \in Inodes \ {i} : inodes'[j] = inodes[j]
      /\ inodes'[i].kind = "reg" /\ inodes'[i].size = size
      /\ inodes'[i].len = kept /\ inodes'[i].start = start
  <2>. DEFINE rec == [inodes[i] EXCEPT !.size = size, !.len = kept, !.start = start]
  <2>1. inodes' = [inodes EXCEPT ![i] = rec]
    BY <1>1, <1>3
  <2>. HIDE DEF start
  <2>2. rec \in InodeType
    BY <1>2, <1>6 DEF InodeType
  <2>3. rec.kind = "reg"
    BY <1>2 DEF InodeType
  <2>4. rec.size = size
    BY <1>2 DEF InodeType
  <2>5. rec.len = kept
    BY <1>2 DEF InodeType
  <2>6. rec.start = start
    BY <1>2 DEF InodeType
  <2>. HIDE DEF rec
  <2>. QED
    BY <1>1, <2>1, <2>2, <2>3, <2>4, <2>5, <2>6
<1>8. OwnRun(inodes'[i]) \subseteq run \ tail
  <2>1. CASE size = 0
    BY <1>7, <2>1 DEF OwnRun
  <2>2. CASE size # 0
    <3>1. OwnRun(inodes'[i]) = RunBits(inodes[i].start, kept)
      BY <1>4, <1>7, <2>2 DEF OwnRun
    <3>2. RunBits(inodes[i].start, kept) \subseteq run
      BY <1>2, <1>4 DEF RunBits
    <3>. QED
      BY <3>1, <3>2
  <2>. QED
    BY <2>1, <2>2
<1>9. counts' \in CountsType
  <2>1. IsFiniteSet(tail)
    <3>1. IsFiniteSet(run)
      <4>1. inodes[i].start + inodes[i].len - 1 \in Int
        BY <1>2
      <4>. QED
        BY <1>2, <4>1, FS_Interval DEF RunBits
    <3>. QED
      BY <3>1, FS_Subset
  <2>2. Cardinality(tail) \in Nat
    BY <2>1, FS_CardinalityType
  <2>. HIDE DEF tail
  <2>3. counts.freeBlocks + Cardinality(tail) \in Nat
    BY <1>1, <2>2 DEF CountsType
  <2>. QED
    BY <1>1, <1>3, <2>3 DEF CountsType
<1>10. inodes'[i].len = CeilDiv(inodes'[i].size, BlockSize)
  BY <1>7 DEF kept
<1>11. tail \subseteq OwnRun(inodes[i])
  BY <1>5
<1>. HIDE DEF tail, run, start
<1>. QED
  BY <1>3, <1>5, <1>7, <1>8, <1>9, <1>10, <1>11, RunResized

LEMMA TruncateIInv ==
  ASSUME NoDotsInPaths, IInv, NEW path \in FullPaths, NEW size \in FileSizes,
         Truncate(path, size)
  PROVE  IInv'
<1>. DEFINE i == OpenPath(path)
<1>1. CASE Refuse
  BY <1>1, DiskUnchanged DEF Refuse, IInv, TypeOK, Outcomes
<1>2. CASE outcome' = "same" /\ UNCHANGED <<disk, diskCounts, counts>>
  BY <1>2, DiskUnchanged DEF IInv, TypeOK, Outcomes
<1>3. CASE i \in Inodes /\ inodes[i].kind = "reg" /\ (Grow(i, size) \/ Shrink(i, size))
  <2>1. i \in Usable
    BY <1>3, PathResolves, Constants DEF Resolved, NoInode
  <2>. HIDE DEF i
  <2>. QED
    BY <1>3, <2>1, GrowIInv, ShrinkIInv, Constants
<1>. QED
  BY <1>1, <1>2, <1>3 DEF Truncate

LEMMA QuietIInv ==
  ASSUME IInv, Reopen \/ \E path \in FullPaths : SetAttr(path)
  PROVE  IInv'
<1>1. CASE Reopen
  BY <1>1, DiskUnchanged DEF Reopen, IInv, TypeOK, Outcomes
<1>2. ASSUME NEW path \in FullPaths, SetAttr(path) PROVE IInv'
  BY <1>2, DiskUnchanged DEF SetAttr, Refuse, IInv, TypeOK, Outcomes
<1>. QED
  BY <1>1, <1>2

-----------------------------------------------------------------------------
(* rename: the source s is moved from d1 to d2, where t is displaced.      *)
KeepsInodes ==
  /\ inodes' \in [Inodes -> InodeType]
  /\ \A j \in Inodes : /\ inodes'[j].kind = inodes[j].kind
                       /\ inodes'[j].size = inodes[j].size
                       /\ inodes'[j].start = inodes[j].start
                       /\ inodes'[j].len = inodes[j].len
  /\ UNCHANGED <<blockBitmap, inodeBitmap>>

Displaces(t) ==
  \/ t = NoInode /\ KeepsInodes
  \/ t \in Usable /\ t # Root /\ ~ IsDir(t) /\ FreesInode(t)

LEMMA DisplacedOwns ==
  ASSUME NoDotsInPaths, IInv, NEW t, Displaces(t)
  PROVE  /\ Usable' = Usable \ {t} /\ DirRecs' = DirRecs
         /\ blockBitmap' \subseteq Blocks /\ inodeBitmap' \subseteq Inodes
         /\ inodes' \in [Inodes -> InodeType]
         /\ MetadataMarked' /\ FreedBlank' /\ BlocksOwnedOnce' /\ SizesFitRuns'
         /\ \A j \in Inodes : inodes'[j].kind = inodes[j].kind
         /\ \A d \in DirRecs : /\ inodes'[d].start = inodes[d].start
                               /\ inodes'[d].len = inodes[d].len
                               /\ inodes'[d].size = inodes[d].size
<1>1. CASE t \in Usable /\ t # Root /\ ~ IsDir(t) /\ FreesInode(t)
  <2>1. t \notin DirRecs
    BY <1>1, UsableInodes DEF DirRecs, IsDir
  <2>2. DirRecs \subseteq Inodes
    BY UsableInodes
  <2>3. /\ Usable' = Usable \ {t} /\ DirRecs' = DirRecs \ {t}
        /\ blockBitmap' \subseteq Blocks /\ inodeBitmap' \subseteq Inodes
        /\ MetadataMarked' /\ FreedBlank' /\ BlocksOwnedOnce' /\ SizesFitRuns'
    BY <1>1, FreedOwns
  <2>. QED
    BY <1>1, <2>1, <2>2, <2>3 DEF FreesInode
<1>2. CASE t = NoInode /\ KeepsInodes
  <2>1. Usable' = Usable /\ Usable \ {t} = Usable /\ Usable \subseteq Inodes
    BY <1>2, UsableInodes DEF KeepsInodes, NoInode, Usable
  <2>2. DirRecs' = DirRecs /\ DirRecs \subseteq Inodes
    BY <1>2, <2>1 DEF DirRecs, KeepsInodes
  <2>3. \A j \in Inodes : OwnRun(inodes'[j]) = OwnRun(inodes[j])
    BY <1>2 DEF OwnRun, KeepsInodes
  <2>4. BlocksOwnedOnce'
    BY <1>2, <2>1, <2>3 DEF IInv, BlocksOwnedOnce, KeepsInodes
  <2>5. MetadataMarked' /\ FreedBlank' /\ SizesFitRuns'
    BY <1>2, <2>1, <2>2 DEF IInv, MetadataMarked, FreedBlank, SizesFitRuns, KeepsInodes
  <2>6. blockBitmap' \subseteq Blocks /\ inodeBitmap' \subseteq Inodes
    BY <1>2 DEF IInv, TypeOK, KeepsInodes
  <2>. QED
    BY <1>2, <2>1, <2>2, <2>4, <2>5, <2>6 DEF KeepsInodes
<1>. QED
  BY <1>1, <1>2 DEF Displaces

(* What rename knows once its checks are passed. *)
Renames(d1, s, oldName, d2, t, newName) ==
  /\ d1 \in DirRecs /\ d2 \in DirRecs
  /\ oldName \in Names /\ newName \in Names
  /\ s \in Inodes /\ Resolved(s) /\ Refers(Block(d1), oldName, s)
  /\ \/ t = NoInode /\ \A e \in Block(d2) : e.name # newName
     \/ /\ t \in Inodes /\ t # Root /\ Resolved(t) /\ Refers(Block(d2), newName, t)
        /\ t # s /\ ~ IsDir(t) /\ ~ IsDir(s)

LEMMA AfterUnlinkDirs ==
  ASSUME NoDotsInPaths, IInv, NEW d1, NEW s, NEW oldName, NEW d2, NEW t, NEW newName,
         Renames(d1, s, oldName, d2, t, newName)
  PROVE  /\ AllSound(AfterUnlink(d2, t, newName))
         /\ \A e \in At(AfterUnlink(d2, t, newName), d2) : e.name # newName
         /\ \A k \in DirRecs, n \in Names, j \in Inodes :
              Refers(At(AfterUnlink(d2, t, newName), k), n, j)
                <=> Refers(Block(k), n, j) /\ ~ (k = d2 /\ n = newName)
<1>1. AllSound(dirBlocks) /\ \A k : At(dirBlocks, k) = Block(k)
  BY InvIsSound DEF At, Block
<1>2. CASE t = NoInode
  <2>1. AfterUnlink(d2, t, newName) = dirBlocks
    BY <1>2 DEF AfterUnlink
  <2>2. \A e \in Block(d2) : e.name # newName
    BY <1>2, Constants DEF Renames, NoInode
  <2>. QED
    BY <1>1, <2>1, <2>2 DEF Refers
<1>3. CASE t # NoInode
  <2>1. AfterUnlink(d2, t, newName) = RemovedAt(dirBlocks, d2, t, newName)
    BY <1>3 DEF AfterUnlink, WithoutEntry, RemovedAt
  <2>2. /\ d2 \in DirRecs /\ newName \in Names /\ t \in Inodes
        /\ Refers(At(dirBlocks, d2), newName, t)
    BY <1>1, <1>3 DEF Renames
  <2>3. AllSound(RemovedAt(dirBlocks, d2, t, newName))
    BY <1>1, <2>2, EditRemove
  <2>4. \A e \in At(RemovedAt(dirBlocks, d2, t, newName), d2) : e.name # newName
    BY <1>1, <2>2, EditRemove
  <2>5. \A k \in DirRecs, n \in Names, j \in Inodes :
          Refers(At(RemovedAt(dirBlocks, d2, t, newName), k), n, j)
            <=> Refers(At(dirBlocks, k), n, j) /\ ~ (k = d2 /\ n = newName)
    BY <1>1, <2>2, EditRemove
  <2>. QED
    BY <1>1, <2>1, <2>3, <2>4, <2>5
<1>. QED
  BY <1>2, <1>3

(* Nothing else named t or s. *)
LEMMA OnlyOldNames ==
  ASSUME IInv, NEW d1, NEW s, NEW oldName, NEW d2, NEW t, NEW newName,
         Renames(d1, s, oldName, d2, t, newName),
         NEW k \in DirRecs, NEW n \in Names, NEW j \in Inodes, Refers(Block(k), n, j)
  PROVE  /\ j \in Usable /\ (inodes[j].kind = "dir" => j \in DirRecs)
         /\ j = t => k = d2 /\ n = newName
         /\ j = s => k = d1 /\ n = oldName
<1>1. j \in Usable /\ (inodes[j].kind = "dir" => j \in DirRecs)
  BY DEF IInv, RefsUsable
<1>2. j # NoInode
  BY DEF NoInode, Inodes
<1>3. \A d \in DirRecs, m \in Names : Refers(Block(d), m, j) => k = d /\ n = m
  BY DEF IInv, RefsUnique
<1>. QED
  BY <1>1, <1>2, <1>3 DEF Renames

LEMMA MoveFullIInv ==
  ASSUME NoDotsInPaths, IInv, NEW d1, NEW s, NEW oldName, NEW d2, NEW t, NEW newName,
         Renames(d1, s, oldName, d2, t, newName), Displaces(t),
         dirBlocks' = AfterUnlink(d2, t, newName),
         counts' \in CountsType, diskCounts' \in CountsType, outcome' = "full"
  PROVE  IInv'
<1>1. /\ AllSound(dirBlocks')
      /\ \A k \in DirRecs, n \in Names, j \in Inodes :
           Refers(At(dirBlocks', k), n, j)
             <=> Refers(Block(k), n, j) /\ ~ (k = d2 /\ n = newName)
  BY AfterUnlinkDirs
<1>2. /\ Usable' = Usable \ {t} /\ DirRecs' = DirRecs
      /\ blockBitmap' \subseteq Blocks /\ inodeBitmap' \subseteq Inodes
      /\ inodes' \in [Inodes -> InodeType]
      /\ MetadataMarked' /\ FreedBlank' /\ BlocksOwnedOnce' /\ SizesFitRuns'
      /\ \A j \in Inodes : inodes'[j].kind = inodes[j].kind
      /\ \A d \in DirRecs : /\ inodes'[d].start = inodes[d].start
                            /\ inodes'[d].len = inodes[d].len
                            /\ inodes'[d].size = inodes[d].size
  BY DisplacedOwns
<1>3. \A k \in DirRecs', n \in Names, j \in Inodes :
        Refers(At(dirBlocks', k), n, j) =>
          j \in Usable' /\ (inodes'[j].kind = "dir" => j \in DirRecs')
  BY <1>1, <1>2, OnlyOldNames
<1>4. \A k1, k2 \in DirRecs', j \in Inodes, n1, n2 \in Names :
        Refers(At(dirBlocks', k1), n1, j) /\ Refers(At(dirBlocks', k2), n2, j)
          => k1 = k2 /\ n1 = n2
  BY <1>1, <1>2 DEF IInv, RefsUnique
<1>5. DirsSound' /\ RefsUsable' /\ RefsUnique'
  BY <1>1, <1>2, <1>3, <1>4, DirsKept
<1>6. TypeOK'
  BY <1>1, <1>2 DEF TypeOK, AllSound
<1>. QED
  BY <1>2, <1>5, <1>6 DEF IInv

LEMMA MovedIInv ==
  ASSUME NoDotsInPaths, IInv, NEW d1, NEW s, NEW oldName, NEW d2, NEW t, NEW newName,
         Renames(d1, s, oldName, d2, t, newName), Displaces(t), s # t,
         ~ (d1 = d2 /\ oldName = newName),
         Fits(At(AfterUnlink(d2, t, newName), d2), newName),
         dirBlocks' = AfterMove(AfterUnlink(d2, t, newName), s, d1, oldName, d2, newName),
         counts' \in CountsType, diskCounts' \in CountsType, outcome' = "ok"
  PROVE  IInv'
<1>. DEFINE blks == AfterUnlink(d2, t, newName)
            ft == FtOf(inodes[s].kind)
            added == AddedAt(blks, d2, newName, s, ft)
            removed == RemovedAt(added, d1, s, oldName)
<1>1. /\ d1 \in DirRecs /\ d2 \in DirRecs /\ oldName \in Names /\ newName \in Names
      /\ s \in Inodes /\ Resolved(s) /\ Refers(Block(d1), oldName, s)
      /\ ft \in FileTypes
  BY DEF Renames, FtOf, FileTypes
<1>2. /\ AllSound(blks)
      /\ \A e \in At(blks, d2) : e.name # newName
      /\ \A k \in DirRecs, n \in Names, j \in Inodes :
           Refers(At(blks, k), n, j)
             <=> Refers(Block(k), n, j) /\ ~ (k = d2 /\ n = newName)
  BY AfterUnlinkDirs
<1>3. dirBlocks' = IF d1 # d2 /\ IsDir(s) THEN MovedTo(removed, s, d2) ELSE removed
  BY DEF AfterMove, AddedAt, RemovedAt, MovedTo
<1>. HIDE DEF blks, ft, removed
<1>4. AllSound(added)
  BY <1>1, <1>2, EditAdd DEF blks
<1>5. \A k \in DirRecs, n \in Names, j \in Inodes :
        Refers(At(added, k), n, j)
          <=> Refers(At(blks, k), n, j) \/ (k = d2 /\ n = newName /\ j = s)
  BY <1>1, <1>2, EditAdd DEF blks
<1>. HIDE DEF added
<1>6. Refers(At(added, d1), oldName, s)
  BY <1>1, <1>2, <1>5
<1>7. AllSound(removed)
  BY <1>1, <1>4, <1>6, EditRemove DEF removed
<1>8. \A k \in DirRecs, n \in Names, j \in Inodes :
        Refers(At(removed, k), n, j)
          <=> Refers(At(added, k), n, j) /\ ~ (k = d1 /\ n = oldName)
  BY <1>1, <1>4, <1>6, EditRemove DEF removed
<1>9. /\ AllSound(dirBlocks')
      /\ \A k \in DirRecs, n \in Names, j \in Inodes :
           Refers(At(dirBlocks', k), n, j) <=> Refers(At(removed, k), n, j)
  <2>1. CASE d1 # d2 /\ IsDir(s)
    <3>1. s \in DirRecs /\ d2 \in Inodes
      BY <1>1, <2>1, UsableInodes DEF Resolved, IsDir
    <3>2. dirBlocks' = MovedTo(removed, s, d2)
      BY <1>3, <2>1
    <3>3. AllSound(MovedTo(removed, s, d2))
      BY <1>7, <3>1, EditDotDot
    <3>4. \A k \in DirRecs, n \in Names, j \in Inodes :
            Refers(At(MovedTo(removed, s, d2), k), n, j)
              <=> Refers(At(removed, k), n, j)
      BY <1>7, <3>1, EditDotDot
    <3>. QED
      BY <3>2, <3>3, <3>4
  <2>2. CASE ~ (d1 # d2 /\ IsDir(s))
    BY <1>3, <1>7, <2>2
  <2>. QED
    BY <2>1, <2>2
<1>10. /\ Usable' = Usable \ {t} /\ DirRecs' = DirRecs
       /\ blockBitmap' \subseteq Blocks /\ inodeBitmap' \subseteq Inodes
       /\ inodes' \in [Inodes -> InodeType]
       /\ MetadataMarked' /\ FreedBlank' /\ BlocksOwnedOnce' /\ SizesFitRuns'
       /\ \A j \in Inodes : inodes'[j].kind = inodes[j].kind
       /\ \A d \in DirRecs : /\ inodes'[d].start = inodes[d].start
                             /\ inodes'[d].len = inodes[d].len
                             /\ inodes'[d].size = inodes[d].size
  BY DisplacedOwns
<1>11. \A k \in DirRecs, n \in Names, j \in Inodes :
         Refers(At(dirBlocks', k), n, j) =>
           \/ k = d2 /\ n = newName /\ j = s
           \/ Refers(Block(k), n, j) /\ j # s /\ j # t
  <2>. SUFFICES ASSUME NEW k \in DirRecs, NEW n \in Names, NEW j \in Inodes,
                       Refers(At(dirBlocks', k), n, j),
                       ~ (k = d2 /\ n = newName /\ j = s)
       PROVE  Refers(Block(k), n, j) /\ j # s /\ j # t
    OBVIOUS
  <2>1. Refers(At(blks, k), n, j) /\ ~ (k = d1 /\ n = oldName)
    BY <1>5, <1>8, <1>9
  <2>2. Refers(Block(k), n, j) /\ ~ (k = d2 /\ n = newName)
    BY <1>2, <2>1
  <2>. QED
    BY <2>1, <2>2, OnlyOldNames
<1>12. \A k \in DirRecs', n \in Names, j \in Inodes :
         Refers(At(dirBlocks', k), n, j) =>
           j \in Usable' /\ (inodes'[j].kind = "dir" => j \in DirRecs')
  BY <1>1, <1>10, <1>11, OnlyOldNames DEF Resolved
<1>13. \A k1, k2 \in DirRecs', j \in Inodes, n1, n2 \in Names :
         Refers(At(dirBlocks', k1), n1, j) /\ Refers(At(dirBlocks', k2), n2, j)
           => k1 = k2 /\ n1 = n2
  BY <1>10, <1>11 DEF IInv, RefsUnique
<1>14. DirsSound' /\ RefsUsable' /\ RefsUnique'
  BY <1>9, <1>10, <1>12, <1>13, DirsKept
<1>15. TypeOK'
  BY <1>9, <1>10 DEF TypeOK, AllSound
<1>. QED
  BY <1>10, <1>14, <1>15 DEF IInv

LEMMA RenameChecks ==
  ASSUME NoDotsInPaths, IInv, NEW oldPath \in Paths, NEW newPath \in Paths,
         NEW oldName \in PathNames, NEW newName \in PathNames,
         NEW s, s = Found(OpenPath(oldPath), oldName), s \in Inodes,
         NEW t, t = Found(OpenPath(newPath), newName), t # s,
         IsDir(OpenPath(newPath)),
         t # NoInode => ~ IsDir(t) /\ ~ IsDir(s)
  PROVE  Renames(OpenPath(oldPath), s, oldName, OpenPath(newPath), t, newName)
<1>. DEFINE d1 == OpenPath(oldPath)
            d2 == OpenPath(newPath)
<1>1. s # NoInode
  BY Constants DEF NoInode
<1>2. d1 \in DirRecs /\ Refers(Block(d1), oldName, s) /\ Resolved(s)
  BY <1>1, FoundResolves
<1>3. d2 \in DirRecs
  BY PathIsDir
<1>4. oldName \in Names /\ newName \in Names
  BY Constants
<1>. HIDE DEF d1
<1>5. CASE t = NoInode
  <2>1. Lookup(d2, newName) = NoInode
    BY <1>5 DEF Found
  <2>2. \A e \in Block(d2) : e.name # newName
    <3>. HIDE DEF d2
    <3>. QED
      BY <1>3, <2>1, LookupFinds, Constants DEF NoInode
  <2>. HIDE DEF d2
  <2>3. Renames(d1, s, oldName, d2, t, newName)
    BY <1>2, <1>3, <1>4, <1>5, <2>2 DEF Renames
  <2>. QED
    BY <2>3 DEF d1, d2
<1>6. CASE t # NoInode
  <2>1. t \in Inodes /\ Refers(Block(d2), newName, t) /\ Resolved(t)
    BY <1>6, FoundResolves
  <2>2. t # Root
    BY <1>6, Constants DEF IInv, MetadataMarked, DirRecs, IsDir
  <2>. HIDE DEF d2
  <2>3. Renames(d1, s, oldName, d2, t, newName)
    BY <1>2, <1>3, <1>4, <1>6, <2>1, <2>2 DEF Renames
  <2>. QED
    BY <2>3 DEF d1, d2
<1>. QED
  BY <1>5, <1>6

(* Renaming adjusts the link counts of the parents and, but for the inode  *)
(* it displaces, nothing else of the inode table.                          *)
Relinked(rec, new) ==
  /\ new \in InodeType /\ new.kind = rec.kind /\ new.size = rec.size
  /\ new.start = rec.start /\ new.len = rec.len

LEMMA LinksType ==
  ASSUME NEW rec \in InodeType
  PROVE  /\ Relinked(rec, rec)
         /\ Relinked(rec, [rec EXCEPT !.links = @ + 1])
         /\ Relinked(rec, [rec EXCEPT !.links = SatSub(@, 1)])
BY DEF InodeType, Relinked, SatSub

LEMMA RenameDisplaces ==
  ASSUME NoDotsInPaths, IInv, NEW t, Unlinked(t),
         NEW row, inodes' = [i \in Inodes |->
                    IF i \in Displaced(t) THEN Deleted(inodes[i]) ELSE row[i]],
         \A i \in Inodes : Relinked(inodes[i], row[i]),
         t # NoInode => t \in Usable /\ t # Root /\ ~ IsDir(t)
  PROVE  Displaces(t) /\ counts' \in CountsType
<1>1. \A i \in Inodes : inodes[i] \in InodeType
  BY DEF IInv, TypeOK
<1>2. CASE t = NoInode
  <2>1. Displaced(t) = {}
    BY <1>2 DEF Displaced
  <2>2. inodes' = [i \in Inodes |-> row[i]]
    BY <2>1
  <2>3. blockBitmap' = blockBitmap /\ inodeBitmap' = inodeBitmap /\ counts' = counts
    BY <1>2, <2>1 DEF Unlinked
  <2>4. KeepsInodes
    BY <2>2, <2>3 DEF KeepsInodes, Relinked
  <2>. QED
    BY <1>2, <2>3, <2>4 DEF Displaces, IInv, TypeOK
<1>3. CASE t # NoInode
  <2>1. Displaced(t) = {t} /\ t \in Inodes
    BY <1>3, UsableInodes DEF Displaced
  <2>2. blockBitmap' = blockBitmap \ OwnRun(inodes[t]) /\ inodeBitmap' = inodeBitmap \ {t}
    BY <2>1 DEF Unlinked
  <2>3. counts' = Freed(counts, inodes[t])
    BY <1>3 DEF Unlinked
  <2>4. Deleted(inodes[t]) \in InodeType /\ Deleted(inodes[t]).kind = inodes[t].kind
        /\ Deleted(inodes[t]).size = 0 /\ Deleted(inodes[t]).len = 0
    BY <1>1, <2>1, DeletedType
  <2>5. inodes'[t] = Deleted(inodes[t]) /\ \A i \in Inodes \ {t} : inodes'[i] = row[i]
    BY <2>1
  <2>6. inodes' \in [Inodes -> InodeType]
    BY <2>1, <2>4 DEF Relinked
  <2>7. FreesInode(t)
    BY <2>1, <2>2, <2>4, <2>5, <2>6 DEF FreesInode, Relinked
  <2>. QED
    BY <1>3, <2>1, <2>3, <2>7, FreedCounts DEF Displaces
<1>. QED
  BY <1>2, <1>3

LEMMA MoveFullRows ==
  ASSUME NoDotsInPaths, IInv, NEW d1, NEW s, NEW oldName, NEW d2, NEW t, NEW newName,
         Renames(d1, s, oldName, d2, t, newName), MoveFull(s, d2, t, newName)
  PROVE  /\ Displaces(t) /\ counts' \in CountsType
         /\ \A i \in Inodes : i # t => inodes'[i] = inodes[i]
<1>. DEFINE row == [i \in Inodes |-> inodes[i]]
<1>1. Unlinked(t)
  BY DEF MoveFull
<1>2. inodes' = [i \in Inodes |-> IF i \in Displaced(t) THEN Deleted(inodes[i])
                                                          ELSE row[i]]
  BY DEF MoveFull
<1>3. \A i \in Inodes : Relinked(inodes[i], row[i])
  BY LinksType DEF IInv, TypeOK
<1>4. t # NoInode => t \in Usable /\ t # Root /\ ~ IsDir(t)
  BY DEF Renames, Resolved
<1>5. \A i \in Inodes : i # t => inodes'[i] = inodes[i]
  BY <1>2 DEF Displaced
<1>. HIDE DEF row
<1>6. Displaces(t) /\ counts' \in CountsType
  BY <1>1, <1>2, <1>3, <1>4, RenameDisplaces
<1>. QED
  BY <1>5, <1>6

LEMMA MoveFullKeeps ==
  ASSUME NoDotsInPaths, IInv, NEW d1, NEW s, NEW oldName, NEW d2, NEW t, NEW newName,
         Renames(d1, s, oldName, d2, t, newName), MoveFull(s, d2, t, newName)
  PROVE  IInv'
<1>1. /\ dirBlocks' = AfterUnlink(d2, t, newName) /\ outcome' = "full"
      /\ diskCounts' = diskCounts \/ diskCounts' = counts'
  BY DEF MoveFull, Flush
<1>2. Displaces(t) /\ counts' \in CountsType
  BY MoveFullRows
<1>3. diskCounts' \in CountsType
  BY <1>1, <1>2 DEF IInv, TypeOK
<1>. QED
  BY <1>1, <1>2, <1>3, MoveFullIInv

(* The link counts after the move. *)
NewLinks(i, s, d1, d2) ==
  IF d1 # d2 /\ IsDir(s) /\ i = d1
    THEN SatSub(inodes[i].links, 1)
    ELSE IF d1 # d2 /\ IsDir(s) /\ i = d2 THEN inodes[i].links + 1
                                          ELSE inodes[i].links

LEMMA MovedRows ==
  ASSUME NoDotsInPaths, IInv, NEW d1, NEW s, NEW oldName, NEW d2, NEW t, NEW newName,
         Renames(d1, s, oldName, d2, t, newName), Moved(s, d1, oldName, d2, t, newName)
  PROVE  /\ Displaces(t) /\ counts' \in CountsType
         /\ \A i \in Inodes : i # t => inodes'[i].links = NewLinks(i, s, d1, d2)
<1>. DEFINE newParent == d1 # d2 /\ IsDir(s)
            row == [i \in Inodes |->
                      IF newParent /\ i = d1
                        THEN [inodes[i] EXCEPT !.links = SatSub(@, 1)]
                        ELSE IF newParent /\ i = d2
                               THEN [inodes[i] EXCEPT !.links = @ + 1]
                               ELSE inodes[i]]
<1>1. Unlinked(t)
  BY DEF Moved
<1>2. inodes' = [i \in Inodes |-> IF i \in Displaced(t) THEN Deleted(inodes[i])
                                                          ELSE row[i]]
  <2>. DEFINE new == [i \in Inodes |->
         CASE i \in Displaced(t)  -> Deleted(inodes[i])
           [] newParent /\ i = d1 -> [inodes[i] EXCEPT !.links = SatSub(@, 1)]
           [] newParent /\ i = d2 -> [inodes[i] EXCEPT !.links = @ + 1]
           [] OTHER               -> inodes[i]]
  <2>1. inodes' = new
    BY DEF Moved
  <2>2. \A i \in Inodes : new[i] = IF i \in Displaced(t) THEN Deleted(inodes[i])
                                                          ELSE row[i]
    <3>. SUFFICES ASSUME NEW i \in Inodes
         PROVE  new[i] = IF i \in Displaced(t) THEN Deleted(inodes[i]) ELSE row[i]
      OBVIOUS
    <3>1. newParent => d1 # d2
      OBVIOUS
    <3>2. i \in Displaced(t) => ~ (newParent /\ i = d1) /\ ~ (newParent /\ i = d2)
      <4>1. i \in Displaced(t) => ~ IsDir(i) /\ i \in Inodes
        BY DEF Displaced, Renames
      <4>2. IsDir(d1) /\ IsDir(d2)
        BY UsableInodes DEF Renames, DirRecs, IsDir
      <4>. QED
        BY <4>1, <4>2
    <3>. HIDE DEF newParent
    <3>. QED
      BY <3>1, <3>2
  <2>. HIDE DEF row
  <2>. QED
    BY <2>1, <2>2
<1>3. \A i \in Inodes : Relinked(inodes[i], row[i])
  <2>. HIDE DEF newParent
  <2>1. \A i \in Inodes : inodes[i] \in InodeType
    BY DEF IInv, TypeOK
  <2>. QED
    BY <2>1, LinksType
<1>4. t # NoInode => t \in Usable /\ t # Root /\ ~ IsDir(t)
  BY DEF Renames, Resolved
<1>5. \A i \in Inodes : i # t => inodes'[i].links = NewLinks(i, s, d1, d2)
  <2>1. \A i \in Inodes : row[i].links = NewLinks(i, s, d1, d2)
    <3>. HIDE DEF newParent
    <3>1. \A i \in Inodes : inodes[i] \in InodeType
      BY DEF IInv, TypeOK
    <3>2. newParent <=> d1 # d2 /\ IsDir(s)
      BY DEF newParent
    <3>. QED
      BY <3>1, <3>2 DEF InodeType, NewLinks
  <2>2. \A i \in Inodes : i # t => inodes'[i] = row[i]
    <3>. HIDE DEF row
    <3>. QED
      BY <1>2 DEF Displaced
  <2>. QED
    BY <2>1, <2>2
<1>. HIDE DEF row
<1>6. Displaces(t) /\ counts' \in CountsType
  BY <1>1, <1>2, <1>3, <1>4, RenameDisplaces
<1>. QED
  BY <1>5, <1>6

LEMMA MovedKeeps ==
  ASSUME NoDotsInPaths, IInv, NEW d1, NEW s, NEW oldName, NEW d2, NEW t, NEW newName,
         Renames(d1, s, oldName, d2, t, newName), s # t,
         ~ (d1 = d2 /\ oldName = newName), Moved(s, d1, oldName, d2, t, newName)
  PROVE  IInv'
<1>1. /\ outcome' = "ok" /\ diskCounts' = counts'
      /\ Fits(At(AfterUnlink(d2, t, newName), d2), newName)
      /\ dirBlocks' = AfterMove(AfterUnlink(d2, t, newName), s, d1, oldName, d2, newName)
  BY DEF Moved, Flush, At
<1>2. Displaces(t) /\ counts' \in CountsType
  BY MovedRows
<1>. QED
  BY <1>1, <1>2, MovedIInv

LEMMA RenameIInv ==
  ASSUME NoDotsInPaths, IInv, NEW oldPath \in Paths, NEW newPath \in Paths,
         NEW oldName \in PathNames, NEW newName \in PathNames,
         Rename(oldPath, oldName, newPath, newName)
  PROVE  IInv'
<1>. DEFINE d1 == OpenPath(oldPath)
            s  == Found(d1, oldName)
            d2 == OpenPath(newPath)
            t  == Found(d2, newName)
<1>1. CASE Refuse
  BY <1>1, DiskUnchanged DEF Refuse, IInv, TypeOK, Outcomes
<1>2. CASE outcome' = "same" /\ UNCHANGED <<disk, diskCounts, counts>>
  BY <1>2, DiskUnchanged DEF IInv, TypeOK, Outcomes
<1>3. CASE /\ s \in Inodes /\ IsDir(d2) /\ t # s
           /\ t # NoInode => ~ IsDir(t) /\ ~ IsDir(s)
           /\ \/ MoveFull(s, d2, t, newName)
              \/ Moved(s, d1, oldName, d2, t, newName)
  <2>1. Renames(d1, s, oldName, d2, t, newName)
    BY <1>3, RenameChecks
  <2>2. ~ (d1 = d2 /\ oldName = newName)
    BY <1>3
  <2>. HIDE DEF d1, s, d2, t
  <2>. QED
    BY <1>3, <2>1, <2>2, MoveFullKeeps, MovedKeeps
<1>. QED
  BY <1>1, <1>2, <1>3 DEF Rename, Found

-----------------------------------------------------------------------------
(* mkfs's image has the invariant, and every call keeps it.                *)
LEMMA InitImage ==
  ASSUME NoDotsInPaths, Init
  PROVE  /\ inodes[Root].kind = "dir" /\ inodes[Root].links = 2
         /\ inodes[Root].size = BlockSize /\ inodes[Root].start = RootBlock
         /\ inodes[Root].len = 1
         /\ \A i \in Inodes \ {Root} : inodes[i].kind = "none" /\ inodes[i].size = 0
                                        /\ inodes[i].len = 0
         /\ inodeBitmap = Reserved /\ Root \in Reserved /\ Reserved \subseteq Inodes
         /\ Usable = {Root} /\ DirRecs = {Root}
         /\ Block(Root) = FreshBlock(Root, Root)
<1>1. \A i \in Inodes : inodes[i] = IF i = Root THEN Inode("dir", 2, BlockSize, RootBlock, 1)
                                               ELSE Inode("none", 0, 0, 0, 0)
  BY DEF Init
<1>2. /\ inodes[Root].kind = "dir" /\ inodes[Root].links = 2
      /\ inodes[Root].size = BlockSize /\ inodes[Root].start = RootBlock
      /\ inodes[Root].len = 1
  BY <1>1, Constants DEF Inode
<1>3. \A i \in Inodes \ {Root} : inodes[i].kind = "none" /\ inodes[i].size = 0
                                 /\ inodes[i].len = 0
  BY <1>1 DEF Inode
<1>4. inodeBitmap = Reserved /\ Root \in Reserved /\ Reserved \subseteq Inodes
  BY Constants DEF Init, Reserved, Root, Inodes
<1>5. Usable = {Root} /\ DirRecs = {Root}
  <2>1. Usable = {Root}
    BY <1>4 DEF Usable
  <2>. QED
    BY <1>2, <2>1 DEF DirRecs
<1>6. Block(Root) = FreshBlock(Root, Root)
  <2>1. dirBlocks = [b \in Blocks |-> IF b = RootBlock THEN FreshBlock(Root, Root) ELSE {}]
        /\ RootBlock \in Blocks
    BY Constants DEF Init, Blocks
  <2>. QED
    BY <1>2, <2>1 DEF Block
<1>. QED
  BY <1>2, <1>3, <1>4, <1>5, <1>6

LEMMA InitIInv ==
  ASSUME NoDotsInPaths, Init
  PROVE  IInv
<1>1. \A i \in Inodes : inodes[i] = IF i = Root THEN Inode("dir", 2, BlockSize, RootBlock, 1)
                                               ELSE Inode("none", 0, 0, 0, 0)
  BY DEF Init
<1>2. /\ RootBlock \in Blocks /\ BlockSize \in Nat /\ BlockSize > 0
      /\ 0 \in 0 .. NumBlocks /\ 1 \in 0 .. NumBlocks
  BY Constants DEF Blocks
<1>3. /\ inodes[Root].kind = "dir" /\ inodes[Root].links = 2
      /\ inodes[Root].size = BlockSize /\ inodes[Root].start = RootBlock
      /\ inodes[Root].len = 1
  BY InitImage
<1>4. \A i \in Inodes \ {Root} : inodes[i].kind = "none" /\ inodes[i].size = 0
                                 /\ inodes[i].len = 0
  BY InitImage
<1>5. inodeBitmap = Reserved /\ Root \in Reserved /\ Reserved \subseteq Inodes
  BY InitImage
<1>6. Usable = {Root} /\ DirRecs = {Root}
  BY InitImage
<1>7. OwnRun(inodes[Root]) = {RootBlock}
  BY <1>2, <1>3, Constants DEF OwnRun, RunBits
<1>8. Block(Root) = FreshBlock(Root, Root) /\ AllSound(dirBlocks)
  <2>1. dirBlocks = [b \in Blocks |-> IF b = RootBlock THEN FreshBlock(Root, Root) ELSE {}]
    BY DEF Init
  <2>2. Sound(FreshBlock(Root, Root), Inodes)
    BY <1>5, FreshSound
  <2>3. Entry(12, BlockSize - 12, Root, "..", FtDir).name = ".."
    BY DEF Entry
  <2>4. DirectoryBlock(FreshBlock(Root, Root))
    BY <2>2, <2>3 DEF DirectoryBlock, FreshBlock
  <2>5. Block(Root) = FreshBlock(Root, Root)
    BY InitImage
  <2>6. dirBlocks \in [Blocks -> SUBSET EntryType]
    BY <2>1, <2>2, SoundIsTyped
  <2>. QED
    BY <1>6, <2>4, <2>5, <2>6 DEF AllSound, At, Block
<1>9. TypeOK
  <2>1. blockBitmap \subseteq Blocks
    BY Constants DEF Init, Blocks
  <2>2. inodes \in [Inodes -> InodeType]
    <3>1. Inode("dir", 2, BlockSize, RootBlock, 1) \in InodeType
      BY <1>2 DEF Inode, InodeType
    <3>2. Inode("none", 0, 0, 0, 0) \in InodeType
      BY <1>2, Constants DEF Inode, InodeType
    <3>. QED
      BY <3>1, <3>2 DEF Init
  <2>3. counts \in CountsType /\ diskCounts = counts
    <3>1. NumBlocks - RootBlock - 1 \in Nat /\ NumInodes - 10 \in Nat
      BY Constants
    <3>. QED
      BY <3>1 DEF Init, CountsType
  <2>. QED
    BY <1>5, <1>8, <2>1, <2>2, <2>3 DEF Init, TypeOK, AllSound
<1>10. MetadataMarked
  BY <1>5, <1>6, Constants DEF MetadataMarked, Init
<1>11. FreedBlank /\ SizesFitRuns
  BY <1>3, <1>4, <1>6 DEF FreedBlank, SizesFitRuns
<1>12. BlocksOwnedOnce
  <2>1. RootBlock \in blockBitmap \ (0 .. (RootBlock - 1))
    BY Constants DEF Init
  <2>2. \A i \in Inodes \ Usable : OwnRun(inodes[i]) = {}
    BY <1>4, <1>6 DEF OwnRun
  <2>. QED
    BY <1>6, <1>7, <2>1, <2>2 DEF BlocksOwnedOnce
<1>13. \A n \in Names, i \in Inodes : ~ Refers(Block(Root), n, i)
  <2>1. \A e \in FreshBlock(Root, Root) : e.name \notin Names
    BY Constants DEF FreshBlock, Entry
  <2>. QED
    BY <1>8, <2>1 DEF Refers
<1>14. DirsSound
  BY <1>2, <1>3, <1>6, <1>8 DEF DirsSound, AllSound, At, Block
<1>15. RefsUsable /\ RefsUnique
  BY <1>6, <1>13 DEF RefsUsable, RefsUnique
<1>. QED
  BY <1>9, <1>10, <1>11, <1>12, <1>14, <1>15 DEF IInv

LEMMA CreatesIInv ==
  ASSUME NoDotsInPaths, IInv, NEW path \in Paths, NEW name \in PathNames,
         \/ Mkdir(path, name)
         \/ \E size \in FileSizes : CreateFile(path, name, size)
         \/ \E size \in TargetSizes : Symlink(path, name, size)
  PROVE  IInv'
<1>1. CASE Mkdir(path, name)
  <2>1. Shape("dir", BlockSize, 1)
    BY Constants DEF Shape
  <2>. QED
    BY <1>1, <2>1, InsertIInv DEF Mkdir
<1>2. ASSUME NEW size \in FileSizes, CreateFile(path, name, size) PROVE IInv'
  <2>1. Shape("reg", size, CeilDiv(size, BlockSize))
    BY Constants, CeilDivBounds, SMTT(30) DEF Shape
  <2>. QED
    BY <1>2, <2>1, InsertIInv DEF CreateFile
<1>3. ASSUME NEW size \in TargetSizes, Symlink(path, name, size) PROVE IInv'
  <2>1. CASE Refuse
    BY <2>1, DiskUnchanged DEF Refuse, IInv, TypeOK, Outcomes
  <2>2. CASE Insert(OpenPath(path), name, "lnk", 1, size, 0)
    <3>1. Shape("lnk", size, 0)
      BY Constants DEF Shape
    <3>. QED
      BY <2>2, <3>1, InsertIInv
  <2>. QED
    BY <1>3, <2>1, <2>2 DEF Symlink
<1>. QED
  BY <1>1, <1>2, <1>3

LEMMA NextIInv ==
  ASSUME NoDotsInPaths, IInv, [Next]_vars
  PROVE  IInv'
<1>1. ASSUME NEW path \in Paths, NEW name \in PathNames,
             \/ Mkdir(path, name)
             \/ \E size \in FileSizes : CreateFile(path, name, size)
             \/ \E size \in TargetSizes : Symlink(path, name, size)
      PROVE  IInv'
  BY <1>1, CreatesIInv
<1>2. ASSUME NEW path \in Paths, NEW name \in PathNames, Unlink(path, name)
      PROVE  IInv'
  BY <1>2, UnlinkIInv
<1>3. ASSUME NEW path \in Paths, NEW name \in PathNames, Rmdir(path, name)
      PROVE  IInv'
  BY <1>3, RmdirIInv
<1>4. ASSUME NEW path \in Paths, NEW name \in PathNames,
             NEW newPath \in Paths, NEW newName \in PathNames,
             Rename(path, name, newPath, newName)
      PROVE  IInv'
  BY <1>4, RenameIInv
<1>5. ASSUME NEW path \in FullPaths, NEW size \in FileSizes, Truncate(path, size)
      PROVE  IInv'
  BY <1>5, TruncateIInv
<1>6. ASSUME NEW path \in FullPaths, SetAttr(path) PROVE IInv'
  BY <1>6, QuietIInv
<1>7. CASE Reopen
  BY <1>7, QuietIInv
<1>8. CASE UNCHANGED vars
  BY <1>8, DiskUnchanged DEF vars, IInv, TypeOK, Outcomes
<1>. QED
  BY <1>1, <1>2, <1>3, <1>4, <1>5, <1>6, <1>7, <1>8 DEF Next

-----------------------------------------------------------------------------
(* As long as no path names a dot the image stays readable: the bitmaps    *)
(* name real blocks and inodes, every extent lies inside the image, and    *)
(* the block of every allocated directory, one that a failed mkdir left    *)
(* behind included, is covered by its records from the first byte to the   *)
(* last, without overlap and without a live name twice: the walk of lookup *)
(* or read_dir never meets a record that runs out of the block.            *)
THEOREM FilesystemReadable ==
  ASSUME NoDotsInPaths PROVE Spec => []ImageReadable
<1>1. Init => IInv
  BY InitIInv
<1>2. IInv /\ [Next]_vars => IInv'
  BY NextIInv
<1>3. IInv => ImageReadable
  <2>. SUFFICES ASSUME IInv, NEW d \in {i \in Usable : IsDir(i) /\ inodes[i].len > 0}
                PROVE  /\ inodes[d].len = 1 /\ Tiled(DirEntries(inodes[d]))
                       /\ \A e, f \in Live(DirEntries(inodes[d])) : e.name = f.name => e = f
    BY DEF ImageReadable, IInv
  <2>1. d \in DirRecs
    BY DEF DirRecs, IsDir
  <2>2. inodes[d].len = 1 /\ Sound(Block(d), Inodes)
    BY <2>1 DEF IInv, DirsSound, DirectoryBlock
  <2>3. DirEntries(inodes[d]) = Block(d)
    BY <2>2 DEF DirEntries, Block
  <2>. QED
    BY <2>2, <2>3 DEF Sound, Live
<1>. QED
  BY <1>1, <1>2, <1>3, PTL DEF Spec

(* No block belongs to two inodes, none that an inode owns is free in the  *)
(* bitmap or part of the metadata, and a freed inode owns none, also after *)
(* calls that fail half way, renames over a file, and truncates.           *)
THEOREM BlocksNeverShared ==
  ASSUME NoDotsInPaths PROVE Spec => []BlocksOwnedOnce
<1>1. Init => IInv
  BY InitIInv
<1>2. IInv /\ [Next]_vars => IInv'
  BY NextIInv
<1>3. IInv => BlocksOwnedOnce
  BY DEF IInv
<1>. QED
  BY <1>1, <1>2, <1>3, PTL DEF Spec

(* A regular file has the blocks its size needs and no more, however it    *)
(* was created and truncated.                                              *)
THEOREM RunsFitSizes ==
  ASSUME NoDotsInPaths PROVE Spec => []SizesFitRuns
<1>1. Init => IInv
  BY InitIInv
<1>2. IInv /\ [Next]_vars => IInv'
  BY NextIInv
<1>3. IInv => SizesFitRuns
  BY DEF IInv
<1>. QED
  BY <1>1, <1>2, <1>3, PTL DEF Spec

-----------------------------------------------------------------------------
(* The free counts.  What leaves a set of free things, and what returns.   *)
TakenFrom(U, B, A) ==
  A \subseteq U \ B =>
    /\ Cardinality(A) \in Nat
    /\ Cardinality(A) <= Cardinality(U \ B)
    /\ Cardinality(U \ (B \cup A)) = Cardinality(U \ B) - Cardinality(A)

ReturnedTo(U, B, A) ==
  B \subseteq U /\ A \subseteq B =>
    /\ Cardinality(A) \in Nat
    /\ Cardinality(U \ (B \ A)) = Cardinality(U \ B) + Cardinality(A)

LEMMA SomeTaken ==
  ASSUME NEW U, IsFiniteSet(U), NEW B, NEW A
  PROVE  TakenFrom(U, B, A)
<1>. SUFFICES ASSUME A \subseteq U \ B
     PROVE  /\ Cardinality(A) \in Nat
            /\ Cardinality(A) <= Cardinality(U \ B)
            /\ Cardinality(U \ (B \cup A)) = Cardinality(U \ B) - Cardinality(A)
  BY DEF TakenFrom
<1>1. IsFiniteSet(U \ B)
  BY FS_Difference
<1>2. IsFiniteSet(A) /\ Cardinality(A) <= Cardinality(U \ B)
  BY <1>1, FS_Subset
<1>3. Cardinality((U \ B) \ A) = Cardinality(U \ B) - Cardinality((U \ B) \cap A)
  BY <1>1, FS_Difference
<1>4. (U \ B) \ A = U \ (B \cup A) /\ (U \ B) \cap A = A
  OBVIOUS
<1>5. Cardinality(U \ (B \cup A)) = Cardinality(U \ B) - Cardinality(A)
  BY <1>3, <1>4
<1>6. Cardinality(U \ B) \in Nat /\ Cardinality(A) \in Nat
  BY <1>1, <1>2, FS_CardinalityType
<1>. QED
  BY <1>2, <1>5, <1>6

LEMMA SomeReturned ==
  ASSUME NEW U, IsFiniteSet(U), NEW B, NEW A
  PROVE  ReturnedTo(U, B, A)
<1>. SUFFICES ASSUME B \subseteq U, A \subseteq B
     PROVE  /\ Cardinality(A) \in Nat
            /\ Cardinality(U \ (B \ A)) = Cardinality(U \ B) + Cardinality(A)
  BY DEF ReturnedTo
<1>1. IsFiniteSet(U \ B) /\ IsFiniteSet(A)
  BY FS_Difference, FS_Subset
<1>2. Cardinality((U \ B) \cup A)
        = Cardinality(U \ B) + Cardinality(A) - Cardinality((U \ B) \cap A)
  BY <1>1, FS_Union
<1>3. (U \ B) \cup A = U \ (B \ A) /\ (U \ B) \cap A = {}
  OBVIOUS
<1>4. Cardinality({}) = 0
  BY FS_EmptySet
<1>5. Cardinality(U \ B) \in Nat /\ Cardinality(A) \in Nat
  BY <1>1, FS_CardinalityType
<1>6. Cardinality(U \ (B \ A)) = Cardinality(U \ B) + Cardinality(A) - 0
  BY <1>2, <1>3, <1>4
<1>. QED
  BY <1>5, <1>6

LEMMA FreeCounts ==
  ASSUME NoDotsInPaths, IInv
  PROVE  /\ IsFiniteSet(Blocks) /\ IsFiniteSet(Inodes)
         /\ FreeBlocks \in Nat /\ FreeInodes \in Nat
         /\ counts \in CountsType /\ diskCounts \in CountsType
         /\ \A c \in {counts, diskCounts} :
              c.freeBlocks \in Nat /\ c.freeInodes \in Nat
<1>1. IsFiniteSet(Blocks) /\ IsFiniteSet(Inodes)
  <2>1. IsFiniteSet(0 .. (NumBlocks - 1))
    BY Constants, FS_Interval
  <2>2. IsFiniteSet(1 .. NumInodes)
    BY Constants, FS_Interval
  <2>. QED
    BY <2>1, <2>2 DEF Blocks, Inodes
<1>2. FreeBlocks \in Nat /\ FreeInodes \in Nat
  BY <1>1, FS_Difference, FS_CardinalityType DEF FreeBlocks, FreeInodes
<1>. QED
  BY <1>1, <1>2 DEF IInv, TypeOK, CountsType

(* A step after which the handle's counts are as far from the bitmaps as   *)
(* before, and those on disk are either the handle's or were left behind   *)
(* by a call that only took.                                               *)
Tracks ==
  /\ counts'.freeBlocks - FreeBlocks' = counts.freeBlocks - FreeBlocks
  /\ counts'.freeInodes - FreeInodes' = counts.freeInodes - FreeInodes
  /\ \/ diskCounts' = counts'
     \/ /\ UNCHANGED diskCounts
        /\ FreeBlocks' <= FreeBlocks /\ FreeInodes' <= FreeInodes

LEMMA TracksWell ==
  ASSUME NoDotsInPaths, IInv, IInv', CountsNeverLow, Tracks
  PROVE  CountsNeverLow' /\ Drift' = Drift
<1>1. /\ FreeBlocks \in Nat /\ FreeInodes \in Nat
      /\ counts.freeBlocks \in Nat /\ counts.freeInodes \in Nat
      /\ diskCounts.freeBlocks \in Nat /\ diskCounts.freeInodes \in Nat
  BY FreeCounts
<1>2. /\ FreeBlocks' \in Nat /\ FreeInodes' \in Nat
      /\ counts'.freeBlocks \in Nat /\ counts'.freeInodes \in Nat
  <2>1. /\ IsFiniteSet(Blocks) /\ IsFiniteSet(Inodes)
    BY FreeCounts
  <2>2. FreeBlocks' \in Nat /\ FreeInodes' \in Nat
    BY <2>1, FS_Difference, FS_CardinalityType DEF FreeBlocks, FreeInodes
  <2>. QED
    BY <2>2 DEF IInv, TypeOK, CountsType
<1>3. /\ counts.freeBlocks >= FreeBlocks /\ counts.freeInodes >= FreeInodes
      /\ diskCounts.freeBlocks >= FreeBlocks /\ diskCounts.freeInodes >= FreeInodes
  BY DEF CountsNeverLow
<1>4. counts'.freeBlocks >= FreeBlocks' /\ counts'.freeInodes >= FreeInodes'
  BY <1>1, <1>2, <1>3 DEF Tracks
<1>5. diskCounts'.freeBlocks >= FreeBlocks' /\ diskCounts'.freeInodes >= FreeInodes'
  BY <1>1, <1>2, <1>3, <1>4 DEF Tracks
<1>. QED
  BY <1>4, <1>5 DEF CountsNeverLow, Drift, Tracks

LEMMA TracksStill ==
  ASSUME NoDotsInPaths, IInv, UNCHANGED <<disk, diskCounts, counts>>
  PROVE  Tracks
<1>1. UNCHANGED <<blockBitmap, inodeBitmap, counts, diskCounts>>
  BY DEF disk
<1>2. FreeBlocks \in Nat /\ FreeInodes \in Nat
  BY FreeCounts
<1>. QED
  BY <1>1, <1>2 DEF Tracks, FreeBlocks, FreeInodes

(* An inode and a run of n blocks are taken; neither count can be at zero. *)
LEMMA TracksTaken ==
  ASSUME NoDotsInPaths, IInv, CountsNeverLow, NEW i \in Inodes, i \notin inodeBitmap,
         NEW n \in Nat, NEW A \in SUBSET (Blocks \ blockBitmap), Cardinality(A) = n,
         inodeBitmap' = inodeBitmap \cup {i}, blockBitmap' = blockBitmap \cup A,
         counts'.freeInodes = SatSub(counts.freeInodes, 1),
         counts'.freeBlocks = SatSub(counts.freeBlocks, n),
         diskCounts' = counts' \/ UNCHANGED diskCounts
  PROVE  Tracks
<1>1. /\ IsFiniteSet(Blocks) /\ IsFiniteSet(Inodes)
      /\ FreeBlocks \in Nat /\ FreeInodes \in Nat
      /\ counts.freeBlocks \in Nat /\ counts.freeInodes \in Nat
  BY FreeCounts
<1>2. n <= FreeBlocks /\ FreeBlocks' = FreeBlocks - n
  <2>1. FreeBlocks' = Cardinality(Blocks \ (blockBitmap \cup A))
    BY DEF FreeBlocks
  <2>2. /\ Cardinality(A) <= Cardinality(Blocks \ blockBitmap)
        /\ Cardinality(Blocks \ (blockBitmap \cup A))
             = Cardinality(Blocks \ blockBitmap) - Cardinality(A)
    <3>1. TakenFrom(Blocks, blockBitmap, A)
      BY <1>1, SomeTaken
    <3>. QED
      BY <3>1 DEF TakenFrom
  <2>. QED
    BY <2>1, <2>2 DEF FreeBlocks
<1>3. 1 <= FreeInodes /\ FreeInodes' = FreeInodes - 1
  <2>1. Cardinality({i}) = 1
    BY FS_Singleton
  <2>2. FreeInodes' = Cardinality(Inodes \ (inodeBitmap \cup {i}))
    BY DEF FreeInodes
  <2>3. {i} \subseteq Inodes \ inodeBitmap
    OBVIOUS
  <2>4. /\ Cardinality({i}) <= Cardinality(Inodes \ inodeBitmap)
        /\ Cardinality(Inodes \ (inodeBitmap \cup {i}))
             = Cardinality(Inodes \ inodeBitmap) - Cardinality({i})
    <3>1. TakenFrom(Inodes, inodeBitmap, {i})
      BY <1>1, SomeTaken
    <3>. QED
      BY <2>3, <3>1 DEF TakenFrom
  <2>. QED
    BY <2>1, <2>2, <2>4 DEF FreeInodes
<1>4. counts.freeBlocks >= FreeBlocks /\ counts.freeInodes >= FreeInodes
  BY DEF CountsNeverLow
<1>5. /\ counts'.freeInodes = counts.freeInodes - 1
      /\ counts'.freeBlocks = counts.freeBlocks - n
  BY <1>1, <1>2, <1>3, <1>4 DEF SatSub
<1>. QED
  BY <1>1, <1>2, <1>3, <1>5 DEF Tracks

(* Blocks and inodes are given back, counted one by one.                   *)
LEMMA TracksReturned ==
  ASSUME NoDotsInPaths, IInv, NEW A, A \subseteq blockBitmap, NEW I, I \subseteq inodeBitmap,
         blockBitmap' = blockBitmap \ A, inodeBitmap' = inodeBitmap \ I,
         counts'.freeBlocks = counts.freeBlocks + Cardinality(A),
         counts'.freeInodes = counts.freeInodes + Cardinality(I),
         diskCounts' = counts'
  PROVE  Tracks
<1>1. /\ IsFiniteSet(Blocks) /\ IsFiniteSet(Inodes)
      /\ FreeBlocks \in Nat /\ FreeInodes \in Nat
      /\ counts.freeBlocks \in Nat /\ counts.freeInodes \in Nat
      /\ blockBitmap \subseteq Blocks /\ inodeBitmap \subseteq Inodes
  BY FreeCounts DEF IInv, TypeOK
<1>2. Cardinality(A) \in Nat /\ FreeBlocks' = FreeBlocks + Cardinality(A)
  <2>1. FreeBlocks' = Cardinality(Blocks \ (blockBitmap \ A))
    BY DEF FreeBlocks
  <2>2. /\ Cardinality(A) \in Nat
        /\ Cardinality(Blocks \ (blockBitmap \ A))
             = Cardinality(Blocks \ blockBitmap) + Cardinality(A)
    <3>1. ReturnedTo(Blocks, blockBitmap, A)
      BY <1>1, SomeReturned
    <3>. QED
      BY <1>1, <3>1 DEF ReturnedTo
  <2>. QED
    BY <2>1, <2>2 DEF FreeBlocks
<1>3. Cardinality(I) \in Nat /\ FreeInodes' = FreeInodes + Cardinality(I)
  <2>1. FreeInodes' = Cardinality(Inodes \ (inodeBitmap \ I))
    BY DEF FreeInodes
  <2>2. /\ Cardinality(I) \in Nat
        /\ Cardinality(Inodes \ (inodeBitmap \ I))
             = Cardinality(Inodes \ inodeBitmap) + Cardinality(I)
    <3>1. ReturnedTo(Inodes, inodeBitmap, I)
      BY <1>1, SomeReturned
    <3>. QED
      BY <1>1, <3>1 DEF ReturnedTo
  <2>. QED
    BY <2>1, <2>2 DEF FreeInodes
<1>. QED
  BY <1>1, <1>2, <1>3 DEF Tracks

LEMMA InsertTracks ==
  ASSUME NoDotsInPaths, IInv, CountsNeverLow, NEW d, NEW name, NEW kind, NEW links,
         NEW size, NEW n \in Nat, Insert(d, name, kind, links, size, n)
  PROVE  Tracks
<1>1. CASE Refuse
  BY <1>1, TracksStill DEF Refuse
<1>2. CASE NoInodeLeft
  BY <1>2, TracksStill DEF NoInodeLeft
<1>3. counts \in CountsType
  BY FreeCounts
<1>4. ASSUME NEW i \in Inodes, FirstFreeInode(i), NoRunLeft(i, n) PROVE Tracks
  <2>1. i \notin inodeBitmap
    BY <1>4, FirstFreeIsFree
  <2>2. Cardinality({}) = 0 /\ {} \in SUBSET (Blocks \ blockBitmap)
    BY FS_EmptySet
  <2>3. /\ inodeBitmap' = inodeBitmap \cup {i} /\ blockBitmap' = blockBitmap \cup {}
        /\ counts' = [counts EXCEPT !.freeInodes = SatSub(@, 1)]
        /\ UNCHANGED diskCounts
    BY <1>4 DEF NoRunLeft
  <2>4. /\ counts'.freeInodes = SatSub(counts.freeInodes, 1)
        /\ counts'.freeBlocks = SatSub(counts.freeBlocks, 0)
    BY <1>3, <2>3 DEF CountsType, SatSub
  <2>. QED
    BY <2>1, <2>2, <2>3, <2>4, TracksTaken
<1>5. ASSUME NEW i \in Inodes, FirstFreeInode(i), NEW s \in Blocks, Allocates(n, s),
             NEW rec, rec.start = s, rec.len = n,
             ParentFull(i, d, name, rec) \/ Linked(i, d, name, rec)
      PROVE  Tracks
  <2>1. i \notin inodeBitmap
    BY <1>5, FirstFreeIsFree
  <2>2. RunBits(s, n) \in SUBSET (Blocks \ blockBitmap) /\ Cardinality(RunBits(s, n)) = n
    <3>1. s \in Nat /\ s < NumBlocks
      BY Constants DEF Blocks
    <3>2. CASE n = 0
      <4>1. RunBits(s, n) = {}
        BY <3>1, <3>2 DEF RunBits
      <4>. QED
        BY <3>2, <4>1, FS_EmptySet
    <3>3. CASE n # 0
      <4>1. RunBits(s, n) \cap blockBitmap = {} /\ s + n <= NumBlocks
        BY <1>5, <3>3 DEF Allocates, IsFirstFreeRun, IsFreeRun
      <4>2. RunBits(s, n) \subseteq Blocks
        BY <3>1, <3>3, <4>1, Constants DEF RunBits, Blocks
      <4>3. Cardinality(s .. (s + n - 1)) = IF s > s + n - 1 THEN 0 ELSE (s + n - 1) - s + 1
        BY <3>1, FS_Interval
      <4>4. Cardinality(RunBits(s, n)) = n
        BY <3>1, <3>3, <4>3 DEF RunBits
      <4>. QED
        BY <4>1, <4>2, <4>4
    <3>. QED
      BY <3>2, <3>3
  <2>3. Allocated(i, s, n) /\ (diskCounts' = counts' \/ UNCHANGED diskCounts)
    BY <1>5 DEF ParentFull, Linked, Flush
  <2>4. /\ inodeBitmap' = inodeBitmap \cup {i}
        /\ blockBitmap' = blockBitmap \cup RunBits(s, n)
        /\ counts'.freeInodes = SatSub(counts.freeInodes, 1)
        /\ counts'.freeBlocks = SatSub(counts.freeBlocks, n)
    BY <1>3, <2>3 DEF Allocated, CountsType
  <2>. QED
    BY <2>1, <2>2, <2>3, <2>4, TracksTaken
<1>6. ASSUME NEW i \in Inodes, FirstFreeInode(i), NEW s \in Blocks, Allocates(n, s),
             \/ ParentFull(i, d, name, Inode(kind, links, size, s, n))
             \/ Linked(i, d, name, Inode(kind, links, size, s, n))
      PROVE  Tracks
  <2>1. Inode(kind, links, size, s, n).start = s /\ Inode(kind, links, size, s, n).len = n
    BY DEF Inode
  <2>. QED
    BY <1>5, <1>6, <2>1
<1>. QED
  BY <1>1, <1>2, <1>4, <1>6 DEF Insert

(* An inode in use is given back, its run with it. *)
LEMMA FreedTracks ==
  ASSUME NoDotsInPaths, IInv, NEW t \in Usable, t # Root,
         blockBitmap' = blockBitmap \ OwnRun(inodes[t]), inodeBitmap' = inodeBitmap \ {t},
         counts'.freeBlocks = Freed(counts, inodes[t]).freeBlocks,
         counts'.freeInodes = Freed(counts, inodes[t]).freeInodes,
         diskCounts' = counts'
  PROVE  Tracks
<1>1. counts \in CountsType
  BY FreeCounts
<1>2. /\ Freed(counts, inodes[t]).freeBlocks
           = counts.freeBlocks + Cardinality(OwnRun(inodes[t]))
      /\ Freed(counts, inodes[t]).freeInodes = counts.freeInodes + 1
  BY <1>1 DEF Freed, CountsType
<1>3. OwnRun(inodes[t]) \subseteq blockBitmap /\ {t} \subseteq inodeBitmap
  BY DEF IInv, BlocksOwnedOnce, Usable
<1>4. Cardinality({t}) = 1
  BY FS_Singleton
<1>. QED
  BY <1>2, <1>3, <1>4, TracksReturned

LEMMA UnlinkTracks ==
  ASSUME NoDotsInPaths, IInv, NEW path \in Paths, NEW name \in PathNames,
         Unlink(path, name)
  PROVE  Tracks
<1>. DEFINE d == OpenPath(path)
            t == Found(d, name)
<1>1. CASE Refuse
  BY <1>1, TracksStill DEF Refuse
<1>2. CASE /\ t \in Inodes /\ ~ IsDir(t)
           /\ blockBitmap' = blockBitmap \ OwnRun(inodes[t])
           /\ inodeBitmap' = inodeBitmap \ {t}
           /\ counts' = Freed(counts, inodes[t])
           /\ Flush
  <2>1. t \in Usable /\ t # Root
    BY <1>2, FoundResolves, Constants
       DEF NoInode, Resolved, IInv, MetadataMarked, DirRecs, IsDir
  <2>. HIDE DEF t
  <2>. QED
    BY <1>2, <2>1, FreedTracks DEF Flush
<1>. QED
  BY <1>1, <1>2 DEF Unlink, Found

LEMMA RmdirTracks ==
  ASSUME NoDotsInPaths, IInv, NEW path \in Paths, NEW name \in PathNames,
         Rmdir(path, name)
  PROVE  Tracks
<1>. DEFINE d == OpenPath(path)
            t == Found(d, name)
<1>1. CASE Refuse
  BY <1>1, TracksStill DEF Refuse
<1>2. CASE /\ t # Root /\ IsDir(t)
           /\ blockBitmap' = blockBitmap \ OwnRun(inodes[t])
           /\ inodeBitmap' = inodeBitmap \ {t}
           /\ counts' = [Freed(counts, inodes[t]) EXCEPT !.usedDirs = SatSub(@, 1)]
           /\ Flush
  <2>1. t \in Usable
    BY <1>2, FoundResolves, Constants DEF NoInode, Resolved, IsDir
  <2>. HIDE DEF t
  <2>2. Freed(counts, inodes[t]) \in CountsType
    BY <2>1, UsableInodes, FreedCounts
  <2>3. /\ counts'.freeBlocks = Freed(counts, inodes[t]).freeBlocks
        /\ counts'.freeInodes = Freed(counts, inodes[t]).freeInodes
    BY <1>2, <2>2 DEF CountsType
  <2>. QED
    BY <1>2, <2>1, <2>3, FreedTracks DEF Flush
<1>. QED
  BY <1>1, <1>2 DEF Rmdir, Found

LEMMA TruncateTracks ==
  ASSUME NoDotsInPaths, IInv, NEW path \in FullPaths, NEW size \in FileSizes,
         Truncate(path, size)
  PROVE  Tracks
<1>. DEFINE i == OpenPath(path)
            kept == CeilDiv(size, BlockSize)
            tail == RunBits(inodes[i].start, inodes[i].len) \ RunBits(inodes[i].start, kept)
<1>1. CASE UNCHANGED <<disk, diskCounts, counts>>
  BY <1>1, TracksStill
<1>2. CASE UNCHANGED <<blockBitmap, inodeBitmap, counts>> /\ Flush
  <2>1. FreeBlocks \in Nat /\ FreeInodes \in Nat
    BY FreeCounts
  <2>2. FreeBlocks' = FreeBlocks /\ FreeInodes' = FreeInodes
    BY <1>2 DEF FreeBlocks, FreeInodes
  <2>. QED
    BY <1>2, <2>1, <2>2 DEF Tracks, Flush
<1>3. CASE /\ i \in Inodes /\ size < inodes[i].size
           /\ blockBitmap' = blockBitmap \ tail /\ UNCHANGED inodeBitmap
           /\ counts' = [counts EXCEPT !.freeBlocks = @ + Cardinality(tail)]
           /\ Flush
  <2>1. i \in Usable
    BY <1>3, PathResolves, Constants DEF Resolved, NoInode
  <2>. HIDE DEF i
  <2>2. inodes[i].size \in Nat /\ size \in Nat
    BY <1>3, InodeFields, Constants DEF IInv
  <2>3. tail \subseteq blockBitmap
    <3>1. OwnRun(inodes[i]) = RunBits(inodes[i].start, inodes[i].len)
      BY <1>3, <2>2 DEF OwnRun
    <3>. QED
      BY <2>1, <3>1 DEF IInv, BlocksOwnedOnce
  <2>4. counts \in CountsType
    BY FreeCounts
  <2>. HIDE DEF tail
  <2>5. /\ counts'.freeBlocks = counts.freeBlocks + Cardinality(tail)
        /\ counts'.freeInodes = counts.freeInodes + Cardinality({})
    BY <1>3, <2>4, FS_EmptySet DEF CountsType
  <2>6. inodeBitmap' = inodeBitmap \ {} /\ diskCounts' = counts'
    BY <1>3 DEF Flush
  <2>. QED
    BY <1>3, <2>3, <2>5, <2>6, TracksReturned
<1>. QED
  BY <1>1, <1>2, <1>3 DEF Truncate, Grow, Shrink, Refuse

LEMMA RenameTracks ==
  ASSUME NoDotsInPaths, IInv, NEW oldPath \in Paths, NEW newPath \in Paths,
         NEW oldName \in PathNames, NEW newName \in PathNames,
         Rename(oldPath, oldName, newPath, newName)
  PROVE  Tracks
<1>. DEFINE d1 == OpenPath(oldPath)
            s  == Found(d1, oldName)
            d2 == OpenPath(newPath)
            t  == Found(d2, newName)
<1>1. CASE UNCHANGED <<disk, diskCounts, counts>>
  BY <1>1, TracksStill
<1>2. CASE /\ s \in Inodes /\ IsDir(d2) /\ t # s
           /\ t # NoInode => ~ IsDir(t) /\ ~ IsDir(s)
           /\ \/ MoveFull(s, d2, t, newName)
              \/ Moved(s, d1, oldName, d2, t, newName)
  <2>1. Renames(d1, s, oldName, d2, t, newName)
    BY <1>2, RenameChecks
  <2>. HIDE DEF d1, s, d2, t
  <2>2. CASE t = NoInode
    <3>1. blockBitmap' = blockBitmap /\ inodeBitmap' = inodeBitmap /\ counts' = counts
      BY <1>2, <2>2 DEF MoveFull, Moved, Unlinked, Displaced
    <3>2. diskCounts' = diskCounts \/ diskCounts' = counts'
      BY <1>2 DEF MoveFull, Moved, Flush
    <3>3. FreeBlocks \in Nat /\ FreeInodes \in Nat
      BY FreeCounts
    <3>. QED
      BY <3>1, <3>2, <3>3 DEF Tracks, FreeBlocks, FreeInodes
  <2>3. CASE t # NoInode
    <3>1. t \in Usable /\ t # Root
      BY <2>1, <2>3 DEF Renames, Resolved
    <3>2. Unlinked(t) /\ diskCounts' = counts'
      BY <1>2, <2>3 DEF MoveFull, Moved, Flush
    <3>3. /\ blockBitmap' = blockBitmap \ OwnRun(inodes[t])
          /\ inodeBitmap' = inodeBitmap \ {t}
          /\ counts' = Freed(counts, inodes[t])
      BY <2>3, <3>2 DEF Unlinked, Displaced
    <3>. QED
      BY <3>1, <3>2, <3>3, FreedTracks
  <2>. QED
    BY <2>2, <2>3
<1>. QED
  BY <1>1, <1>2 DEF Rename, Refuse, Found

LEMMA NextTracks ==
  ASSUME NoDotsInPaths, IInv, CountsNeverLow, [Next]_vars
  PROVE  Tracks \/ Reopen
<1>1. ASSUME NEW path \in Paths, NEW name \in PathNames, Mkdir(path, name) PROVE Tracks
  BY <1>1, InsertTracks DEF Mkdir
<1>2. ASSUME NEW path \in Paths, NEW name \in PathNames, NEW size \in FileSizes,
             CreateFile(path, name, size)
      PROVE  Tracks
  <2>1. CeilDiv(size, BlockSize) \in Nat
    BY Constants, CeilDivBounds, SMTT(30)
  <2>. QED
    BY <1>2, <2>1, InsertTracks DEF CreateFile
<1>3. ASSUME NEW path \in Paths, NEW name \in PathNames, NEW size, Symlink(path, name, size)
      PROVE  Tracks
  BY <1>3, InsertTracks, TracksStill DEF Symlink, Refuse
<1>4. ASSUME NEW path \in Paths, NEW name \in PathNames,
             Unlink(path, name) \/ Rmdir(path, name)
      PROVE  Tracks
  BY <1>4, UnlinkTracks, RmdirTracks
<1>5. ASSUME NEW path \in Paths, NEW name \in PathNames,
             NEW newPath \in Paths, NEW newName \in PathNames,
             Rename(path, name, newPath, newName)
      PROVE  Tracks
  BY <1>5, RenameTracks
<1>6. ASSUME NEW path \in FullPaths, NEW size \in FileSizes, Truncate(path, size)
      PROVE  Tracks
  BY <1>6, TruncateTracks
<1>7. ASSUME NEW path \in FullPaths, SetAttr(path) PROVE Tracks
  BY <1>7, TracksStill DEF SetAttr, Refuse
<1>8. CASE UNCHANGED vars
  BY <1>8, TracksStill DEF vars
<1>. QED
  BY <1>1, <1>2, <1>3, <1>4, <1>5, <1>6, <1>7, <1>8 DEF Next

LEMMA InitNeverLow ==
  ASSUME NoDotsInPaths, Init
  PROVE  CountsNeverLow
<1>1. IInv
  BY InitIInv
<1>2. IsFiniteSet(Blocks) /\ IsFiniteSet(Inodes)
  BY <1>1, FreeCounts
<1>3. Cardinality(Blocks) = NumBlocks /\ Cardinality(Inodes) = NumInodes
  <2>1. Cardinality(0 .. (NumBlocks - 1)) = NumBlocks
    BY Constants, FS_Interval, SMTT(30)
  <2>2. Cardinality(1 .. NumInodes) = NumInodes
    BY Constants, FS_Interval
  <2>. QED
    BY <2>1, <2>2 DEF Blocks, Inodes
<1>4. Cardinality(0 .. RootBlock) = RootBlock + 1 /\ Cardinality(1 .. 10) = 10
  <2>1. \A b \in Nat : Cardinality(0 .. b) = b + 1
    BY FS_Interval
  <2>2. \A b \in Nat \ {0} : Cardinality(1 .. b) = b
    BY FS_Interval
  <2>3. RootBlock \in Nat /\ 10 \in Nat \ {0}
    BY Constants
  <2>4. Cardinality(0 .. RootBlock) = RootBlock + 1
    BY <2>1, <2>3
  <2>5. Cardinality(1 .. 10) = 10
    BY <2>2, <2>3, Zenon
  <2>. QED
    BY <2>4, <2>5
<1>5. Blocks \cap (0 .. RootBlock) = 0 .. RootBlock /\ Inodes \cap (1 .. 10) = 1 .. 10
  BY Constants DEF Blocks, Inodes
<1>6. FreeBlocks = NumBlocks - (RootBlock + 1)
  <2>1. Cardinality(Blocks \ (0 .. RootBlock))
          = Cardinality(Blocks) - Cardinality(Blocks \cap (0 .. RootBlock))
    BY <1>2, FS_Difference
  <2>. QED
    BY <1>3, <1>4, <1>5, <2>1 DEF FreeBlocks, Init
<1>7. FreeInodes = NumInodes - 10
  <2>1. Cardinality(Inodes \ (1 .. 10)) = Cardinality(Inodes) - Cardinality(Inodes \cap (1 .. 10))
    BY <1>2, FS_Difference
  <2>. QED
    BY <1>3, <1>4, <1>5, <2>1 DEF FreeInodes, Init, Reserved
<1>. QED
  BY <1>6, <1>7, Constants DEF CountsNeverLow, Init

LEMMA NextNeverLow ==
  ASSUME NoDotsInPaths, IInv, CountsNeverLow, [Next]_vars
  PROVE  CountsNeverLow' /\ (Drift' = Drift \/ Reopen)
<1>1. CASE Tracks
  BY <1>1, NextIInv, TracksWell
<1>2. CASE Reopen
  BY <1>2 DEF Reopen, disk, CountsNeverLow, FreeBlocks, FreeInodes
<1>. QED
  BY <1>1, <1>2, NextTracks

(* The free counts never fall below what the bitmaps have free, in the     *)
(* handle or on disk: no subtraction saturates, however calls fail, and no *)
(* caller is told of less room than there is.                              *)
THEOREM FreeCountsNeverLow ==
  ASSUME NoDotsInPaths PROVE Spec => []CountsNeverLow
<1>1. Init => IInv /\ CountsNeverLow
  BY InitIInv, InitNeverLow
<1>2. IInv /\ CountsNeverLow /\ [Next]_vars => IInv' /\ CountsNeverLow'
  BY NextIInv, NextNeverLow
<1>. QED
  BY <1>1, <1>2, PTL DEF Spec

(* The handle's counts move with the bitmaps through every call, also one  *)
(* that fails after it has allocated; what makes them drift is dropping    *)
(* the handle before the counts were flushed.                              *)
THEOREM CountsFollowBitmaps ==
  ASSUME NoDotsInPaths PROVE Spec => DriftOnlyAtReopen
<1>1. Init => IInv /\ CountsNeverLow
  BY InitIInv, InitNeverLow
<1>2. IInv /\ CountsNeverLow /\ [Next]_vars => IInv' /\ CountsNeverLow'
  BY NextIInv, NextNeverLow
<1>3. IInv /\ CountsNeverLow /\ [Next]_vars => [Drift' = Drift \/ Reopen]_vars
  BY NextNeverLow
<1>. QED
  BY <1>1, <1>2, <1>3, PTL DEF Spec, DriftOnlyAtReopen

-----------------------------------------------------------------------------
(***************************************************************************)
(* Second part.  The directories form a tree, with the dots, the link      *)
(* counts and the count of directories that go with it, for every image    *)
(* and every set of calls that name no dots and move no directory below    *)
(* itself.                                                                 *)
(*                                                                         *)
(* First the trees themselves, apart from the program: what happens to the *)
(* nodes reached from the root when a node appears, is entered, dropped or *)
(* moved.  Then what each edit of a directory block does to all of its     *)
(* entries, and last which of these each action is.                        *)
(***************************************************************************)

(* The nodes U, of which D may have children, and the children C[k] of     *)
(* each.  What is reached from Root is in every set that is closed under C *)
(* and holds Root.                                                         *)
ClosedIn(S, C) == \A k \in S : C[k] \subseteq S

Reach(U, C) == {i \in U : \A S \in SUBSET U : Root \in S /\ ClosedIn(S, C) => i \in S}

Rooted(U, D, C) ==
  /\ Root \in D /\ D \subseteq U
  /\ \A k \in U : C[k] \subseteq U \ {Root} /\ (k \notin D => C[k] = {})
  /\ \A j, k \in U : j # k => C[j] \cap C[k] = {}
  /\ \A k \in U : C[k] \subseteq Reach(U, C)

(* P is what `..` says, L the links_count of each node. *)
UpwardOK(D, C, P) ==
  P[Root] = Root /\ \A q \in D : \A d \in C[q] \cap D : P[d] = q

LinksOK(U, D, C, L) ==
  /\ \A d \in D : L[d] = 2 + Cardinality(C[d] \cap D)
  /\ \A q \in U : \A i \in C[q] \ D : L[i] = 1

(* How (U, D, C, P, L) changes: a node appears that nobody has for a       *)
(* child, a node appears under d, the leaf t goes from under d, a node     *)
(* changes parents.                                                        *)
Leaks(U, D, C, P, L, i, D2, C2, P2, L2) ==
  /\ i \notin U /\ D2 \in {D, D \cup {i}}
  /\ C2[i] = {} /\ \A k \in U : C2[k] = C[k]
  /\ \A k \in D : P2[k] = P[k]
  /\ \A k \in U : L2[k] = L[k]
  /\ i \in D2 => L2[i] = 2

Enters(U, D, C, P, L, i, d, D2, C2, P2, L2) ==
  /\ i \notin U /\ D2 \in {D, D \cup {i}} /\ d \in D /\ d \in Reach(U, C)
  /\ C2[i] = {} /\ C2[d] = C[d] \cup {i} /\ \A k \in U \ {d} : C2[k] = C[k]
  /\ (\A k \in D : P2[k] = P[k]) /\ (i \in D2 => P2[i] = d)
  /\ \A k \in U \ {d} : L2[k] = L[k]
  /\ L2[i] = IF i \in D2 THEN 2 ELSE 1
  /\ L2[d] = IF i \in D2 THEN L[d] + 1 ELSE L[d]

Drops(U, D, C, P, L, d, t, C2, P2, L2) ==
  /\ d \in D /\ t \in C[d] /\ C[t] = {}
  /\ C2[d] = C[d] \ {t} /\ \A k \in U \ {d, t} : C2[k] = C[k]
  /\ \A k \in D \ {t} : P2[k] = P[k]
  /\ \A k \in U \ {d, t} : L2[k] = L[k]
  /\ d # t => L2[d] = IF t \in D THEN L[d] - 1 ELSE L[d]

NotBelow(U, C, s, d) ==
  \E S \in SUBSET U : s \in S /\ d \notin S /\ ClosedIn(S, C)

Moves(U, D, C, P, L, s, d1, d2, C2, P2, L2) ==
  /\ d1 \in D /\ d2 \in D /\ d1 # d2 /\ d2 \in Reach(U, C) /\ s \in C[d1]
  /\ NotBelow(U, C, s, d2)
  /\ C2[d1] = C[d1] \ {s} /\ C2[d2] = C[d2] \cup {s}
  /\ \A k \in U \ {d1, d2} : C2[k] = C[k]
  /\ (\A k \in D \ {s} : P2[k] = P[k]) /\ (s \in D => P2[s] = d2)
  /\ \A k \in U \ {d1, d2} : L2[k] = L[k]
  /\ L2[d1] = IF s \in D THEN L[d1] - 1 ELSE L[d1]
  /\ L2[d2] = IF s \in D THEN L[d2] + 1 ELSE L[d2]

-----------------------------------------------------------------------------
(* What is reached is the least closed set that holds the root.            *)
LEMMA ReachClosed ==
  ASSUME NEW U, NEW C, Root \in U, \A k \in U : C[k] \subseteq U
  PROVE  Reach(U, C) \subseteq U /\ Root \in Reach(U, C) /\ ClosedIn(Reach(U, C), C)
<1>1. ASSUME NEW k \in Reach(U, C), NEW i \in C[k] PROVE i \in Reach(U, C)
  <2>1. k \in U /\ i \in U
    BY <1>1 DEF Reach
  <2>2. ASSUME NEW S \in SUBSET U, Root \in S, ClosedIn(S, C) PROVE i \in S
    <3>1. k \in S
      BY <1>1, <2>2 DEF Reach
    <3>. QED
      BY <1>1, <2>2, <3>1 DEF ClosedIn
  <2>. QED
    BY <2>1, <2>2 DEF Reach
<1>2. Root \in Reach(U, C) /\ Reach(U, C) \subseteq U
  BY DEF Reach
<1>. QED
  BY <1>1, <1>2 DEF ClosedIn

LEMMA ReachLeast ==
  ASSUME NEW U, NEW C, NEW S \in SUBSET U, Root \in S, ClosedIn(S, C)
  PROVE  Reach(U, C) \subseteq S
BY DEF Reach

(* A node but the root that no other has for a child is not reached.       *)
LEMMA ReachedHasParent ==
  ASSUME NEW U, NEW D, NEW C, Rooted(U, D, C), NEW i \in Reach(U, C), i # Root
  PROVE  \E d \in D : i \in C[d]
<1>. SUFFICES ASSUME \A d \in D : i \notin C[d] PROVE FALSE
  OBVIOUS
<1>1. \A k \in U : i \notin C[k]
  BY DEF Rooted
<1>2. U \ {i} \in SUBSET U /\ Root \in U \ {i} /\ ClosedIn(U \ {i}, C)
  BY <1>1 DEF Rooted, ClosedIn
<1>3. Reach(U, C) \subseteq U \ {i}
  BY <1>2, ReachLeast
<1>. QED
  BY <1>3

(* A node appears that nobody has for a child: an inode leaks.             *)
LEMMA TreeLeaks ==
  ASSUME NEW U, NEW D, NEW C, Rooted(U, D, C), NEW P, NEW L,
         NEW i, NEW D2, NEW C2, NEW P2, NEW L2,
         Leaks(U, D, C, P, L, i, D2, C2, P2, L2)
  PROVE  Reach(U \cup {i}, C2) = Reach(U, C) /\ Rooted(U \cup {i}, D2, C2)
<1>. USE DEF Leaks
<1>. DEFINE U2 == U \cup {i}
            R == Reach(U, C)
            R2 == Reach(U2, C2)
<1>1. /\ Root \in D /\ D \subseteq U /\ Root \in U
      /\ \A k \in U : C[k] \subseteq U \ {Root} /\ (k \notin D => C[k] = {})
      /\ \A j, k \in U : j # k => C[j] \cap C[k] = {}
      /\ \A k \in U : C[k] \subseteq R
  BY DEF Rooted
<1>2. R \subseteq U /\ Root \in R /\ ClosedIn(R, C)
  BY <1>1, ReachClosed
<1>3. R2 \subseteq U2 /\ Root \in R2 /\ ClosedIn(R2, C2)
  <2>1. Root \in U2 /\ \A k \in U2 : C2[k] \subseteq U2
    BY <1>1
  <2>. QED
    BY <2>1, ReachClosed
<1>. HIDE DEF R, R2
<1>4. R2 \subseteq R
  <2>1. R \in SUBSET U2 /\ ClosedIn(R, C2)
    BY <1>2 DEF ClosedIn
  <2>. QED
    BY <1>2, <2>1, ReachLeast DEF R2
<1>5. R \subseteq R2
  <2>1. R2 \cap U \in SUBSET U /\ Root \in R2 \cap U /\ ClosedIn(R2 \cap U, C)
    BY <1>1, <1>3 DEF ClosedIn
  <2>2. R \subseteq R2 \cap U
    BY <2>1, ReachLeast DEF R
  <2>. QED
    BY <2>2
<1>6. Rooted(U2, D2, C2)
  <2>1. \A k \in U2 : C2[k] \subseteq R2
    BY <1>1, <1>4, <1>5
  <2>2. Root \in D2 /\ D2 \subseteq U2
    BY <1>1
  <2>3. \A k \in U2 : C2[k] \subseteq U2 \ {Root} /\ (k \notin D2 => C2[k] = {})
    BY <1>1
  <2>4. \A j, k \in U2 : j # k => C2[j] \cap C2[k] = {}
    BY <1>1
  <2>. QED
    BY <2>1, <2>2, <2>3, <2>4 DEF Rooted, R2
<1>. QED
  BY <1>4, <1>5, <1>6 DEF R, R2

(* A node appears as a child of one that is reached: an entry is added.    *)
LEMMA TreeEnters ==
  ASSUME NEW U, NEW D, NEW C, Rooted(U, D, C), NEW P, NEW L,
         NEW i, NEW d, NEW D2, NEW C2, NEW P2, NEW L2,
         Enters(U, D, C, P, L, i, d, D2, C2, P2, L2)
  PROVE  Reach(U \cup {i}, C2) = Reach(U, C) \cup {i} /\ Rooted(U \cup {i}, D2, C2)
<1>. USE DEF Enters
<1>. DEFINE U2 == U \cup {i}
            R == Reach(U, C)
            R2 == Reach(U2, C2)
<1>1. /\ Root \in D /\ D \subseteq U /\ Root \in U
      /\ \A k \in U : C[k] \subseteq U \ {Root} /\ (k \notin D => C[k] = {})
      /\ \A j, k \in U : j # k => C[j] \cap C[k] = {}
      /\ \A k \in U : C[k] \subseteq R
  BY DEF Rooted
<1>2. R \subseteq U /\ Root \in R /\ ClosedIn(R, C)
  BY <1>1, ReachClosed
<1>3. R2 \subseteq U2 /\ Root \in R2 /\ ClosedIn(R2, C2)
  <2>1. Root \in U2 /\ \A k \in U2 : C2[k] \subseteq U2
    BY <1>1
  <2>. QED
    BY <2>1, ReachClosed
<1>. HIDE DEF R, R2
<1>4. R2 \subseteq R \cup {i}
  <2>1. R \cup {i} \in SUBSET U2 /\ ClosedIn(R \cup {i}, C2)
    BY <1>2 DEF ClosedIn
  <2>. QED
    BY <1>2, <2>1, ReachLeast DEF R2
<1>5. R \subseteq R2
  <2>1. \A k \in U : C[k] \subseteq C2[k]
    OBVIOUS
  <2>2. R2 \cap U \in SUBSET U /\ Root \in R2 \cap U /\ ClosedIn(R2 \cap U, C)
    BY <1>1, <1>3, <2>1 DEF ClosedIn
  <2>3. R \subseteq R2 \cap U
    BY <2>2, ReachLeast DEF R
  <2>. QED
    BY <2>3
<1>6. i \in R2
  BY <1>3, <1>5 DEF ClosedIn, R
<1>7. Rooted(U2, D2, C2)
  <2>1. \A k \in U2 : C2[k] \subseteq R2
    BY <1>1, <1>5, <1>6
  <2>2. Root \in D2 /\ D2 \subseteq U2
    BY <1>1
  <2>3. \A k \in U2 : C2[k] \subseteq U2 \ {Root} /\ (k \notin D2 => C2[k] = {})
    BY <1>1
  <2>4. \A j, k \in U2 : j # k => C2[j] \cap C2[k] = {}
    BY <1>1
  <2>. QED
    BY <2>1, <2>2, <2>3, <2>4 DEF Rooted, R2
<1>. QED
  BY <1>4, <1>5, <1>6, <1>7 DEF R, R2

(* A leaf goes, and its parent's entry with it.                            *)
LEMMA TreeDrops ==
  ASSUME NEW U, NEW D, NEW C, Rooted(U, D, C), NEW P, NEW L,
         NEW d, NEW t, NEW C2, NEW P2, NEW L2,
         Drops(U, D, C, P, L, d, t, C2, P2, L2)
  PROVE  Reach(U \ {t}, C2) = Reach(U, C) \ {t} /\ Rooted(U \ {t}, D \ {t}, C2)
<1>. USE DEF Drops
<1>. DEFINE U2 == U \ {t}
            R == Reach(U, C)
            R2 == Reach(U2, C2)
<1>1. /\ Root \in D /\ D \subseteq U /\ Root \in U
      /\ \A k \in U : C[k] \subseteq U \ {Root} /\ (k \notin D => C[k] = {})
      /\ \A j, k \in U : j # k => C[j] \cap C[k] = {}
      /\ \A k \in U : C[k] \subseteq R
  BY DEF Rooted
<1>2. R \subseteq U /\ Root \in R /\ ClosedIn(R, C)
  BY <1>1, ReachClosed
<1>3. d # t /\ t # Root /\ t \in U
  BY <1>1
<1>4. \A k \in U2 : C2[k] = C[k] \ {t}
  BY <1>1, <1>3
<1>5. R2 \subseteq U2 /\ Root \in R2 /\ ClosedIn(R2, C2)
  <2>1. Root \in U2 /\ \A k \in U2 : C2[k] \subseteq U2
    BY <1>1, <1>3, <1>4
  <2>. QED
    BY <2>1, ReachClosed
<1>. HIDE DEF R, R2
<1>6. R2 \subseteq R \ {t}
  <2>1. R \ {t} \in SUBSET U2 /\ Root \in R \ {t} /\ ClosedIn(R \ {t}, C2)
    BY <1>2, <1>3, <1>4 DEF ClosedIn
  <2>. QED
    BY <2>1, ReachLeast DEF R2
<1>7. R \subseteq R2 \cup {t}
  <2>1. R2 \cup {t} \in SUBSET U /\ Root \in R2 \cup {t} /\ ClosedIn(R2 \cup {t}, C)
    BY <1>3, <1>4, <1>5 DEF ClosedIn
  <2>. QED
    BY <2>1, ReachLeast DEF R
<1>8. Rooted(U2, D \ {t}, C2)
  <2>1. \A k \in U2 : C2[k] \subseteq R2
    BY <1>1, <1>4, <1>7
  <2>2. Root \in D \ {t} /\ D \ {t} \subseteq U2
    BY <1>1, <1>3
  <2>3. \A k \in U2 : C2[k] \subseteq U2 \ {Root} /\ (k \notin D \ {t} => C2[k] = {})
    BY <1>1, <1>4
  <2>4. \A j, k \in U2 : j # k => C2[j] \cap C2[k] = {}
    BY <1>1, <1>4
  <2>. QED
    BY <2>1, <2>2, <2>3, <2>4 DEF Rooted, R2
<1>. QED
  BY <1>5, <1>6, <1>7, <1>8 DEF R, R2

(* A child changes parents, and the new one is not below it.               *)
LEMMA TreeMoves ==
  ASSUME NEW U, NEW D, NEW C, Rooted(U, D, C), NEW P, NEW L,
         NEW s, NEW d1, NEW d2, NEW C2, NEW P2, NEW L2,
         Moves(U, D, C, P, L, s, d1, d2, C2, P2, L2)
  PROVE  Reach(U, C2) = Reach(U, C) /\ Rooted(U, D, C2)
<1>. USE DEF Moves
<1>0. PICK S0 \in SUBSET U : s \in S0 /\ d2 \notin S0 /\ ClosedIn(S0, C)
  BY DEF NotBelow
<1>. DEFINE R == Reach(U, C)
            R2 == Reach(U, C2)
<1>1. /\ Root \in D /\ D \subseteq U /\ Root \in U
      /\ \A k \in U : C[k] \subseteq U \ {Root} /\ (k \notin D => C[k] = {})
      /\ \A j, k \in U : j # k => C[j] \cap C[k] = {}
      /\ \A k \in U : C[k] \subseteq R
  BY DEF Rooted
<1>2. R \subseteq U /\ Root \in R /\ ClosedIn(R, C)
  BY <1>1, ReachClosed
<1>3. s \in U /\ s # Root /\ s \in R
  BY <1>1
<1>4. \A k \in U : C2[k] \subseteq C[k] \cup {s} /\ C[k] \subseteq C2[k] \cup {s}
  OBVIOUS
<1>5. R2 \subseteq U /\ Root \in R2 /\ ClosedIn(R2, C2)
  <2>1. \A k \in U : C2[k] \subseteq U
    BY <1>1, <1>3, <1>4
  <2>. QED
    BY <1>1, <2>1, ReachClosed
<1>6. d2 \in R
  OBVIOUS
<1>. HIDE DEF R, R2
<1>7. R2 \subseteq R
  <2>1. ClosedIn(R, C2)
    BY <1>2, <1>3, <1>4 DEF ClosedIn
  <2>. QED
    BY <1>2, <2>1, ReachLeast DEF R2
<1>8. s \in R2
  <2>1. R2 \cup S0 \in SUBSET U /\ Root \in R2 \cup S0 /\ ClosedIn(R2 \cup S0, C)
    BY <1>0, <1>4, <1>5 DEF ClosedIn
  <2>2. R \subseteq R2 \cup S0
    BY <2>1, ReachLeast DEF R
  <2>3. d2 \in R2
    BY <1>0, <1>6, <2>2
  <2>. QED
    BY <1>5, <2>3 DEF ClosedIn
<1>9. R \subseteq R2
  <2>1. ClosedIn(R2, C)
    BY <1>4, <1>5, <1>8 DEF ClosedIn
  <2>. QED
    BY <1>5, <2>1, ReachLeast DEF R
<1>10. Rooted(U, D, C2)
  <2>1. \A k \in U : C2[k] \subseteq R2
    BY <1>1, <1>4, <1>8, <1>9
  <2>2. \A k \in U : C2[k] \subseteq U \ {Root} /\ (k \notin D => C2[k] = {})
    BY <1>1, <1>3, <1>4
  <2>3. \A j, k \in U : j # k => C2[j] \cap C2[k] = {}
    <3>1. \A k \in U \ {d1} : s \notin C[k]
      BY <1>1
    <3>. QED
      BY <1>1, <3>1
  <2>. QED
    BY <1>1, <2>1, <2>2, <2>3 DEF Rooted, R2
<1>. QED
  BY <1>7, <1>9, <1>10 DEF R, R2

-----------------------------------------------------------------------------
(* The dots and the link counts through the same four changes.             *)
LEMMA LinksLeak ==
  ASSUME NEW U, NEW D, NEW C, Rooted(U, D, C),
         NEW P, UpwardOK(D, C, P), NEW L, LinksOK(U, D, C, L),
         NEW i, NEW D2, NEW C2, NEW P2, NEW L2,
         Leaks(U, D, C, P, L, i, D2, C2, P2, L2)
  PROVE  UpwardOK(D2, C2, P2) /\ LinksOK(U \cup {i}, D2, C2, L2)
<1>. USE DEF Leaks
<1>1. Root \in D /\ D \subseteq U /\ \A k \in U : C[k] \subseteq U
  BY DEF Rooted
<1>2. \A k \in U : C2[k] \cap D2 = C[k] \cap D /\ C2[k] \ D2 = C[k] \ D
  BY <1>1
<1>3. UpwardOK(D2, C2, P2)
  BY <1>1, <1>2 DEF UpwardOK
<1>4. \A k \in D2 : L2[k] = 2 + Cardinality(C2[k] \cap D2)
  <2>1. \A k \in D : L2[k] = 2 + Cardinality(C2[k] \cap D2)
    <3>1. \A k \in D : L2[k] = 2 + Cardinality(C[k] \cap D)
      BY <1>1 DEF LinksOK
    <3>. QED
      BY <1>1, <1>2, <3>1
  <2>2. i \in D2 => L2[i] = 2 + Cardinality(C2[i] \cap D2)
    <3>1. C2[i] \cap D2 = {} /\ Cardinality({}) = 0
      BY FS_EmptySet
    <3>. QED
      BY <3>1
  <2>. QED
    BY <2>1, <2>2
<1>5. \A q \in U \cup {i} : \A k \in C2[q] \ D2 : L2[k] = 1
  BY <1>1, <1>2 DEF LinksOK
<1>. QED
  BY <1>3, <1>4, <1>5 DEF LinksOK

LEMMA LinksEnter ==
  ASSUME NEW U, IsFiniteSet(U), NEW D, NEW C, Rooted(U, D, C),
         NEW P, UpwardOK(D, C, P), NEW L, LinksOK(U, D, C, L),
         NEW i, NEW d, NEW D2, NEW C2, NEW P2, NEW L2,
         Enters(U, D, C, P, L, i, d, D2, C2, P2, L2)
  PROVE  UpwardOK(D2, C2, P2) /\ LinksOK(U \cup {i}, D2, C2, L2)
<1>. USE DEF Enters
<1>1. Root \in D /\ D \subseteq U /\ \A k \in U : C[k] \subseteq U \ {Root}
  BY DEF Rooted
<1>2. /\ \A k \in U \ {d} : C2[k] \cap D2 = C[k] \cap D /\ C2[k] \ D2 = C[k] \ D
      /\ C2[d] \cap D2 = IF i \in D2 THEN (C[d] \cap D) \cup {i} ELSE C[d] \cap D
      /\ C2[d] \ D2 = IF i \in D2 THEN C[d] \ D ELSE (C[d] \ D) \cup {i}
  BY <1>1
<1>3. UpwardOK(D2, C2, P2)
  BY <1>1, <1>2 DEF UpwardOK
<1>4. \A k \in D2 : L2[k] = 2 + Cardinality(C2[k] \cap D2)
  <2>1. \A k \in D : L[k] = 2 + Cardinality(C[k] \cap D)
    BY DEF LinksOK
  <2>2. ASSUME NEW k \in D \ {d} PROVE L2[k] = 2 + Cardinality(C2[k] \cap D2)
    <3>1. C2[k] \cap D2 = C[k] \cap D
      BY <1>1, <1>2
    <3>2. L2[k] = L[k] /\ L[k] = 2 + Cardinality(C[k] \cap D)
      BY <1>1, <2>1
    <3>. QED
      BY <3>1, <3>2, Zenon
  <2>3. i \in D2 => L2[i] = 2 + Cardinality(C2[i] \cap D2)
    <3>1. C2[i] \cap D2 = {} /\ Cardinality({}) = 0
      BY FS_EmptySet
    <3>. QED
      BY <3>1
  <2>4. L2[d] = 2 + Cardinality(C2[d] \cap D2)
    <3>1. IsFiniteSet(C[d] \cap D) /\ i \notin C[d] \cap D
      <4>1. C[d] \cap D \in SUBSET U
        BY <1>1
      <4>. QED
        BY <4>1, FS_Subset
    <3>2. /\ Cardinality((C[d] \cap D) \cup {i}) = Cardinality(C[d] \cap D) + 1
          /\ Cardinality(C[d] \cap D) \in Nat
      BY <3>1, FS_AddElement, FS_CardinalityType
    <3>3. CASE i \in D2
      <4>1. C2[d] \cap D2 = (C[d] \cap D) \cup {i}
        BY <1>2, <3>3
      <4>2. Cardinality(C2[d] \cap D2) = Cardinality(C[d] \cap D) + 1
        BY <3>2, <4>1, Zenon
      <4>. QED
        BY <2>1, <3>2, <3>3, <4>2
    <3>4. CASE i \notin D2
      <4>1. C2[d] \cap D2 = C[d] \cap D
        BY <1>2, <3>4
      <4>2. L2[d] = L[d] /\ L[d] = 2 + Cardinality(C[d] \cap D)
        BY <2>1, <3>4
      <4>. QED
        BY <4>1, <4>2, Zenon
    <3>. QED
      BY <3>3, <3>4
  <2>5. D2 \subseteq (D \ {d}) \cup {d, i}
    OBVIOUS
  <2>. QED
    BY <2>2, <2>3, <2>4, <2>5
<1>5. \A q \in U \cup {i} : \A k \in C2[q] \ D2 : L2[k] = 1
  <2>1. \A q \in U : \A k \in C[q] \ D : L[k] = 1 /\ k # d /\ k \in U
    BY <1>1 DEF LinksOK
  <2>2. \A q \in U : \A k \in C2[q] \ D2 : k \in C[q] \ D \/ (k = i /\ i \notin D2)
    BY <1>2
  <2>. QED
    BY <2>1, <2>2
<1>. QED
  BY <1>3, <1>4, <1>5 DEF LinksOK

LEMMA LinksDrop ==
  ASSUME NEW U, IsFiniteSet(U), NEW D, NEW C, Rooted(U, D, C),
         NEW P, UpwardOK(D, C, P), NEW L, LinksOK(U, D, C, L),
         NEW d, NEW t, NEW C2, NEW P2, NEW L2,
         Drops(U, D, C, P, L, d, t, C2, P2, L2)
  PROVE  UpwardOK(D \ {t}, C2, P2) /\ LinksOK(U \ {t}, D \ {t}, C2, L2)
<1>. USE DEF Drops
<1>. DEFINE U2 == U \ {t}
            D2 == D \ {t}
<1>1. /\ Root \in D /\ D \subseteq U /\ \A k \in U : C[k] \subseteq U \ {Root}
      /\ \A j, k \in U : j # k => C[j] \cap C[k] = {}
      /\ t # Root /\ t \in U
  BY DEF Rooted
<1>2. \A k \in U2 : C2[k] \cap D2 = (C[k] \cap D) \ {t} /\ C2[k] \ D2 = (C[k] \ D) \ {t}
  BY <1>1
<1>3. \A k \in U2 \ {d} : t \notin C[k]
  BY <1>1
<1>4. UpwardOK(D2, C2, P2)
  BY <1>1, <1>2 DEF UpwardOK
<1>5. \A k \in D2 : L2[k] = 2 + Cardinality(C2[k] \cap D2)
  <2>1. \A k \in D : L[k] = 2 + Cardinality(C[k] \cap D)
    BY DEF LinksOK
  <2>2. \A k \in D2 \ {d} : L2[k] = 2 + Cardinality(C2[k] \cap D2)
    <3>1. \A k \in D2 \ {d} : C2[k] \cap D2 = C[k] \cap D
      BY <1>1, <1>2, <1>3
    <3>. QED
      BY <1>1, <2>1, <3>1
  <2>3. d # t => L2[d] = 2 + Cardinality(C2[d] \cap D2)
    <3>. SUFFICES ASSUME d # t PROVE L2[d] = 2 + Cardinality(C2[d] \cap D2)
      OBVIOUS
    <3>1. IsFiniteSet(C[d] \cap D)
      <4>1. C[d] \cap D \in SUBSET U
        BY <1>1
      <4>. QED
        BY <4>1, FS_Subset
    <3>2. /\ Cardinality((C[d] \cap D) \ {t})
               = IF t \in C[d] \cap D THEN Cardinality(C[d] \cap D) - 1
                                      ELSE Cardinality(C[d] \cap D)
          /\ Cardinality(C[d] \cap D) \in Nat
      BY <3>1, FS_RemoveElement, FS_CardinalityType
    <3>3. C2[d] \cap D2 = (C[d] \cap D) \ {t}
      BY <1>1, <1>2
    <3>4. Cardinality(C2[d] \cap D2) = Cardinality((C[d] \cap D) \ {t})
      BY <3>3, Zenon
    <3>5. t \in C[d] \cap D <=> t \in D
      OBVIOUS
    <3>6. L[d] = 2 + Cardinality(C[d] \cap D)
      BY <2>1
    <3>. HIDE DEF D2
    <3>. QED
      BY <3>2, <3>4, <3>5, <3>6
  <2>. QED
    BY <2>2, <2>3
<1>6. \A q \in U2 : \A k \in C2[q] \ D2 : L2[k] = 1
  <2>1. \A q \in U : \A k \in C[q] \ D : L[k] = 1 /\ k # d /\ k \in U
    BY <1>1 DEF LinksOK
  <2>. QED
    BY <1>1, <1>2, <2>1
<1>. QED
  BY <1>4, <1>5, <1>6 DEF LinksOK

LEMMA LinksMove ==
  ASSUME NEW U, IsFiniteSet(U), NEW D, NEW C, Rooted(U, D, C),
         NEW P, UpwardOK(D, C, P), NEW L, LinksOK(U, D, C, L),
         NEW s, NEW d1, NEW d2, NEW C2, NEW P2, NEW L2,
         Moves(U, D, C, P, L, s, d1, d2, C2, P2, L2)
  PROVE  UpwardOK(D, C2, P2) /\ LinksOK(U, D, C2, L2)
<1>. USE DEF Moves
<1>1. /\ Root \in D /\ D \subseteq U /\ \A k \in U : C[k] \subseteq U \ {Root}
      /\ \A j, k \in U : j # k => C[j] \cap C[k] = {}
      /\ s # Root /\ s \in U
  BY DEF Rooted
<1>2. \A k \in U \ {d1} : s \notin C[k]
  BY <1>1
<1>3. \A k \in U : C2[k] = IF k = d1 THEN C[k] \ {s}
                           ELSE IF k = d2 THEN C[k] \cup {s} ELSE C[k]
  OBVIOUS
<1>4. UpwardOK(D, C2, P2)
  BY <1>1, <1>2, <1>3 DEF UpwardOK
<1>5. \A k \in D : L2[k] = 2 + Cardinality(C2[k] \cap D)
  <2>1. \A k \in D : L[k] = 2 + Cardinality(C[k] \cap D)
    BY DEF LinksOK
  <2>2. \A k \in D : IsFiniteSet(C[k] \cap D) /\ Cardinality(C[k] \cap D) \in Nat
    <3>. SUFFICES ASSUME NEW k \in D
         PROVE  IsFiniteSet(C[k] \cap D) /\ Cardinality(C[k] \cap D) \in Nat
      OBVIOUS
    <3>1. C[k] \cap D \in SUBSET U
      BY <1>1
    <3>. QED
      BY <3>1, FS_Subset, FS_CardinalityType
  <2>3. \A k \in D \ {d1, d2} : L2[k] = 2 + Cardinality(C2[k] \cap D)
    BY <1>1, <2>1
  <2>4. L2[d1] = 2 + Cardinality(C2[d1] \cap D)
    <3>1. Cardinality((C[d1] \cap D) \ {s})
            = IF s \in C[d1] \cap D THEN Cardinality(C[d1] \cap D) - 1
                                    ELSE Cardinality(C[d1] \cap D)
      BY <2>2, FS_RemoveElement
    <3>2. C2[d1] \cap D = (C[d1] \cap D) \ {s}
      OBVIOUS
    <3>3. Cardinality(C2[d1] \cap D) = Cardinality((C[d1] \cap D) \ {s})
      BY <3>2, Zenon
    <3>4. L[d1] = 2 + Cardinality(C[d1] \cap D) /\ Cardinality(C[d1] \cap D) \in Nat
      BY <2>1, <2>2
    <3>5. s \in C[d1] \cap D <=> s \in D
      OBVIOUS
    <3>. QED
      BY <3>1, <3>3, <3>4, <3>5
  <2>5. L2[d2] = 2 + Cardinality(C2[d2] \cap D)
    <3>1. /\ Cardinality((C[d2] \cap D) \cup {s}) = Cardinality(C[d2] \cap D) + 1
          /\ L[d2] = 2 + Cardinality(C[d2] \cap D)
      <4>1. s \notin C[d2] \cap D
        BY <1>1, <1>2
      <4>. QED
        BY <2>1, <2>2, <4>1, FS_AddElement
    <3>2. CASE s \in D
      <4>1. C2[d2] \cap D = (C[d2] \cap D) \cup {s}
        BY <3>2
      <4>2. Cardinality(C2[d2] \cap D) = Cardinality(C[d2] \cap D) + 1
        BY <3>1, <4>1, Zenon
      <4>3. L2[d2] = L[d2] + 1 /\ Cardinality(C[d2] \cap D) \in Nat
        BY <2>2, <3>2
      <4>. QED
        BY <3>1, <4>2, <4>3
    <3>3. CASE s \notin D
      <4>1. C2[d2] \cap D = C[d2] \cap D
        BY <3>3
      <4>2. L2[d2] = L[d2] /\ L[d2] = 2 + Cardinality(C[d2] \cap D)
        BY <3>1, <3>3
      <4>. QED
        BY <4>1, <4>2, Zenon
    <3>. QED
      BY <3>2, <3>3
  <2>. QED
    BY <2>3, <2>4, <2>5
<1>6. \A q \in U : \A k \in C2[q] \ D : L2[k] = 1
  <2>1. \A q \in U : \A k \in C[q] \ D : L[k] = 1 /\ k \notin {d1, d2} /\ k \in U
    BY <1>1 DEF LinksOK
  <2>2. \A q \in U : \A k \in C2[q] \ D : \E p \in U : k \in C[p] \ D
    BY <1>1, <1>3
  <2>. QED
    BY <2>1, <2>2
<1>. QED
  BY <1>4, <1>5, <1>6 DEF LinksOK

-----------------------------------------------------------------------------
(* All the entries of a block, the dots and the file types included.       *)
Lists(blk, name, i, ft) == \E e \in blk : e.name = name /\ e.inode = i /\ e.ftype = ft

(* add_dir_entry adds one entry.                                           *)
LEMMA AddLists ==
  ASSUME NEW es, Sound(es, Inodes), NEW name, NEW i, NEW ft
  PROVE  \A n, j, f : Lists(Add(es, name, i, ft), n, j, f)
                        <=> Lists(es, n, j, f) \/ (n = name /\ j = i /\ f = ft)
<1>. DEFINE new == Add(es, name, i, ft)
<1>1. /\ \A e \in es : \E f \in new : SameEntry(e, f)
      /\ \A f \in new : \/ \E e \in es : SameEntry(e, f)
                        \/ f.name = name /\ f.inode = i /\ f.ftype = ft
      /\ \E f \in new : f.name = name /\ f.inode = i /\ f.ftype = ft
  BY AddEffect
<1>. HIDE DEF new
<1>2. \A n, j, f : Lists(new, n, j, f)
                    <=> Lists(es, n, j, f) \/ (n = name /\ j = i /\ f = ft)
  BY <1>1 DEF Lists, SameEntry
<1>. QED
  BY <1>2 DEF new

(* remove_dir_entry takes one entry out, the only one of its name.         *)
LEMMA RemoveLists ==
  ASSUME NEW es, Sound(es, Inodes), NEW name, NEW i \in Inodes, i # 0, name # ".",
         Refers(es, name, i)
  PROVE  \A n, j, f : Lists(Remove(es, i, name), n, j, f)
                        <=> Lists(es, n, j, f) /\ n # name
<1>. DEFINE new == Remove(es, i, name)
<1>1. PICK t \in es : t.name = name /\ t.inode = i
  BY DEF Refers
<1>2. /\ \A e \in es : e # t => \E f \in new : SameEntry(e, f)
      /\ \A f \in new : f.name # name /\ \E e \in es : e # t /\ SameEntry(e, f)
  BY <1>1, RemoveEffect
<1>3. \A e \in es : e.name = name => e = t
  BY <1>1 DEF Sound
<1>. HIDE DEF new
<1>4. ASSUME NEW n, NEW j, NEW f, Lists(new, n, j, f) PROVE Lists(es, n, j, f) /\ n # name
  BY <1>2, <1>4 DEF Lists, SameEntry
<1>5. ASSUME NEW n, NEW j, NEW f, Lists(es, n, j, f), n # name PROVE Lists(new, n, j, f)
  <2>1. PICK e \in es : e.name = n /\ e.inode = j /\ e.ftype = f
    BY <1>5 DEF Lists
  <2>2. PICK g \in new : SameEntry(e, g)
    BY <1>1, <1>2, <1>5, <2>1
  <2>. QED
    BY <2>1, <2>2 DEF Lists, SameEntry
<1>. QED
  BY <1>4, <1>5 DEF new

(* update_dotdot changes the inode of `..` and nothing else.               *)
LEMMA DotDotLists ==
  ASSUME NEW es, Sound(es, Inodes), 0 \notin Inodes, \E e \in es : e.name = "..",
         NEW parent \in Inodes
  PROVE  /\ \A n, j, f : n # ".." =>
              (Lists(SetDotDot(es, parent), n, j, f) <=> Lists(es, n, j, f))
         /\ \A j, f : Lists(SetDotDot(es, parent), "..", j, f)
                        <=> j = parent /\ \E q : Lists(es, "..", q, f)
<1>1. PICK t \in es : t.name = ".."
  OBVIOUS
<1>2. t.inode # 0
  BY <1>1, SoundEntry
<1>. DEFINE moved == Entry(t.off, t.recLen, parent, t.name, t.ftype)
            new == SetDotDot(es, parent)
<1>3. new = (es \ {t}) \cup {moved}
  BY <1>1, <1>2, SetDotDotSound
<1>4. moved.name = ".." /\ moved.inode = parent /\ moved.ftype = t.ftype
  BY <1>1 DEF Entry
<1>5. \A e \in es : e.name = ".." => e = t
  BY <1>1 DEF Sound
<1>. HIDE DEF new, moved
<1>6. \A n, j, f : n # ".." => (Lists(new, n, j, f) <=> Lists(es, n, j, f))
  BY <1>1, <1>3, <1>4 DEF Lists
<1>7. \A j, f : Lists(new, "..", j, f) <=> j = parent /\ f = t.ftype
  BY <1>3, <1>4, <1>5 DEF Lists
<1>8. \A f : f = t.ftype <=> \E q : Lists(es, "..", q, f)
  BY <1>1, <1>5 DEF Lists
<1>. QED
  BY <1>6, <1>7, <1>8 DEF new

(* A new directory has the two dots, and they are directories.             *)
LEMMA FreshLists ==
  ASSUME NEW self, NEW parent
  PROVE  \A n, j, f : Lists(FreshBlock(self, parent), n, j, f)
                        <=> f = FtDir /\ \/ n = "." /\ j = self
                                         \/ n = ".." /\ j = parent
<1>. DEFINE dot == Entry(0, 12, self, ".", FtDir)
            dotdot == Entry(12, BlockSize - 12, parent, "..", FtDir)
<1>1. /\ dot.name = "." /\ dot.inode = self /\ dot.ftype = FtDir
      /\ dotdot.name = ".." /\ dotdot.inode = parent /\ dotdot.ftype = FtDir
  BY DEF Entry
<1>2. FreshBlock(self, parent) = {dot, dotdot}
  BY DEF FreshBlock
<1>. HIDE DEF dot, dotdot
<1>. QED
  BY <1>1, <1>2 DEF Lists

LEMMA RefersLists ==
  ASSUME NEW blk, NEW n, NEW j
  PROVE  Refers(blk, n, j) <=> \E f : Lists(blk, n, j, f)
BY DEF Refers, Lists

-----------------------------------------------------------------------------
(* The same edits, made in the image: what each directory then lists.      *)
LEMMA AddedLists ==
  ASSUME NoDotsInPaths, IInv, NEW blks, AllSound(blks), NEW d \in DirRecs,
         NEW name, NEW i, NEW ft
  PROVE  \A k \in DirRecs : \A n, j, f :
           Lists(At(AddedAt(blks, d, name, i, ft), k), n, j, f)
             <=> Lists(At(blks, k), n, j, f) \/ (k = d /\ n = name /\ j = i /\ f = ft)
<1>. DEFINE new == AddedAt(blks, d, name, i, ft)
<1>1. /\ At(new, d) = Add(At(blks, d), name, i, ft)
      /\ \A k \in DirRecs : k # d => At(new, k) = At(blks, k)
  BY StartsApart DEF At, AllSound, AddedAt
<1>2. Sound(At(blks, d), Inodes)
  BY DEF AllSound, DirectoryBlock
<1>3. \A n, j, f : Lists(Add(At(blks, d), name, i, ft), n, j, f)
                     <=> Lists(At(blks, d), n, j, f) \/ (n = name /\ j = i /\ f = ft)
  BY <1>2, AddLists
<1>. HIDE DEF new
<1>4. \A k \in DirRecs : \A n, j, f :
        Lists(At(new, k), n, j, f)
          <=> Lists(At(blks, k), n, j, f) \/ (k = d /\ n = name /\ j = i /\ f = ft)
  <2>. SUFFICES ASSUME NEW k \in DirRecs
       PROVE  \A n, j, f :
                Lists(At(new, k), n, j, f)
                  <=> Lists(At(blks, k), n, j, f) \/ (k = d /\ n = name /\ j = i /\ f = ft)
    OBVIOUS
  <2>1. CASE k = d
    BY <1>1, <1>3, <2>1
  <2>2. CASE k # d
    BY <1>1, <2>2
  <2>. QED
    BY <2>1, <2>2
<1>. QED
  BY <1>4 DEF new

LEMMA RemovedLists ==
  ASSUME NoDotsInPaths, IInv, NEW blks, AllSound(blks), NEW d \in DirRecs,
         NEW name \in Names, NEW i \in Inodes, Refers(At(blks, d), name, i)
  PROVE  \A k \in DirRecs : \A n, j, f :
           Lists(At(RemovedAt(blks, d, i, name), k), n, j, f)
             <=> Lists(At(blks, k), n, j, f) /\ ~ (k = d /\ n = name)
<1>. DEFINE new == RemovedAt(blks, d, i, name)
<1>1. /\ At(new, d) = Remove(At(blks, d), i, name)
      /\ \A k \in DirRecs : k # d => At(new, k) = At(blks, k)
  BY StartsApart DEF At, AllSound, RemovedAt
<1>2. Sound(At(blks, d), Inodes) /\ i # 0 /\ name # "."
  BY Constants DEF AllSound, DirectoryBlock
<1>3. \A n, j, f : Lists(Remove(At(blks, d), i, name), n, j, f)
                     <=> Lists(At(blks, d), n, j, f) /\ n # name
  BY <1>2, RemoveLists
<1>. HIDE DEF new
<1>4. \A k \in DirRecs : \A n, j, f :
        Lists(At(new, k), n, j, f) <=> Lists(At(blks, k), n, j, f) /\ ~ (k = d /\ n = name)
  <2>. SUFFICES ASSUME NEW k \in DirRecs
       PROVE  \A n, j, f : Lists(At(new, k), n, j, f)
                             <=> Lists(At(blks, k), n, j, f) /\ ~ (k = d /\ n = name)
    OBVIOUS
  <2>1. CASE k = d
    BY <1>1, <1>3, <2>1
  <2>2. CASE k # d
    BY <1>1, <2>2
  <2>. QED
    BY <2>1, <2>2
<1>. QED
  BY <1>4 DEF new

LEMMA MovedLists ==
  ASSUME NoDotsInPaths, IInv, NEW blks, AllSound(blks), NEW d \in DirRecs,
         NEW parent \in Inodes
  PROVE  \A k \in DirRecs : \A n, j, f :
           Lists(At(MovedTo(blks, d, parent), k), n, j, f)
             <=> IF k = d /\ n = ".." THEN j = parent /\ \E q : Lists(At(blks, k), n, q, f)
                                      ELSE Lists(At(blks, k), n, j, f)
<1>. DEFINE new == MovedTo(blks, d, parent)
<1>1. /\ At(new, d) = SetDotDot(At(blks, d), parent)
      /\ \A k \in DirRecs : k # d => At(new, k) = At(blks, k)
  BY StartsApart DEF At, AllSound, MovedTo
<1>2. Sound(At(blks, d), Inodes) /\ 0 \notin Inodes /\ \E e \in At(blks, d) : e.name = ".."
  BY Constants DEF AllSound, DirectoryBlock
<1>3. /\ \A n, j, f : n # ".." =>
           (Lists(SetDotDot(At(blks, d), parent), n, j, f) <=> Lists(At(blks, d), n, j, f))
      /\ \A j, f : Lists(SetDotDot(At(blks, d), parent), "..", j, f)
                     <=> j = parent /\ \E q : Lists(At(blks, d), "..", q, f)
  BY <1>2, DotDotLists
<1>. HIDE DEF new
<1>4. \A k \in DirRecs : \A n, j, f :
        Lists(At(new, k), n, j, f)
          <=> IF k = d /\ n = ".." THEN j = parent /\ \E q : Lists(At(blks, k), n, q, f)
                                   ELSE Lists(At(blks, k), n, j, f)
  <2>. SUFFICES ASSUME NEW k \in DirRecs, NEW n, NEW j, NEW f
       PROVE  Lists(At(new, k), n, j, f)
                <=> IF k = d /\ n = ".." THEN j = parent /\ \E q : Lists(At(blks, k), n, q, f)
                                         ELSE Lists(At(blks, k), n, j, f)
    OBVIOUS
  <2>1. CASE k = d /\ n = ".."
    BY <1>1, <1>3, <2>1
  <2>2. CASE k = d /\ n # ".."
    BY <1>1, <1>3, <2>2
  <2>3. CASE k # d
    BY <1>1, <2>3
  <2>. QED
    BY <2>1, <2>2, <2>3
<1>. QED
  BY <1>4 DEF new

(* Only directories' blocks are edited. *)
DirStarts == {inodes[d].start : d \in DirRecs}

LEMMA EditedStarts ==
  ASSUME NEW blks, AllSound(blks), NEW d \in DirRecs, NEW b \in Blocks \ DirStarts
  PROVE  /\ \A name, i, ft : AddedAt(blks, d, name, i, ft)[b] = blks[b]
         /\ \A name, i : RemovedAt(blks, d, i, name)[b] = blks[b]
         /\ \A parent : MovedTo(blks, d, parent)[b] = blks[b]
BY DEF AllSound, DirStarts, AddedAt, RemovedAt, MovedTo

-----------------------------------------------------------------------------
(* The tree of a state: the inodes in use, the directories, what each has  *)
(* for children, what its `..` says, the link counts.                      *)
KidsOf ==
  [i \in Inodes |-> IF i \in DirRecs
                      THEN {j \in Inodes : \E n \in Names : Refers(Block(i), n, j)}
                      ELSE {}]

UpOf == [d \in DirRecs |-> CHOOSE p : Refers(Block(d), "..", p)]

LinksOf == [i \in Usable |-> inodes[i].links]

Reached == Reach(Usable, KidsOf)

(* What is in use and no directory with a block is empty, a fast symlink,  *)
(* or a file whose blocks hold no entries.                                 *)
PlainFiles ==
  \A i \in Usable \ DirRecs :
    inodes[i].len > 0 => inodes[i].kind = "reg" /\ dirBlocks[inodes[i].start] = {}

DotsAndTypes ==
  \A d \in DirRecs : \A n, j, f : Lists(Block(d), n, j, f) =>
    /\ n = "." => j = d /\ f = FtDir
    /\ n = ".." => f = FtDir
    /\ n \in Names => f = FtOf(inodes[j].kind)

DirsCounted ==
  /\ counts.usedDirs = Cardinality(DirRecs \cap Reached)
  /\ diskCounts.usedDirs = counts.usedDirs

TreeNow ==
  /\ Rooted(Usable, DirRecs, KidsOf)
  /\ UpwardOK(DirRecs, KidsOf, UpOf)
  /\ LinksOK(Usable, DirRecs, KidsOf, LinksOf)

TreeParts == PlainFiles /\ DotsAndTypes /\ TreeNow /\ DirsCounted

TreeIInv == IInv /\ TreeParts

(* `..` is one entry. *)
LEMMA UpUnique ==
  ASSUME NEW blk, DirectoryBlock(blk)
  PROVE  \A p : Refers(blk, "..", p) <=> p = CHOOSE q : Refers(blk, "..", q)
<1>1. PICK e \in blk : e.name = ".."
  BY DEF DirectoryBlock
<1>2. \A p : Refers(blk, "..", p) <=> p = e.inode
  BY <1>1 DEF Refers, DirectoryBlock, Sound
<1>3. Refers(blk, "..", CHOOSE q : Refers(blk, "..", q))
  BY <1>2
<1>. QED
  BY <1>2, <1>3

(* A file's bytes are not in a directory's block.                          *)
LEMMA PlainStarts ==
  ASSUME NoDotsInPaths, IInv, PlainFiles, NEW i \in Usable \ DirRecs, inodes[i].len > 0
  PROVE  inodes[i].start \in blockBitmap \ DirStarts
<1>1. i \in Inodes /\ inodes[i].kind = "reg"
  BY UsableInodes DEF PlainFiles
<1>2. /\ inodes[i].size \in Nat /\ inodes[i].start \in Int
      /\ inodes[i].len \in Nat
  BY <1>1, InodeFields, Constants DEF IInv, Blocks
<1>3. inodes[i].size > 0
  <2>1. inodes[i].len = CeilDiv(inodes[i].size, BlockSize)
    BY <1>1 DEF IInv, SizesFitRuns
  <2>2. inodes[i].size = 0 => CeilDiv(inodes[i].size, BlockSize) = 0
    BY <1>2, CeilDivZero, Constants
  <2>. QED
    BY <1>2, <2>1, <2>2
<1>4. inodes[i].start \in OwnRun(inodes[i])
  BY <1>2, <1>3 DEF OwnRun, RunBits
<1>5. OwnRun(inodes[i]) \subseteq blockBitmap
  BY DEF IInv, BlocksOwnedOnce
<1>6. \A d \in DirRecs : inodes[i].start # inodes[d].start
  <2>. SUFFICES ASSUME NEW d \in DirRecs PROVE inodes[i].start # inodes[d].start
    OBVIOUS
  <2>1. OwnRun(inodes[i]) \cap OwnRun(inodes[d]) = {}
    BY UsableInodes DEF IInv, BlocksOwnedOnce
  <2>2. inodes[d].start \in OwnRun(inodes[d])
    BY StartsApart
  <2>. QED
    BY <1>4, <2>1, <2>2
<1>. QED
  BY <1>4, <1>5, <1>6 DEF DirStarts

(* The old files stay plain as long as only directories' blocks and free   *)
(* ones are written.                                                       *)
LEMMA PlainKept ==
  ASSUME NoDotsInPaths, IInv, PlainFiles, NEW fresh,
         Usable' \subseteq Usable \cup fresh,
         \A i \in fresh \ DirRecs' : inodes'[i].len > 0 =>
           inodes'[i].kind = "reg" /\ dirBlocks'[inodes'[i].start] = {},
         \A i \in Usable \cap DirRecs : i \in Usable' => i \in DirRecs' \cup fresh,
         \A i \in Usable \ (DirRecs \cup fresh) : inodes'[i].len > 0 =>
           /\ inodes[i].len > 0 /\ inodes'[i].kind = inodes[i].kind
           /\ inodes'[i].start = inodes[i].start,
         \A b \in blockBitmap \ DirStarts : dirBlocks'[b] = dirBlocks[b]
  PROVE  PlainFiles'
<1>. SUFFICES ASSUME NEW i \in Usable', i \notin DirRecs', inodes'[i].len > 0
     PROVE  inodes'[i].kind = "reg" /\ dirBlocks'[inodes'[i].start] = {}
  BY DEF PlainFiles
<1>1. CASE i \in fresh
  BY <1>1
<1>2. CASE i \notin fresh
  <2>1. i \in Usable \ DirRecs
    BY <1>2
  <2>2. /\ inodes[i].len > 0 /\ inodes'[i].kind = inodes[i].kind
        /\ inodes'[i].start = inodes[i].start
    BY <1>2, <2>1
  <2>3. inodes[i].kind = "reg" /\ dirBlocks[inodes[i].start] = {}
    BY <2>1, <2>2 DEF PlainFiles
  <2>4. inodes[i].start \in blockBitmap \ DirStarts
    BY <2>1, <2>2, PlainStarts
  <2>. QED
    BY <2>2, <2>3, <2>4
<1>. QED
  BY <1>1, <1>2

LEMMA TypesKept ==
  ASSUME NoDotsInPaths, IInv, DotsAndTypes,
         \A d \in DirRecs' : \A n, j, f : Lists(Block(d)', n, j, f) =>
           \/ d \in DirRecs /\ Lists(Block(d), n, j, f)
           \/ n = "." /\ j = d /\ f = FtDir
           \/ n = ".." /\ f = FtDir
           \/ n \in Names /\ f = FtOf(inodes'[j].kind),
         \A j \in Usable : inodes'[j].kind = inodes[j].kind
  PROVE  DotsAndTypes'
<1>. SUFFICES ASSUME NEW d \in DirRecs', NEW n, NEW j, NEW f, Lists(Block(d)', n, j, f)
     PROVE  /\ n = "." => j = d /\ f = FtDir
            /\ n = ".." => f = FtDir
            /\ n \in Names => f = FtOf(inodes'[j].kind)
  BY DEF DotsAndTypes
<1>1. CASE d \in DirRecs /\ Lists(Block(d), n, j, f)
  <2>1. /\ n = "." => j = d /\ f = FtDir
        /\ n = ".." => f = FtDir
        /\ n \in Names => f = FtOf(inodes[j].kind)
    BY <1>1 DEF DotsAndTypes
  <2>2. n \in Names => j \in Usable
    <3>1. Refers(Block(d), n, j)
      BY <1>1, RefersLists
    <3>2. j \in Inodes
      <4>1. Sound(Block(d), Inodes)
        BY <1>1 DEF IInv, DirsSound, DirectoryBlock
      <4>2. \A e \in Block(d) : e.inode \in Inodes
        BY <4>1, SoundEntry
      <4>. QED
        BY <3>1, <4>2 DEF Refers
    <3>. QED
      BY <1>1, <3>1, <3>2 DEF IInv, RefsUsable
  <2>. QED
    BY <2>1, <2>2
<1>2. CASE ~ (d \in DirRecs /\ Lists(Block(d), n, j, f))
  BY <1>2, Constants
<1>. QED
  BY <1>1, <1>2

-----------------------------------------------------------------------------
(* The tree through a step of each kind.                                   *)
LEMMA StayTree ==
  ASSUME TreeNow, Usable' = Usable, DirRecs' = DirRecs,
         KidsOf' = KidsOf, UpOf' = UpOf, LinksOf' = LinksOf
  PROVE  TreeNow' /\ Reached' = Reached
BY DEF TreeNow, Reached

LEMMA LeakTree ==
  ASSUME TreeNow, NEW i, Usable' = Usable \cup {i},
         Leaks(Usable, DirRecs, KidsOf, UpOf, LinksOf, i, DirRecs', KidsOf', UpOf', LinksOf')
  PROVE  TreeNow' /\ Reached' = Reached
<1>1. /\ Rooted(Usable, DirRecs, KidsOf) /\ UpwardOK(DirRecs, KidsOf, UpOf)
      /\ LinksOK(Usable, DirRecs, KidsOf, LinksOf)
  BY DEF TreeNow
<1>2. /\ Reach(Usable \cup {i}, KidsOf') = Reach(Usable, KidsOf)
      /\ Rooted(Usable \cup {i}, DirRecs', KidsOf')
  BY <1>1, TreeLeaks
<1>3. /\ UpwardOK(DirRecs', KidsOf', UpOf')
      /\ LinksOK(Usable \cup {i}, DirRecs', KidsOf', LinksOf')
  BY <1>1, LinksLeak
<1>. QED
  BY <1>2, <1>3 DEF TreeNow, Reached

LEMMA EnterTree ==
  ASSUME TreeNow, IsFiniteSet(Usable), NEW i, NEW d, Usable' = Usable \cup {i},
         Enters(Usable, DirRecs, KidsOf, UpOf, LinksOf, i, d,
                DirRecs', KidsOf', UpOf', LinksOf')
  PROVE  TreeNow' /\ Reached' = Reached \cup {i}
<1>1. /\ Rooted(Usable, DirRecs, KidsOf) /\ UpwardOK(DirRecs, KidsOf, UpOf)
      /\ LinksOK(Usable, DirRecs, KidsOf, LinksOf)
  BY DEF TreeNow
<1>2. /\ Reach(Usable \cup {i}, KidsOf') = Reach(Usable, KidsOf) \cup {i}
      /\ Rooted(Usable \cup {i}, DirRecs', KidsOf')
  BY <1>1, TreeEnters
<1>3. /\ UpwardOK(DirRecs', KidsOf', UpOf')
      /\ LinksOK(Usable \cup {i}, DirRecs', KidsOf', LinksOf')
  BY <1>1, LinksEnter
<1>. QED
  BY <1>2, <1>3 DEF TreeNow, Reached

LEMMA DropTree ==
  ASSUME TreeNow, IsFiniteSet(Usable), NEW d, NEW t,
         Usable' = Usable \ {t}, DirRecs' = DirRecs \ {t},
         Drops(Usable, DirRecs, KidsOf, UpOf, LinksOf, d, t, KidsOf', UpOf', LinksOf')
  PROVE  TreeNow' /\ Reached' = Reached \ {t}
<1>1. /\ Rooted(Usable, DirRecs, KidsOf) /\ UpwardOK(DirRecs, KidsOf, UpOf)
      /\ LinksOK(Usable, DirRecs, KidsOf, LinksOf)
  BY DEF TreeNow
<1>2. /\ Reach(Usable \ {t}, KidsOf') = Reach(Usable, KidsOf) \ {t}
      /\ Rooted(Usable \ {t}, DirRecs \ {t}, KidsOf')
  BY <1>1, TreeDrops
<1>3. /\ UpwardOK(DirRecs \ {t}, KidsOf', UpOf')
      /\ LinksOK(Usable \ {t}, DirRecs \ {t}, KidsOf', LinksOf')
  BY <1>1, LinksDrop
<1>. QED
  BY <1>2, <1>3 DEF TreeNow, Reached

(* A move between directories, which may first drop a file t of the        *)
(* destination: C1 are the children in between.                            *)
Clears(t, d2, C1) ==
  /\ t \notin DirRecs
  /\ \/ t \notin Usable /\ C1 = KidsOf
     \/ Drops(Usable, DirRecs, KidsOf, UpOf, LinksOf, d2, t, C1, UpOf, LinksOf)

LEMMA ClearedTree ==
  ASSUME TreeNow, IsFiniteSet(Usable), NEW d2, NEW t, NEW C1, Clears(t, d2, C1)
  PROVE  /\ Reach(Usable \ {t}, C1) = Reached \ {t} /\ Rooted(Usable \ {t}, DirRecs, C1)
         /\ UpwardOK(DirRecs, C1, UpOf) /\ LinksOK(Usable \ {t}, DirRecs, C1, LinksOf)
<1>1. /\ Rooted(Usable, DirRecs, KidsOf) /\ UpwardOK(DirRecs, KidsOf, UpOf)
      /\ LinksOK(Usable, DirRecs, KidsOf, LinksOf)
  BY DEF TreeNow
<1>2. DirRecs \ {t} = DirRecs
  BY DEF Clears
<1>3. CASE t \notin Usable /\ C1 = KidsOf
  <2>1. Usable \ {t} = Usable /\ Reached \ {t} = Reached
    BY <1>3 DEF Reached, Reach
  <2>. QED
    BY <1>1, <1>3, <2>1 DEF Reached
<1>4. CASE Drops(Usable, DirRecs, KidsOf, UpOf, LinksOf, d2, t, C1, UpOf, LinksOf)
  <2>1. /\ Reach(Usable \ {t}, C1) = Reach(Usable, KidsOf) \ {t}
        /\ Rooted(Usable \ {t}, DirRecs \ {t}, C1)
    BY <1>1, <1>4, TreeDrops
  <2>2. /\ UpwardOK(DirRecs \ {t}, C1, UpOf)
        /\ LinksOK(Usable \ {t}, DirRecs \ {t}, C1, LinksOf)
    BY <1>1, <1>4, LinksDrop
  <2>. QED
    BY <1>2, <2>1, <2>2 DEF Reached
<1>. QED
  BY <1>3, <1>4 DEF Clears

LEMMA MoveTree ==
  ASSUME TreeNow, IsFiniteSet(Usable), NEW s, NEW d1, NEW d2, NEW t, NEW C1,
         Usable' = Usable \ {t}, DirRecs' = DirRecs, Clears(t, d2, C1),
         Moves(Usable \ {t}, DirRecs, C1, UpOf, LinksOf, s, d1, d2,
               KidsOf', UpOf', LinksOf')
  PROVE  TreeNow' /\ Reached' = Reached \ {t}
<1>1. /\ Reach(Usable \ {t}, C1) = Reached \ {t} /\ Rooted(Usable \ {t}, DirRecs, C1)
      /\ UpwardOK(DirRecs, C1, UpOf) /\ LinksOK(Usable \ {t}, DirRecs, C1, LinksOf)
  BY ClearedTree
<1>2. IsFiniteSet(Usable \ {t})
  BY FS_Difference
<1>3. /\ Reach(Usable \ {t}, KidsOf') = Reach(Usable \ {t}, C1)
      /\ Rooted(Usable \ {t}, DirRecs, KidsOf')
  BY <1>1, TreeMoves
<1>4. /\ UpwardOK(DirRecs, KidsOf', UpOf')
      /\ LinksOK(Usable \ {t}, DirRecs, KidsOf', LinksOf')
  BY <1>1, <1>2, LinksMove
<1>. QED
  BY <1>1, <1>3, <1>4 DEF TreeNow, Reached

(* The count of directories through each of them.                          *)
LEMMA DirsKeptCount ==
  ASSUME DirsCounted, DirRecs' \cap Reached' = DirRecs \cap Reached,
         counts'.usedDirs = counts.usedDirs, diskCounts'.usedDirs = counts'.usedDirs
  PROVE  DirsCounted'
BY DEF DirsCounted

LEMMA DirsEnter ==
  ASSUME IsFiniteSet(Usable), DirsCounted, NEW i, i \notin Usable,
         DirRecs' = DirRecs \cup {i}, Reached' = Reached \cup {i},
         counts'.usedDirs = counts.usedDirs + 1, diskCounts'.usedDirs = counts'.usedDirs
  PROVE  DirsCounted'
<1>1. IsFiniteSet(DirRecs \cap Reached) /\ i \notin DirRecs \cap Reached
  <2>1. DirRecs \cap Reached \in SUBSET Usable
    BY DEF DirRecs
  <2>. QED
    BY <2>1, FS_Subset
<1>2. DirRecs' \cap Reached' = (DirRecs \cap Reached) \cup {i}
  BY DEF DirRecs, Reached, Reach
<1>3. Cardinality((DirRecs \cap Reached) \cup {i}) = Cardinality(DirRecs \cap Reached) + 1
  BY <1>1, FS_AddElement
<1>4. Cardinality(DirRecs' \cap Reached') = Cardinality(DirRecs \cap Reached) + 1
  BY <1>2, <1>3, Zenon
<1>. QED
  BY <1>4 DEF DirsCounted

LEMMA DirsDrop ==
  ASSUME IsFiniteSet(Usable), DirsCounted, NEW t \in DirRecs, t \in Reached,
         DirRecs' = DirRecs \ {t}, Reached' = Reached \ {t},
         counts'.usedDirs = SatSub(counts.usedDirs, 1),
         diskCounts'.usedDirs = counts'.usedDirs
  PROVE  DirsCounted'
<1>1. IsFiniteSet(DirRecs \cap Reached)
  <2>1. DirRecs \cap Reached \in SUBSET Usable
    BY DEF DirRecs
  <2>. QED
    BY <2>1, FS_Subset
<1>2. DirRecs' \cap Reached' = (DirRecs \cap Reached) \ {t}
  OBVIOUS
<1>3. /\ Cardinality((DirRecs \cap Reached) \ {t}) = Cardinality(DirRecs \cap Reached) - 1
      /\ Cardinality(DirRecs \cap Reached) \in Nat
      /\ Cardinality((DirRecs \cap Reached) \ {t}) \in Nat
  <2>1. IsFiniteSet((DirRecs \cap Reached) \ {t})
    BY <1>1, FS_Difference
  <2>. QED
    BY <1>1, <2>1, FS_RemoveElement, FS_CardinalityType
<1>4. Cardinality(DirRecs' \cap Reached') = Cardinality((DirRecs \cap Reached) \ {t})
  BY <1>2, Zenon
<1>. QED
  BY <1>3, <1>4 DEF DirsCounted, SatSub

-----------------------------------------------------------------------------
(* The properties' vocabulary, in terms of the tree.                       *)
LEMMA ChildrenAre ==
  NoDotsInPaths /\ IInv /\ PlainFiles => \A i \in Usable : Children(i) = KidsOf[i]
<1>. SUFFICES ASSUME NoDotsInPaths, IInv, PlainFiles, NEW i \in Usable
     PROVE  Children(i) = KidsOf[i]
  OBVIOUS
<1>1. i \in Inodes /\ inodes[i].len \in Nat
  BY UsableInodes, InodeFields, Constants DEF IInv
<1>2. CASE i \in DirRecs
  <2>1. DirEntries(inodes[i]) = Block(i)
    BY <1>2 DEF DirEntries, Block, DirRecs
  <2>2. \A e \in Block(i) : e.inode \in Inodes /\ ~ IsUnused(e)
                            /\ (e.name \notin Dots <=> e.name \in Names)
    <3>1. Sound(Block(i), Inodes)
      BY <1>2 DEF IInv, DirsSound, DirectoryBlock
    <3>2. \A e \in Block(i) : e.inode \in Inodes /\ e.name \in Names \cup Dots
      BY <3>1, SoundEntry DEF AllNames
    <3>3. Names \cap Dots = {}
      BY Constants DEF Dots
    <3>4. 0 \notin Inodes
      BY Constants
    <3>. QED
      BY <3>2, <3>3, <3>4 DEF IsUnused
  <2>3. Children(i) = {e.inode : e \in {f \in Block(i) : f.name \in Names}}
    BY <2>1, <2>2 DEF Children, Live
  <2>4. KidsOf[i] = {j \in Inodes : \E n \in Names : Refers(Block(i), n, j)}
    BY <1>1, <1>2 DEF KidsOf
  <2>. QED
    BY <2>2, <2>3, <2>4 DEF Refers
<1>3. CASE i \notin DirRecs
  <2>1. DirEntries(inodes[i]) = {}
    BY <1>1, <1>3 DEF DirEntries, PlainFiles
  <2>2. Children(i) = {}
    BY <2>1 DEF Children, Live
  <2>. QED
    BY <1>1, <1>3, <2>2 DEF KidsOf
<1>. QED
  BY <1>2, <1>3

LEMMA ReachableIs ==
  NoDotsInPaths /\ IInv /\ PlainFiles => Reachable = Reached
<1>. SUFFICES ASSUME NoDotsInPaths, IInv, PlainFiles PROVE Reachable = Reached
  OBVIOUS
<1>1. \A i \in Usable : Children(i) = KidsOf[i]
  BY ChildrenAre
<1>2. \A S \in SUBSET Usable : Closed(S) <=> ClosedIn(S, KidsOf)
  BY <1>1 DEF Closed, ClosedIn
<1>. QED
  BY <1>2 DEF Reachable, Reached, Reach

(* What can be reached is a directory with a block, or no directory.       *)
LEMMA ReachedResolves ==
  NoDotsInPaths /\ IInv /\ TreeNow =>
    /\ Root \in Reached /\ Reached \subseteq Usable
    /\ \A d \in DirRecs : KidsOf[d] \subseteq Reached
    /\ \A i \in Reached : inodes[i].kind = "dir" => i \in DirRecs
<1>. SUFFICES ASSUME NoDotsInPaths, IInv, TreeNow
     PROVE  /\ Root \in Reached /\ Reached \subseteq Usable
            /\ \A d \in DirRecs : KidsOf[d] \subseteq Reached
            /\ \A i \in Reached : inodes[i].kind = "dir" => i \in DirRecs
  OBVIOUS
<1>1. Rooted(Usable, DirRecs, KidsOf)
  BY DEF TreeNow
<1>2. Root \in Reached /\ Reached \subseteq Usable
  BY <1>1 DEF Rooted, Reached, Reach
<1>3. \A d \in DirRecs : KidsOf[d] \subseteq Reached
  BY <1>1 DEF Rooted, Reached
<1>4. ASSUME NEW i \in Reached, inodes[i].kind = "dir" PROVE i \in DirRecs
  <2>1. CASE i = Root
    BY <1>1, <2>1 DEF Rooted
  <2>2. CASE i # Root
    <3>1. PICK d \in DirRecs : i \in KidsOf[d]
      BY <1>1, <2>2, ReachedHasParent DEF Reached
    <3>2. i \in Inodes /\ \E n \in Names : Refers(Block(d), n, i)
      BY <3>1, UsableInodes DEF KidsOf
    <3>. QED
      BY <1>4, <3>2 DEF IInv, RefsUsable
  <2>. QED
    BY <2>1, <2>2
<1>. QED
  BY <1>2, <1>3, <1>4

(* A path leads to what can be reached.                                    *)
LEMMA PathReached ==
  ASSUME NoDotsInPaths, IInv, TreeNow, NEW path \in FullPaths
  PROVE  OpenPath(path) \in Reached \cup {NoInode}
<1>. DEFINE G == Reached \cup {NoInode}
<1>1. /\ Root \in Reached /\ Reached \subseteq Usable
      /\ \A d \in DirRecs : KidsOf[d] \subseteq Reached
      /\ \A i \in Reached : inodes[i].kind = "dir" => i \in DirRecs
  BY ReachedResolves
<1>2. ASSUME NEW i \in G, NEW name \in PathNames PROVE Walk(i, name) \in G
  <2>1. CASE ~ IsDir(i)
    BY <2>1 DEF Walk
  <2>2. CASE IsDir(i)
    <3>1. i \in DirRecs /\ i \in Inodes
      BY <1>1, <2>2, Constants DEF IsDir, NoInode
    <3>2. name \in Names
      BY Constants
    <3>3. Lookup(i, name) # NoInode =>
            Lookup(i, name) \in Inodes /\ Refers(Block(i), name, Lookup(i, name))
      BY <3>1, LookupResolves
    <3>4. Lookup(i, name) = NoInode \/ Lookup(i, name) \in KidsOf[i]
      BY <3>1, <3>2, <3>3 DEF KidsOf
    <3>. QED
      BY <1>1, <2>2, <3>1, <3>4 DEF Walk
  <2>. QED
    BY <2>1, <2>2
<1>. HIDE DEF G
<1>3. OpenPath(path) \in G
  BY <1>1, <1>2, OpenPathStays DEF G
<1>. QED
  BY <1>3 DEF G

(* A directory found by a path is reached, a child found in it too.        *)
LEMMA FoundReached ==
  ASSUME NoDotsInPaths, IInv, TreeNow, NEW path \in Paths, IsDir(OpenPath(path))
  PROVE  OpenPath(path) \in DirRecs /\ OpenPath(path) \in Reached
<1>1. OpenPath(path) \in Reached \cup {NoInode}
  BY PathReached, PathsAreFull
<1>2. OpenPath(path) # NoInode
  BY Constants DEF IsDir, NoInode
<1>. QED
  BY <1>1, <1>2, PathIsDir

-----------------------------------------------------------------------------
(* What has leaked, in terms of the tree, and the blocks through each kind *)
(* of step.                                                                *)
LostBlocks == blockBitmap \ (0 .. (RootBlock - 1) \cup Owned(Reached))

KeepsLeaks == Usable' \ Reached' = Usable \ Reached /\ LostBlocks' = LostBlocks

Kept == TreeParts' /\ (outcome' \in {"ok", "same"} => KeepsLeaks)

LEMMA BlocksTaken ==
  ASSUME NoDotsInPaths, IInv, NEW i \in Inodes \ Usable, NEW new,
         Usable' = Usable \cup {i}, Reached' = Reached \cup {i},
         new \cap blockBitmap = {}, blockBitmap' = blockBitmap \cup new,
         OwnRun(inodes'[i]) = new,
         \A j \in Inodes \ {i} : OwnRun(inodes'[j]) = OwnRun(inodes[j])
  PROVE  KeepsLeaks
<1>1. Reached \subseteq Usable /\ Usable \subseteq Inodes
  BY UsableInodes DEF Reached, Reach
<1>2. Owned(Reached)' = Owned(Reached) \cup new
  BY <1>1 DEF Owned
<1>. QED
  BY <1>1, <1>2 DEF KeepsLeaks, LostBlocks

LEMMA BlocksFreed ==
  ASSUME NoDotsInPaths, IInv, NEW t \in Reached, NEW freed,
         freed \subseteq OwnRun(inodes[t]), blockBitmap' = blockBitmap \ freed,
         \A j \in Inodes \ {t} : OwnRun(inodes'[j]) = OwnRun(inodes[j]),
         \/ /\ Usable' = Usable \ {t} /\ Reached' = Reached \ {t}
            /\ freed = OwnRun(inodes[t])
         \/ /\ Usable' = Usable /\ Reached' = Reached
            /\ OwnRun(inodes'[t]) = OwnRun(inodes[t]) \ freed
  PROVE  KeepsLeaks
<1>1. Reached \subseteq Usable /\ Usable \subseteq Inodes
  BY UsableInodes DEF Reached, Reach
<1>2. \A j \in Reached \ {t} : OwnRun(inodes[j]) \cap freed = {}
  BY <1>1 DEF IInv, BlocksOwnedOnce
<1>3. Owned(Reached)' = Owned(Reached) \ freed
  BY <1>1, <1>2 DEF Owned
<1>4. freed \subseteq Owned(Reached)
  BY DEF Owned
<1>. QED
  BY <1>1, <1>3, <1>4 DEF KeepsLeaks, LostBlocks

LEMMA BlocksSame ==
  ASSUME NoDotsInPaths, IInv, Usable' = Usable, Reached' = Reached,
         blockBitmap' = blockBitmap,
         \A j \in Inodes : OwnRun(inodes'[j]) = OwnRun(inodes[j])
  PROVE  KeepsLeaks
<1>1. Reached \subseteq Usable /\ Usable \subseteq Inodes
  BY UsableInodes DEF Reached, Reach
<1>. QED
  BY <1>1 DEF KeepsLeaks, LostBlocks, Owned

-----------------------------------------------------------------------------
(* The actions.  First those after which every directory is as it was.     *)
SameDirs == counts'.usedDirs = counts.usedDirs /\ diskCounts'.usedDirs = counts'.usedDirs

LEMMA QuietTree ==
  ASSUME NoDotsInPaths, TreeIInv, SameDirs,
         UNCHANGED <<inodeBitmap, dirBlocks>>,
         \A i \in Inodes : inodes'[i].kind = inodes[i].kind
                           /\ inodes'[i].links = inodes[i].links,
         \A i \in Inodes : inodes[i].kind = "dir" => inodes'[i] = inodes[i],
         \A i \in Inodes : inodes'[i].len > 0 =>
           inodes[i].len > 0 /\ inodes'[i].start = inodes[i].start
  PROVE  TreeParts' /\ Reached' = Reached
<1>. USE DEF TreeIInv, TreeParts
<1>1. Usable' = Usable /\ Usable \subseteq Inodes
  BY UsableInodes DEF Usable
<1>2. DirRecs' = DirRecs /\ DirRecs \subseteq Inodes
  BY <1>1 DEF DirRecs
<1>3. \A d \in DirRecs : Block(d)' = Block(d) /\ inodes[d].kind = "dir"
  BY <1>2 DEF Block, DirRecs
<1>4. KidsOf' = KidsOf
  <2>1. \A i \in Inodes : KidsOf'[i] = KidsOf[i]
    BY <1>2, <1>3, ZenonT(60) DEF KidsOf
  <2>. QED
    BY <2>1 DEF KidsOf
<1>5. UpOf' = UpOf
  <2>1. \A d \in DirRecs : (CHOOSE p : Refers(Block(d), "..", p))' = CHOOSE p : Refers(Block(d), "..", p)
    BY <1>3
  <2>. QED
    BY <1>2, <2>1 DEF UpOf
<1>6. LinksOf' = LinksOf
  BY <1>1 DEF LinksOf
<1>7. TreeNow' /\ Reached' = Reached
  BY <1>1, <1>2, <1>4, <1>5, <1>6, StayTree
<1>8. DirsCounted'
  BY <1>2, <1>7, DirsKeptCount DEF SameDirs
<1>9. PlainFiles'
  BY <1>1, <1>2 DEF PlainFiles
<1>10. DotsAndTypes'
  <2>1. \A d \in DirRecs : \A n, j, f : Lists(Block(d)', n, j, f) => Lists(Block(d), n, j, f)
    BY <1>3
  <2>2. \A j \in Usable : inodes'[j].kind = inodes[j].kind
    BY <1>1
  <2>. QED
    BY <1>2, <2>1, <2>2, TypesKept
<1>. QED
  BY <1>7, <1>8, <1>9, <1>10

LEMMA DiskStays ==
  ASSUME NoDotsInPaths, TreeIInv, UNCHANGED disk, SameDirs
  PROVE  Kept
<1>1. UNCHANGED <<blockBitmap, inodeBitmap, inodes, dirBlocks>>
  BY DEF disk
<1>2. TreeParts' /\ Reached' = Reached
  BY <1>1, QuietTree
<1>3. KeepsLeaks
  BY <1>1, <1>2, BlocksSame DEF TreeIInv, Usable
<1>. QED
  BY <1>2, <1>3 DEF Kept

(* What changes nothing, or only which counts are believed.                *)
LEMMA IdleTree ==
  ASSUME NoDotsInPaths, TreeIInv,
         \/ Refuse \/ NoInodeLeft \/ Reopen \/ UNCHANGED vars
         \/ outcome' = "same" /\ UNCHANGED <<disk, diskCounts, counts>>
  PROVE  Kept
<1>1. UNCHANGED disk
  BY DEF Refuse, NoInodeLeft, Reopen, vars
<1>2. SameDirs
  BY DEF Refuse, NoInodeLeft, Reopen, vars, SameDirs, TreeIInv, TreeParts, DirsCounted
<1>. QED
  BY <1>1, <1>2, DiskStays

(* truncate changes the size and the tail of a file's run.                 *)
LEMMA ShrunkRow ==
  ASSUME NoDotsInPaths, IInv, NEW i \in Usable, inodes[i].kind = "reg",
         NEW size \in Nat, size < inodes[i].size
  PROVE  CeilDiv(size, BlockSize) \in Nat /\ CeilDiv(size, BlockSize) <= inodes[i].len
<1>1. i \in Inodes
  BY UsableInodes
<1>2. inodes[i].size \in Nat
  BY <1>1, InodeFields DEF IInv
<1>3. inodes[i].len = CeilDiv(inodes[i].size, BlockSize)
  BY DEF IInv, SizesFitRuns
<1>4. CeilDiv(size, BlockSize) <= CeilDiv(inodes[i].size, BlockSize)
  BY <1>2, Constants, CeilDivMonotone
<1>. QED
  BY <1>3, <1>4, Constants, CeilDivBounds

LEMMA TruncateTree ==
  ASSUME NoDotsInPaths, TreeIInv, NEW path \in FullPaths, NEW size \in FileSizes,
         Truncate(path, size)
  PROVE  Kept
<1>. DEFINE i == OpenPath(path)
<1>0. NoDotsInPaths /\ IInv /\ TreeNow /\ size \in Nat
  BY Constants DEF TreeIInv, TreeParts
<1>1. CASE Refuse \/ (outcome' = "same" /\ UNCHANGED <<disk, diskCounts, counts>>)
  BY <1>1, IdleTree
<1>2. ASSUME i \in Inodes, inodes[i].kind = "reg", ~ Refuse,
             Grow(i, size) \/ Shrink(i, size)
      PROVE  Kept
  <2>1. i \in Usable /\ i \in Reached
    <3>1. i # NoInode
      BY <1>0, <1>2, Constants DEF NoInode
    <3>. QED
      BY <1>0, <3>1, PathResolves, PathReached DEF Resolved
  <2>. HIDE DEF i
  <2>2. /\ inodes \in [Inodes -> InodeType] /\ inodes[i] \in InodeType
        /\ inodes[i].len \in Nat /\ inodes[i].size \in Nat /\ inodes[i].start \in Int
    BY <1>0, <1>2, InodeFields, Constants DEF IInv, TypeOK, Blocks
  <2>3. /\ \A j \in Inodes \ {i} : inodes'[j] = inodes[j]
        /\ inodes'[i].kind = "reg" /\ inodes'[i].links = inodes[i].links
        /\ inodes'[i].len > 0 => inodes[i].len > 0 /\ inodes'[i].start = inodes[i].start
        /\ \E freed \in SUBSET OwnRun(inodes[i]) :
             /\ blockBitmap' = blockBitmap \ freed
             /\ OwnRun(inodes'[i]) = OwnRun(inodes[i]) \ freed
    <3>1. CASE Grow(i, size)
      <4>1. inodes' = [inodes EXCEPT ![i] = [@ EXCEPT !.size = size]]
        BY <1>2, <3>1 DEF Grow
      <4>. DEFINE rec == [inodes[i] EXCEPT !.size = size]
      <4>2. rec.kind = "reg" /\ rec.links = inodes[i].links /\ rec.size = size
            /\ rec.len = inodes[i].len /\ rec.start = inodes[i].start
        BY <1>2, <2>2 DEF InodeType
      <4>3. inodes[i].size > 0 /\ size > 0
        <5>1. /\ size > inodes[i].size
              /\ size <= (IF inodes[i].size > 0 THEN inodes[i].len * BlockSize ELSE 0)
          BY <1>2, <3>1 DEF Grow
        <5>. QED
          BY <1>0, <2>2, <5>1
      <4>. HIDE DEF rec
      <4>4. inodes' = [inodes EXCEPT ![i] = rec]
        BY <4>1 DEF rec
      <4>5. OwnRun(rec) = OwnRun(inodes[i]) \ {}
        BY <4>2, <4>3 DEF OwnRun
      <4>6. blockBitmap' = blockBitmap \ {}
        BY <1>2, <3>1 DEF Grow
      <4>. QED
        BY <1>2, <2>2, <4>2, <4>4, <4>5, <4>6
    <3>2. CASE Shrink(i, size)
      <4>. DEFINE kept == CeilDiv(size, BlockSize)
                  start == IF kept = 0 THEN 0 ELSE inodes[i].start
                  rec == [inodes[i] EXCEPT !.size = size, !.len = kept, !.start = start]
                  run == RunBits(inodes[i].start, inodes[i].len)
                  tail == run \ RunBits(inodes[i].start, kept)
      <4>1. /\ size < inodes[i].size /\ blockBitmap' = blockBitmap \ tail
            /\ inodes' = [inodes EXCEPT ![i].size = size, ![i].len = kept,
                                        ![i].start = IF kept = 0 THEN 0 ELSE @]
        BY <3>2 DEF Shrink
      <4>2. kept \in Nat /\ kept <= inodes[i].len /\ (kept = 0 <=> size = 0)
        BY <1>0, <1>2, <2>1, <4>1, ShrunkRow, CeilDivZero, Constants
      <4>. HIDE DEF kept
      <4>3. inodes' = [inodes EXCEPT ![i] = rec]
        BY <1>2, <2>2, <4>1
      <4>4. kept > 0 => start = inodes[i].start
        OBVIOUS
      <4>. HIDE DEF start
      <4>5. rec.kind = "reg" /\ rec.links = inodes[i].links
            /\ rec.len = kept /\ rec.start = start /\ rec.size = size
        BY <1>2, <2>2 DEF InodeType
      <4>. HIDE DEF rec
      <4>6. OwnRun(inodes[i]) = run /\ RunBits(inodes[i].start, kept) \subseteq run
        BY <1>0, <2>2, <4>1, <4>2, SMTT(30) DEF OwnRun, RunBits
      <4>7. OwnRun(rec) = RunBits(inodes[i].start, kept)
        <5>1. kept = 0 => RunBits(inodes[i].start, kept) = {}
          BY <2>2 DEF RunBits
        <5>. QED
          BY <1>0, <4>2, <4>4, <4>5, <5>1 DEF OwnRun
      <4>8. OwnRun(rec) = run \ tail /\ tail \subseteq run
        BY <4>6, <4>7
      <4>. HIDE DEF run, tail
      <4>9. inodes'[i] = rec /\ \A j \in Inodes \ {i} : inodes'[j] = inodes[j]
        BY <1>2, <2>2, <4>3
      <4>10. \E freed \in SUBSET OwnRun(inodes[i]) :
               /\ blockBitmap' = blockBitmap \ freed
               /\ OwnRun(inodes'[i]) = OwnRun(inodes[i]) \ freed
        <5>1. tail \in SUBSET OwnRun(inodes[i])
          BY <4>6, <4>8
        <5>2. OwnRun(inodes'[i]) = OwnRun(inodes[i]) \ tail
          BY <4>6, <4>8, <4>9
        <5>. QED
          BY <4>1, <5>1, <5>2
      <4>. QED
        BY <2>2, <4>2, <4>4, <4>5, <4>9, <4>10
    <3>. QED
      BY <1>2, <3>1, <3>2
  <2>4. UNCHANGED <<inodeBitmap, dirBlocks>> /\ diskCounts' = counts'
    BY <1>2 DEF Grow, Shrink, Flush
  <2>5. SameDirs
    <3>1. counts \in CountsType
      BY <1>0 DEF IInv, TypeOK
    <3>2. counts'.usedDirs = counts.usedDirs
      BY <1>2, <3>1 DEF Grow, Shrink, CountsType
    <3>. QED
      BY <2>4, <3>2 DEF SameDirs
  <2>6. \A j \in Inodes : inodes'[j].kind = inodes[j].kind /\ inodes'[j].links = inodes[j].links
    BY <1>2, <2>3
  <2>7. \A j \in Inodes : inodes[j].kind = "dir" => inodes'[j] = inodes[j]
    BY <1>2, <2>3
  <2>8. \A j \in Inodes : inodes'[j].len > 0 =>
          inodes[j].len > 0 /\ inodes'[j].start = inodes[j].start
    BY <2>3
  <2>9. TreeParts' /\ Reached' = Reached
    BY <2>4, <2>5, <2>6, <2>7, <2>8, QuietTree
  <2>10. KeepsLeaks
    BY <1>0, <2>1, <2>3, <2>4, <2>9, BlocksFreed DEF Usable
  <2>. QED
    BY <2>9, <2>10 DEF Kept
<1>. QED
  BY <1>1, <1>2 DEF Truncate

-----------------------------------------------------------------------------
(* create_file, mkdir and symlink: an inode enters the tree or leaks.      *)
DotDotIs == \A k \in DirRecs : \A p : Refers(Block(k), "..", p) <=> p = UpOf[k]

LEMMA UpIs == IInv => DotDotIs
BY UpUnique DEF IInv, DirsSound, UpOf, DotDotIs

(* The blocks, with or without the new entry in the parent.                *)
LEMMA PlacedLists ==
  ASSUME NoDotsInPaths, IInv, NEW i \in Inodes, NEW d, NEW name, NEW rec,
         Placed(i, d, name, rec), NEW added \in BOOLEAN,
         IF added THEN Linked(i, d, name, rec) ELSE ParentFull(i, d, name, rec)
  PROVE  /\ \A k \in DirRecs : \A n, j, f :
              Lists(Block(k)', n, j, f)
                <=> \/ Lists(Block(k), n, j, f)
                    \/ added /\ k = d /\ n = name /\ j = i /\ f = FtOf(rec.kind)
         /\ rec.kind = "dir" => Block(i)' = FreshBlock(i, d)
         /\ \A b \in blockBitmap \ DirStarts : dirBlocks'[b] = dirBlocks[b]
         /\ rec.kind # "dir" /\ rec.len > 0 => dirBlocks'[rec.start] = {}
<1>. DEFINE blks == WithData(i, d, rec.start, rec.len, rec.kind)
<1>1. /\ d \in DirRecs /\ d \in Inodes /\ i \notin Usable /\ rec \in InodeType
      /\ RunBits(rec.start, rec.len) \subseteq Blocks \ blockBitmap
      /\ inodes'[i] = rec /\ \A k \in DirRecs : inodes'[k].start = inodes[k].start
      /\ rec.kind = "dir" => rec.len = 1
  BY DEF Placed, NewInode
<1>2. /\ AllSound(blks) /\ \A k \in DirRecs : At(blks, k) = Block(k)
      /\ rec.kind = "dir" => blks[rec.start] = FreshBlock(i, d)
  BY DEF Placed
<1>3. blockBitmap \subseteq Blocks /\ DirStarts \subseteq blockBitmap
  <2>1. \A k \in DirRecs : inodes[k].start \in OwnRun(inodes[k]) /\ k \in Usable
    BY StartsApart, UsableInodes
  <2>. QED
    BY <2>1 DEF DirStarts, IInv, TypeOK, BlocksOwnedOnce
<1>4. rec.start \in Blocks /\ (rec.len > 0 => rec.start \in RunBits(rec.start, rec.len))
  <2>1. rec.start \in Blocks /\ rec.start \in Int /\ rec.len \in Int
    BY <1>1, Constants DEF InodeType, Blocks
  <2>. QED
    BY <2>1 DEF RunBits
<1>5. /\ \A b \in blockBitmap : blks[b] = dirBlocks[b]
      /\ rec.kind # "dir" /\ rec.len > 0 => blks[rec.start] = {}
      /\ rec.len > 0 => rec.start \in Blocks \ DirStarts
  BY <1>1, <1>3, <1>4 DEF WithData
<1>6. dirBlocks' = IF added THEN AddedAt(blks, d, name, i, FtOf(rec.kind)) ELSE blks
  BY DEF Linked, ParentFull, AddedAt
<1>. HIDE DEF blks
<1>7. \A b \in Blocks \ DirStarts : dirBlocks'[b] = blks[b]
  BY <1>1, <1>2, <1>6, EditedStarts
<1>8. \A k \in DirRecs : \A n, j, f :
        Lists(At(dirBlocks', k), n, j, f)
          <=> \/ Lists(At(blks, k), n, j, f)
              \/ added /\ k = d /\ n = name /\ j = i /\ f = FtOf(rec.kind)
  <2>1. CASE added
    BY <1>1, <1>2, <1>6, <2>1, AddedLists
  <2>2. CASE ~ added
    BY <1>6, <2>2
  <2>. QED
    BY <2>1, <2>2
<1>9. \A k \in DirRecs : Block(k)' = At(dirBlocks', k)
  BY <1>1 DEF Block, At
<1>10. rec.kind = "dir" => Block(i)' = FreshBlock(i, d)
  BY <1>1, <1>2, <1>5, <1>7 DEF Block
<1>. QED
  BY <1>2, <1>3, <1>5, <1>7, <1>8, <1>9, <1>10

LEMMA KidsAre ==
  NoDotsInPaths /\ IInv =>
    /\ \A k \in Inodes \ DirRecs : KidsOf[k] = {}
    /\ \A k \in DirRecs : \A j : j \in KidsOf[k] <=>
         j \in Inodes /\ \E n \in Names : \E f : Lists(Block(k), n, j, f)
BY UsableInodes, RefersLists DEF KidsOf

LEMMA UsableFinite ==
  ASSUME NoDotsInPaths, IInv PROVE IsFiniteSet(Usable)
<1>1. IsFiniteSet(Inodes)
  BY Constants, FS_Interval DEF Inodes
<1>. QED
  BY <1>1, UsableInodes, FS_Subset

LEMMA PlacedTree ==
  ASSUME NoDotsInPaths, TreeIInv, IInv', NEW i \in Inodes, NEW d, NEW name, NEW rec,
         Placed(i, d, name, rec), NEW added \in BOOLEAN, added => d \in Reached,
         IF added THEN Linked(i, d, name, rec) ELSE ParentFull(i, d, name, rec),
         rec.links = IF rec.kind = "dir" THEN 2 ELSE 1,
         rec.len > 0 => rec.kind \in {"dir", "reg"}
  PROVE  TreeParts' /\ Reached' = IF added THEN Reached \cup {i} ELSE Reached
<1>0. NoDotsInPaths /\ IInv /\ PlainFiles /\ DotsAndTypes /\ TreeNow /\ DirsCounted
  BY DEF TreeIInv, TreeParts
<1>1. /\ d \in DirRecs /\ d \in Inodes /\ d # i /\ i \notin Usable /\ rec \in InodeType
      /\ name \in Names /\ \A e \in Block(d) : e.name # name
      /\ Usable' = Usable \cup {i}
      /\ DirRecs' = DirRecs \cup (IF rec.kind = "dir" THEN {i} ELSE {})
      /\ inodes'[i] = rec
      /\ \A j \in Inodes \ {i} : /\ inodes'[j].kind = inodes[j].kind
                                 /\ inodes'[j].start = inodes[j].start
                                 /\ inodes'[j].len = inodes[j].len
  BY DEF Placed, NewInode
<1>2. Usable \subseteq Inodes /\ DirRecs \subseteq Usable /\ i \notin DirRecs
  BY <1>0, <1>1, UsableInodes
<1>3. /\ \A k \in DirRecs : \A n, j, f :
           Lists(Block(k)', n, j, f)
             <=> \/ Lists(Block(k), n, j, f)
                 \/ added /\ k = d /\ n = name /\ j = i /\ f = FtOf(rec.kind)
      /\ rec.kind = "dir" => Block(i)' = FreshBlock(i, d)
      /\ \A b \in blockBitmap \ DirStarts : dirBlocks'[b] = dirBlocks[b]
      /\ rec.kind # "dir" /\ rec.len > 0 => dirBlocks'[rec.start] = {}
  BY <1>0, PlacedLists
<1>4. rec.kind = "dir" => \A n, j, f : Lists(Block(i)', n, j, f)
                            <=> f = FtDir /\ \/ n = "." /\ j = i
                                             \/ n = ".." /\ j = d
  BY <1>3, FreshLists
<1>5. "." \notin Names /\ ".." \notin Names
  BY <1>0, Constants
<1>6. /\ \A k \in Usable \ {d} : KidsOf'[k] = KidsOf[k]
      /\ KidsOf'[d] = KidsOf[d] \cup (IF added THEN {i} ELSE {})
      /\ KidsOf'[i] = {}
  <2>1. /\ \A k \in Inodes \ DirRecs : KidsOf[k] = {}
        /\ \A k \in DirRecs : \A j : j \in KidsOf[k] <=>
             j \in Inodes /\ \E n \in Names : \E f : Lists(Block(k), n, j, f)
    BY <1>0, KidsAre
  <2>2. (NoDotsInPaths /\ IInv =>
          /\ \A k \in Inodes \ DirRecs : KidsOf[k] = {}
          /\ \A k \in DirRecs : \A j : j \in KidsOf[k] <=>
               j \in Inodes /\ \E n \in Names : \E f : Lists(Block(k), n, j, f))'
    BY KidsAre, PTL
  <2>3. /\ \A k \in Inodes \ DirRecs' : KidsOf'[k] = {}
        /\ \A k \in DirRecs' : \A j : j \in KidsOf'[k] <=>
             j \in Inodes /\ \E n \in Names : \E f : Lists(Block(k)', n, j, f)
    BY <2>2
  <2>4. \A k \in Usable \ {d} : KidsOf'[k] = KidsOf[k]
    <3>1. \A k \in Usable \ DirRecs : KidsOf'[k] = KidsOf[k]
      BY <1>1, <1>2, <2>1, <2>3
    <3>2. ASSUME NEW k \in DirRecs \ {d} PROVE KidsOf'[k] = KidsOf[k]
      <4>1. \A n, j, f : Lists(Block(k)', n, j, f) <=> Lists(Block(k), n, j, f)
        BY <1>3
      <4>2. \A j : j \in KidsOf'[k] <=> j \in KidsOf[k]
        BY <1>1, <2>1, <2>3, <4>1
      <4>. QED
        BY <2>1, <2>3, <4>2 DEF KidsOf
    <3>. QED
      BY <3>1, <3>2
  <2>5. KidsOf'[d] = KidsOf[d] \cup (IF added THEN {i} ELSE {})
    BY <1>1, <1>3, <2>1, <2>3
  <2>6. KidsOf'[i] = {}
    BY <1>1, <1>2, <1>4, <1>5, <2>3
  <2>. QED
    BY <2>4, <2>5, <2>6
<1>7. (\A k \in DirRecs : UpOf'[k] = UpOf[k]) /\ (i \in DirRecs' => UpOf'[i] = d)
  <2>1. \A k \in DirRecs : \A p : Refers(Block(k), "..", p) <=> p = UpOf[k]
    BY <1>0, UpIs DEF DotDotIs
  <2>2. (IInv => DotDotIs)'
    BY UpIs, PTL
  <2>3. \A k \in DirRecs' : \A p : Refers(Block(k)', "..", p) <=> p = UpOf'[k]
    BY <2>2 DEF DotDotIs
  <2>4. \A k \in DirRecs : Refers(Block(k)', "..", UpOf[k])
    <3>1. \A k \in DirRecs : Refers(Block(k), "..", UpOf[k])
      BY <2>1
    <3>. QED
      BY <1>3, <3>1, RefersLists
  <2>5. \A k \in DirRecs : UpOf'[k] = UpOf[k]
    BY <1>1, <2>3, <2>4
  <2>6. i \in DirRecs' => Refers(Block(i)', "..", d)
    BY <1>1, <1>2, <1>4, RefersLists
  <2>. QED
    BY <2>3, <2>5, <2>6
<1>8. /\ \A k \in Usable \ {d} : LinksOf'[k] = LinksOf[k]
      /\ LinksOf'[i] = rec.links
      /\ LinksOf'[d] = IF added /\ rec.kind = "dir" THEN LinksOf[d] + 1 ELSE LinksOf[d]
  <2>1. inodes \in [Inodes -> InodeType] /\ inodes[d] \in InodeType
    BY <1>0, <1>1 DEF IInv, TypeOK
  <2>2. /\ \A k \in Usable \ {d} : inodes'[k] = inodes[k]
        /\ inodes'[d].links = IF added /\ rec.kind = "dir" THEN inodes[d].links + 1
                                                           ELSE inodes[d].links
    <3>1. CASE added
      <4>1. inodes' = [inodes EXCEPT ![i] = rec,
                         ![d].links = IF rec.kind = "dir" THEN @ + 1 ELSE @]
        BY <3>1 DEF Linked
      <4>. QED
        BY <1>1, <1>2, <2>1, <3>1, <4>1 DEF InodeType
    <3>2. CASE ~ added
      <4>1. inodes' = [inodes EXCEPT ![i] = rec]
        BY <3>2 DEF ParentFull
      <4>. QED
        BY <1>1, <1>2, <2>1, <3>2, <4>1
    <3>. QED
      BY <3>1, <3>2
  <2>. QED
    BY <1>1, <1>2, <2>2 DEF LinksOf
<1>9. PlainFiles'
  <2>1. \A j \in {i} \ DirRecs' : inodes'[j].len > 0 =>
          inodes'[j].kind = "reg" /\ dirBlocks'[inodes'[j].start] = {}
    BY <1>1, <1>3
  <2>2. \A j \in Usable \ (DirRecs \cup {i}) : inodes'[j].len > 0 =>
          /\ inodes[j].len > 0 /\ inodes'[j].kind = inodes[j].kind
          /\ inodes'[j].start = inodes[j].start
    BY <1>2, <1>1
  <2>3. \A j \in Usable \cap DirRecs : j \in Usable' => j \in DirRecs' \cup {i}
    BY <1>1
  <2>. QED
    BY <1>0, <1>1, <1>3, <2>1, <2>2, <2>3, PlainKept
<1>10. DotsAndTypes'
  <2>1. \A k \in DirRecs' : \A n, j, f : Lists(Block(k)', n, j, f) =>
          \/ k \in DirRecs /\ Lists(Block(k), n, j, f)
          \/ n = "." /\ j = k /\ f = FtDir
          \/ n = ".." /\ f = FtDir
          \/ n \in Names /\ f = FtOf(inodes'[j].kind)
    BY <1>1, <1>3, <1>4
  <2>2. \A j \in Usable : inodes'[j].kind = inodes[j].kind
    BY <1>1, <1>2
  <2>. QED
    BY <1>0, <2>1, <2>2, TypesKept
<1>11. IsFiniteSet(Usable) /\ Reached \subseteq Usable /\ counts \in CountsType
  BY <1>0, UsableFinite DEF Reached, Reach, IInv, TypeOK
<1>12. CASE ~ added
  <2>1. Leaks(Usable, DirRecs, KidsOf, UpOf, LinksOf, i, DirRecs', KidsOf', UpOf', LinksOf')
    BY <1>1, <1>2, <1>6, <1>7, <1>8, <1>12 DEF Leaks
  <2>2. TreeNow' /\ Reached' = Reached
    BY <1>0, <1>1, <2>1, LeakTree
  <2>3. counts'.usedDirs = counts.usedDirs /\ UNCHANGED diskCounts
    BY <1>11, <1>12 DEF ParentFull, Allocated, CountsType
  <2>4. DirRecs' \cap Reached' = DirRecs \cap Reached
    BY <1>1, <1>2, <1>11, <2>2
  <2>5. DirsCounted'
    <3>1. diskCounts'.usedDirs = counts'.usedDirs
      BY <1>0, <2>3 DEF DirsCounted
    <3>. QED
      BY <1>0, <2>3, <2>4, <3>1, DirsKeptCount
  <2>. QED
    BY <1>9, <1>10, <1>12, <2>2, <2>5 DEF TreeParts
<1>13. CASE added
  <2>1. Enters(Usable, DirRecs, KidsOf, UpOf, LinksOf, i, d,
               DirRecs', KidsOf', UpOf', LinksOf')
    BY <1>1, <1>2, <1>6, <1>7, <1>8, <1>13 DEF Enters, Reached
  <2>2. TreeNow' /\ Reached' = Reached \cup {i}
    BY <1>0, <1>1, <1>11, <2>1, EnterTree
  <2>3. /\ counts'.usedDirs = IF rec.kind = "dir" THEN counts.usedDirs + 1
                                                  ELSE counts.usedDirs
        /\ diskCounts'.usedDirs = counts'.usedDirs
    BY <1>1, <1>11, <1>13 DEF Linked, Allocated, Flush, CountsType
  <2>4. DirsCounted'
    <3>1. CASE rec.kind = "dir"
      BY <1>0, <1>1, <1>11, <2>2, <2>3, <3>1, DirsEnter
    <3>2. CASE rec.kind # "dir"
      <4>1. DirRecs' \cap Reached' = DirRecs \cap Reached
        BY <1>1, <1>2, <2>2, <3>2
      <4>. QED
        BY <1>0, <2>3, <3>2, <4>1, DirsKeptCount
    <3>. QED
      BY <3>1, <3>2
  <2>. QED
    BY <1>9, <1>10, <1>13, <2>2, <2>4 DEF TreeParts
<1>. QED
  BY <1>12, <1>13

(* The inode's bit alone is set: it has no block, and nothing names it.    *)
LEMMA BitLeaks ==
  ASSUME NoDotsInPaths, TreeIInv, NEW i \in Inodes, i \notin inodeBitmap, NEW n,
         NoRunLeft(i, n)
  PROVE  TreeParts'
<1>0. NoDotsInPaths /\ IInv /\ PlainFiles /\ DotsAndTypes /\ TreeNow /\ DirsCounted
  BY DEF TreeIInv, TreeParts
<1>1. UNCHANGED <<inodes, dirBlocks, diskCounts>> /\ inodeBitmap' = inodeBitmap \cup {i}
  BY DEF NoRunLeft
<1>2. i \notin Usable /\ Usable' = Usable \cup {i} /\ Usable \subseteq Inodes
  <2>1. i \notin Reserved /\ i # Root
    BY <1>0 DEF IInv, MetadataMarked, Reserved, Root
  <2>. QED
    BY <1>0, <1>1, <2>1, UsableInodes DEF Usable
<1>3. inodes[i].len = 0
  BY <1>0, <1>2 DEF IInv, FreedBlank
<1>4. DirRecs' = DirRecs /\ DirRecs \subseteq Usable
  BY <1>1, <1>2, <1>3 DEF DirRecs
<1>5. \A k : Block(k)' = Block(k)
  BY <1>1 DEF Block
<1>6. KidsOf' = KidsOf /\ KidsOf[i] = {}
  <2>1. \A k \in Inodes : KidsOf'[k] = KidsOf[k]
    BY <1>4, <1>5 DEF KidsOf
  <2>. QED
    BY <1>2, <1>4, <2>1 DEF KidsOf
<1>7. \A k \in DirRecs : UpOf'[k] = UpOf[k]
  BY <1>4, <1>5 DEF UpOf
<1>8. \A k \in Usable : LinksOf'[k] = LinksOf[k]
  BY <1>1, <1>2 DEF LinksOf
<1>9. Leaks(Usable, DirRecs, KidsOf, UpOf, LinksOf, i, DirRecs', KidsOf', UpOf', LinksOf')
  BY <1>2, <1>4, <1>6, <1>7, <1>8 DEF Leaks
<1>10. TreeNow' /\ Reached' = Reached
  BY <1>0, <1>2, <1>9, LeakTree
<1>11. DirsCounted'
  <2>1. counts'.usedDirs = counts.usedDirs
    BY <1>0 DEF NoRunLeft, IInv, TypeOK, CountsType
  <2>. QED
    BY <1>0, <1>1, <1>4, <1>10, <2>1, DirsKeptCount DEF DirsCounted
<1>12. PlainFiles'
  BY <1>0, <1>1, <1>2, <1>3, <1>4 DEF PlainFiles
<1>13. DotsAndTypes'
  <2>1. \A d \in DirRecs : \A m, j, f : Lists(Block(d)', m, j, f) => Lists(Block(d), m, j, f)
    BY <1>5
  <2>. QED
    BY <1>0, <1>1, <1>4, <2>1, TypesKept
<1>. QED
  BY <1>10, <1>11, <1>12, <1>13 DEF TreeParts

LEMMA InsertTree ==
  ASSUME NoDotsInPaths, TreeIInv, IInv', NEW path \in Paths, NEW name \in PathNames,
         NEW kind, NEW links \in Nat, links = IF kind = "dir" THEN 2 ELSE 1,
         NEW size, NEW n, Shape(kind, size, n),
         Insert(OpenPath(path), name, kind, links, size, n)
  PROVE  Kept
<1>. DEFINE d == OpenPath(path)
<1>0. NoDotsInPaths /\ IInv /\ TreeNow
  BY DEF TreeIInv, TreeParts
<1>1. CASE Refuse \/ NoInodeLeft
  BY <1>1, IdleTree
<1>2. ASSUME NEW i \in Inodes, FirstFreeInode(i), NoRunLeft(i, n) PROVE Kept
  <2>1. TreeParts'
    BY <1>2, FirstFreeIsFree, BitLeaks
  <2>2. outcome' = "nospace"
    BY <1>2 DEF NoRunLeft
  <2>. QED
    BY <2>1, <2>2 DEF Kept
<1>3. ASSUME CanInsert(d, name), NEW i \in Inodes, FirstFreeInode(i),
             NEW s \in Blocks, Allocates(n, s), NEW rec,
             rec = Inode(kind, links, size, s, n),
             NEW added \in BOOLEAN,
             IF added THEN Linked(i, d, name, rec) ELSE ParentFull(i, d, name, rec)
      PROVE  Kept
  <2>1. Placed(i, d, name, rec)
    BY <1>0, <1>3, NewObject
  <2>2. /\ rec.kind = kind /\ rec.links = links /\ rec.size = size
        /\ rec.start = s /\ rec.len = n
    BY <1>3 DEF Inode
  <2>3. d \in Reached
    BY <1>0, <1>3, FoundReached DEF CanInsert
  <2>. HIDE DEF d
  <2>4. rec.len > 0 => rec.kind \in {"dir", "reg"}
    BY <2>2 DEF Shape
  <2>5. TreeParts' /\ Reached' = IF added THEN Reached \cup {i} ELSE Reached
    BY <1>3, <2>1, <2>2, <2>3, <2>4, PlacedTree
  <2>6. CASE ~ added
    BY <1>3, <2>5, <2>6 DEF ParentFull, Kept
  <2>7. CASE added
    <3>1. OwnRun(rec) = RunBits(rec.start, rec.len)
      <4>1. rec.len > 0 => rec.size > 0
        <5>1. size \in Nat /\ BlockSize \in Nat /\ BlockSize >= 24
          BY <1>0, Constants DEF Shape
        <5>2. CeilDiv(size, BlockSize) = 0 <=> size = 0
          BY <5>1, CeilDivZero
        <5>. QED
          BY <2>2, <5>1, <5>2 DEF Shape
      <4>2. ~ (rec.len > 0) => RunBits(rec.start, rec.len) = {}
        <5>1. n \in Nat /\ s \in Int
          BY <1>0, Constants DEF Shape, Blocks
        <5>. QED
          BY <2>2, <5>1 DEF RunBits
      <4>. QED
        BY <4>1, <4>2 DEF OwnRun
    <3>2. /\ i \notin Usable /\ Usable' = Usable \cup {i} /\ inodes'[i] = rec
          /\ RunBits(rec.start, rec.len) \cap blockBitmap = {}
          /\ blockBitmap' = blockBitmap \cup RunBits(rec.start, rec.len)
          /\ \A j \in Inodes \ {i} : /\ inodes'[j].size = inodes[j].size
                                     /\ inodes'[j].start = inodes[j].start
                                     /\ inodes'[j].len = inodes[j].len
      BY <2>1 DEF Placed, NewInode
    <3>3. \A j \in Inodes \ {i} : OwnRun(inodes'[j]) = OwnRun(inodes[j])
      BY <3>2 DEF OwnRun
    <3>4. KeepsLeaks
      BY <1>0, <2>5, <2>7, <3>1, <3>2, <3>3, BlocksTaken
    <3>. QED
      BY <2>5, <3>4 DEF Kept
  <2>. QED
    BY <2>6, <2>7
<1>4. ASSUME CanInsert(d, name), NEW i \in Inodes, FirstFreeInode(i),
             NEW s \in Blocks, Allocates(n, s),
             \/ ParentFull(i, d, name, Inode(kind, links, size, s, n))
             \/ Linked(i, d, name, Inode(kind, links, size, s, n))
      PROVE  Kept
  <2>1. \E added \in BOOLEAN :
          IF added THEN Linked(i, d, name, Inode(kind, links, size, s, n))
                   ELSE ParentFull(i, d, name, Inode(kind, links, size, s, n))
    BY <1>4
  <2>. QED
    BY <1>3, <1>4, <2>1
<1>. QED
  BY <1>1, <1>2, <1>4 DEF Insert

-----------------------------------------------------------------------------
(* unlink and rmdir: a leaf goes.                                          *)
LEMMA NameIsOne ==
  ASSUME IInv, NEW d \in DirRecs, NEW n, NEW i, NEW j,
         Refers(Block(d), n, i), Refers(Block(d), n, j)
  PROVE  i = j
BY DEF IInv, DirsSound, DirectoryBlock, Sound, Refers

LEMMA EmptyKids ==
  ASSUME NoDotsInPaths, IInv, NEW t \in Inodes, t \in DirRecs => IsEmptyDir(t)
  PROVE  KidsOf[t] = {}
<1>1. CASE t \notin DirRecs
  BY <1>1 DEF KidsOf
<1>2. CASE t \in DirRecs
  <2>1. DirEntries(inodes[t]) = Block(t) /\ Sound(Block(t), Inodes)
    BY <1>2 DEF DirEntries, Block, DirRecs, IInv, DirsSound, DirectoryBlock
  <2>2. \A e \in Block(t) : e \in Live(DirEntries(inodes[t]))
    BY <2>1, SoundEntry, Constants DEF Live, IsUnused
  <2>3. \A e \in Block(t) : e.name \in Dots
    BY <1>2, <2>2 DEF IsEmptyDir
  <2>4. "." \notin Names /\ ".." \notin Names
    BY Constants
  <2>. QED
    BY <1>2, <2>3, <2>4 DEF KidsOf, Refers, Dots
<1>. QED
  BY <1>1, <1>2

LEMMA LinksAtLeast ==
  ASSUME NoDotsInPaths, IInv, TreeNow, NEW d \in DirRecs
  PROVE  LinksOf[d] \in Nat /\ LinksOf[d] >= 2
<1>1. LinksOf[d] = 2 + Cardinality(KidsOf[d] \cap DirRecs)
  BY DEF TreeNow, LinksOK
<1>2. KidsOf[d] \cap DirRecs \in SUBSET Usable
  BY UsableInodes
<1>3. Cardinality(KidsOf[d] \cap DirRecs) \in Nat
  BY <1>2, UsableFinite, FS_Subset, FS_CardinalityType
<1>. QED
  BY <1>1, <1>3

LEMMA DroppedTree ==
  ASSUME NoDotsInPaths, TreeIInv, IInv', NEW d \in DirRecs, NEW name \in Names,
         NEW t \in Usable, t # Root, t # d, Refers(Block(d), name, t),
         FreesInode(t), dirBlocks' = WithoutEntry(d, t, name),
         t \in DirRecs => IsEmptyDir(t),
         \A k \in Usable \ {d, t} : inodes'[k].links = inodes[k].links,
         inodes'[d].links = IF t \in DirRecs THEN SatSub(inodes[d].links, 1)
                                             ELSE inodes[d].links,
         counts'.usedDirs = IF t \in DirRecs THEN SatSub(counts.usedDirs, 1)
                                             ELSE counts.usedDirs,
         diskCounts'.usedDirs = counts'.usedDirs
  PROVE  TreeParts' /\ KeepsLeaks /\ Reached' = Reached \ {t}
<1>0. NoDotsInPaths /\ IInv /\ PlainFiles /\ DotsAndTypes /\ TreeNow /\ DirsCounted
  BY DEF TreeIInv, TreeParts
<1>1. Usable' = Usable \ {t} /\ DirRecs' = DirRecs \ {t}
  BY <1>0, FreedOwns
<1>2. Usable \subseteq Inodes /\ DirRecs \subseteq Usable /\ t \in Inodes
  BY <1>0, UsableInodes
<1>3. dirBlocks' = RemovedAt(dirBlocks, d, t, name)
  BY DEF WithoutEntry, RemovedAt
<1>4. AllSound(dirBlocks) /\ \A k : At(dirBlocks, k) = Block(k)
  BY <1>0, InvIsSound DEF At, Block
<1>5. \A k \in DirRecs \ {t} : Block(k)' = At(dirBlocks', k)
  BY <1>2 DEF Block, At, FreesInode
<1>6. \A k \in DirRecs \ {t} : \A n, j, f :
        Lists(Block(k)', n, j, f) <=> Lists(Block(k), n, j, f) /\ ~ (k = d /\ n = name)
  <2>1. \A k \in DirRecs : \A n, j, f :
          Lists(At(RemovedAt(dirBlocks, d, t, name), k), n, j, f)
            <=> Lists(At(dirBlocks, k), n, j, f) /\ ~ (k = d /\ n = name)
    BY <1>0, <1>2, <1>4, RemovedLists
  <2>. QED
    BY <1>3, <1>4, <1>5, <2>1
<1>7. name # "." /\ name # ".."
  BY <1>0, Constants
<1>8. /\ \A k \in Inodes \ DirRecs : KidsOf[k] = {}
      /\ \A k \in DirRecs : \A j : j \in KidsOf[k] <=>
           j \in Inodes /\ \E n \in Names : \E f : Lists(Block(k), n, j, f)
  BY <1>0, KidsAre
<1>9. /\ \A k \in Inodes \ DirRecs' : KidsOf'[k] = {}
      /\ \A k \in DirRecs' : \A j : j \in KidsOf'[k] <=>
           j \in Inodes /\ \E n \in Names : \E f : Lists(Block(k)', n, j, f)
  <2>1. (NoDotsInPaths /\ IInv =>
          /\ \A k \in Inodes \ DirRecs : KidsOf[k] = {}
          /\ \A k \in DirRecs : \A j : j \in KidsOf[k] <=>
               j \in Inodes /\ \E n \in Names : \E f : Lists(Block(k), n, j, f))'
    BY KidsAre, PTL
  <2>. QED
    BY <2>1
<1>10. KidsOf'[d] = KidsOf[d] \ {t} /\ t \in KidsOf[d]
  <2>1. \A n \in Names : \A j : (\E f : Lists(Block(d), n, j, f)) /\ n = name => j = t
    <3>1. \A j : Refers(Block(d), name, j) => j = t
      BY <1>0, NameIsOne
    <3>. QED
      BY <3>1, RefersLists
  <2>2. \A n \in Names : (\E f : Lists(Block(d), n, t, f)) => n = name
    <3>1. \A n \in Names : Refers(Block(d), n, t) => n = name
      BY <1>0, <1>2 DEF IInv, RefsUnique
    <3>. QED
      BY <3>1, RefersLists
  <2>3. \E f : Lists(Block(d), name, t, f)
    BY RefersLists
  <2>4. \A j : j \in KidsOf'[d] <=> j \in KidsOf[d] /\ j # t
    BY <1>1, <1>6, <1>8, <1>9, <2>1, <2>2
  <2>5. t \in KidsOf[d]
    BY <1>2, <1>8, <2>3
  <2>. QED
    BY <2>4, <2>5
<1>11. \A k \in Usable \ {d, t} : KidsOf'[k] = KidsOf[k]
  <2>1. \A k \in Usable \ DirRecs : k # t => KidsOf'[k] = KidsOf[k]
    BY <1>1, <1>2, <1>8, <1>9
  <2>2. ASSUME NEW k \in DirRecs \ {d, t} PROVE KidsOf'[k] = KidsOf[k]
    <3>1. \A n, j, f : Lists(Block(k)', n, j, f) <=> Lists(Block(k), n, j, f)
      BY <1>6
    <3>2. \A j : j \in KidsOf'[k] <=> j \in KidsOf[k]
      BY <1>1, <1>8, <1>9, <3>1
    <3>. QED
      BY <1>1, <1>2, <3>2 DEF KidsOf
  <2>. QED
    BY <2>1, <2>2
<1>12. \A k \in DirRecs \ {t} : UpOf'[k] = UpOf[k]
  <2>1. \A k \in DirRecs : \A p : Refers(Block(k), "..", p) <=> p = UpOf[k]
    BY <1>0, UpIs DEF DotDotIs
  <2>2. (IInv => DotDotIs)'
    BY UpIs, PTL
  <2>3. \A k \in DirRecs' : \A p : Refers(Block(k)', "..", p) <=> p = UpOf'[k]
    BY <2>2 DEF DotDotIs
  <2>4. \A k \in DirRecs \ {t} : Refers(Block(k)', "..", UpOf[k])
    <3>1. \A k \in DirRecs : Refers(Block(k), "..", UpOf[k])
      BY <2>1
    <3>. QED
      BY <1>6, <1>7, <3>1, RefersLists
  <2>. QED
    BY <1>1, <2>3, <2>4
<1>13. /\ \A k \in Usable \ {d, t} : LinksOf'[k] = LinksOf[k]
       /\ LinksOf'[d] = IF t \in DirRecs THEN LinksOf[d] - 1 ELSE LinksOf[d]
  <2>1. LinksOf[d] \in Nat /\ LinksOf[d] >= 2
    BY <1>0, LinksAtLeast
  <2>. QED
    BY <1>1, <1>2, <2>1 DEF LinksOf, SatSub
<1>14. KidsOf[t] = {}
  BY <1>0, <1>2, EmptyKids
<1>15. Drops(Usable, DirRecs, KidsOf, UpOf, LinksOf, d, t, KidsOf', UpOf', LinksOf')
  BY <1>10, <1>11, <1>12, <1>13, <1>14 DEF Drops
<1>16. TreeNow' /\ Reached' = Reached \ {t}
  BY <1>0, <1>1, <1>15, UsableFinite, DropTree
<1>17. t \in Reached
  <2>1. KidsOf[d] \subseteq Reached
    BY <1>0, ReachedResolves
  <2>. QED
    BY <1>10, <2>1
<1>18. DirsCounted'
  <2>1. CASE t \in DirRecs
    BY <1>0, <1>1, <1>16, <1>17, <2>1, UsableFinite, DirsDrop
  <2>2. CASE t \notin DirRecs
    <3>1. DirRecs' \cap Reached' = DirRecs \cap Reached
      BY <1>1, <1>16, <2>2
    <3>. QED
      BY <1>0, <2>2, <3>1, DirsKeptCount
  <2>. QED
    BY <2>1, <2>2
<1>19. PlainFiles'
  <2>1. \A b \in blockBitmap \ DirStarts : dirBlocks'[b] = dirBlocks[b]
    BY <1>0, <1>3, <1>4, EditedStarts DEF IInv, TypeOK
  <2>2. \A i \in Usable \ (DirRecs \cup {}) : inodes'[i].len > 0 =>
          /\ inodes[i].len > 0 /\ inodes'[i].kind = inodes[i].kind
          /\ inodes'[i].start = inodes[i].start
    BY <1>2 DEF FreesInode
  <2>3. \A i \in Usable \cap DirRecs : i \in Usable' => i \in DirRecs' \cup {}
    BY <1>1
  <2>4. Usable' \subseteq Usable \cup {}
    BY <1>1
  <2>. QED
    BY <1>0, <2>1, <2>2, <2>3, <2>4, PlainKept
<1>20. DotsAndTypes'
  <2>1. \A k \in DirRecs' : \A n, j, f : Lists(Block(k)', n, j, f) => Lists(Block(k), n, j, f)
    BY <1>1, <1>6
  <2>2. \A j \in Usable : inodes'[j].kind = inodes[j].kind
    BY <1>2 DEF FreesInode
  <2>. QED
    BY <1>0, <1>1, <2>1, <2>2, TypesKept
<1>21. KeepsLeaks
  <2>1. \A j \in Inodes \ {t} : OwnRun(inodes'[j]) = OwnRun(inodes[j])
    BY DEF FreesInode, OwnRun
  <2>2. blockBitmap' = blockBitmap \ OwnRun(inodes[t])
    BY DEF FreesInode
  <2>. QED
    BY <1>0, <1>1, <1>16, <1>17, <2>1, <2>2, BlocksFreed
<1>. QED
  BY <1>16, <1>18, <1>19, <1>20, <1>21 DEF TreeParts

LEMMA UnlinkTree ==
  ASSUME NoDotsInPaths, TreeIInv, IInv', NEW path \in Paths, NEW name \in PathNames,
         Unlink(path, name)
  PROVE  Kept
<1>. DEFINE d == OpenPath(path)
            t == Found(d, name)
<1>0. NoDotsInPaths /\ IInv
  BY DEF TreeIInv
<1>1. CASE Refuse
  BY <1>1, IdleTree
<1>2. CASE /\ t \in Inodes /\ ~ IsDir(t)
           /\ blockBitmap' = blockBitmap \ OwnRun(inodes[t])
           /\ inodeBitmap' = inodeBitmap \ {t}
           /\ inodes' = [inodes EXCEPT ![t] = Deleted(@)]
           /\ dirBlocks' = WithoutEntry(d, t, name)
           /\ counts' = Freed(counts, inodes[t])
           /\ Flush /\ outcome' = "ok"
  <2>1. t # NoInode
    BY <1>0, <1>2, Constants DEF NoInode
  <2>2. d \in DirRecs /\ Refers(Block(d), name, t) /\ Resolved(t)
    BY <1>0, <2>1, FoundResolves
  <2>. HIDE DEF d, t
  <2>3. t \in Usable /\ t # Root /\ t # d /\ t \notin DirRecs /\ d \in Inodes
    BY <1>0, <1>2, <2>2, UsableInodes
       DEF Resolved, IInv, MetadataMarked, DirRecs, IsDir
  <2>4. inodes \in [Inodes -> InodeType] /\ counts \in CountsType
    BY <1>0 DEF IInv, TypeOK
  <2>5. FreesInode(t)
    <3>1. Deleted(inodes[t]) \in InodeType /\ Deleted(inodes[t]).kind = inodes[t].kind
          /\ Deleted(inodes[t]).size = 0 /\ Deleted(inodes[t]).len = 0
      BY <1>0, <1>2, <2>4, DeletedType
    <3>. QED
      BY <1>2, <2>4, <3>1 DEF FreesInode
  <2>6. name \in Names
    BY <1>0, Constants
  <2>7. \A k \in Usable \ {t} : inodes'[k].links = inodes[k].links
    BY <1>0, <1>2, <2>4, UsableInodes
  <2>8. counts'.usedDirs = counts.usedDirs /\ diskCounts'.usedDirs = counts'.usedDirs
    BY <1>2, <2>4 DEF Freed, CountsType, Flush
  <2>9. d \in Usable
    BY <2>2 DEF DirRecs
  <2>10. TreeParts' /\ KeepsLeaks
    BY <1>2, <2>2, <2>3, <2>5, <2>6, <2>7, <2>8, <2>9, DroppedTree
  <2>. QED
    BY <2>10 DEF Kept
<1>. QED
  BY <1>1, <1>2 DEF Unlink, Found

LEMMA RmdirTree ==
  ASSUME NoDotsInPaths, TreeIInv, IInv', NEW path \in Paths, NEW name \in PathNames,
         Rmdir(path, name)
  PROVE  Kept
<1>. DEFINE d == OpenPath(path)
            t == Found(d, name)
<1>0. NoDotsInPaths /\ IInv
  BY DEF TreeIInv
<1>1. CASE Refuse
  BY <1>1, IdleTree
<1>2. CASE /\ t # Root /\ IsDir(t) /\ IsEmptyDir(t)
           /\ blockBitmap' = blockBitmap \ OwnRun(inodes[t])
           /\ inodeBitmap' = inodeBitmap \ {t}
           /\ inodes' = [inodes EXCEPT
                           ![t] = Deleted(@),
                           ![d] = [inodes[d] EXCEPT !.links = SatSub(@, 1)]]
           /\ dirBlocks' = WithoutEntry(d, t, name)
           /\ counts' = [Freed(counts, inodes[t]) EXCEPT !.usedDirs = SatSub(@, 1)]
           /\ Flush /\ outcome' = "ok"
  <2>1. t # NoInode /\ t \in Inodes
    BY <1>0, <1>2, Constants DEF NoInode, IsDir
  <2>2. d \in DirRecs /\ Refers(Block(d), name, t) /\ Resolved(t)
    BY <1>0, <2>1, FoundResolves
  <2>. HIDE DEF d, t
  <2>3. t \in Usable /\ t # Root /\ t \in DirRecs /\ d \in Inodes /\ d \in Usable
    BY <1>0, <1>2, <2>2, UsableInodes DEF Resolved, IsDir
  <2>4. name \in Names
    BY <1>0, Constants
  <2>5. d # t
    <3>1. KidsOf[t] = {}
      BY <1>0, <1>2, <2>1, EmptyKids
    <3>2. d = t => t \in KidsOf[t]
      BY <2>1, <2>2, <2>4 DEF KidsOf
    <3>. QED
      BY <3>1, <3>2
  <2>6. inodes \in [Inodes -> InodeType] /\ counts \in CountsType
    BY <1>0 DEF IInv, TypeOK
  <2>. DEFINE parent == [inodes[d] EXCEPT !.links = SatSub(@, 1)]
  <2>7. /\ parent \in InodeType /\ parent.kind = inodes[d].kind
        /\ parent.size = inodes[d].size /\ parent.start = inodes[d].start
        /\ parent.len = inodes[d].len /\ parent.links = SatSub(inodes[d].links, 1)
    <3>1. inodes[d] \in InodeType
      BY <2>3, <2>6
    <3>. QED
      BY <3>1 DEF InodeType, SatSub
  <2>8. inodes' = [inodes EXCEPT ![t] = Deleted(inodes[t]), ![d] = parent]
    BY <1>2
  <2>. HIDE DEF parent
  <2>9. FreesInode(t)
    <3>1. Deleted(inodes[t]) \in InodeType /\ Deleted(inodes[t]).kind = inodes[t].kind
          /\ Deleted(inodes[t]).size = 0 /\ Deleted(inodes[t]).len = 0
      BY <1>0, <2>1, <2>6, DeletedType
    <3>. QED
      BY <1>2, <2>1, <2>3, <2>5, <2>6, <2>7, <2>8, <3>1 DEF FreesInode
  <2>10. /\ \A k \in Usable \ {d, t} : inodes'[k].links = inodes[k].links
         /\ inodes'[d].links = SatSub(inodes[d].links, 1)
    BY <1>0, <2>1, <2>3, <2>5, <2>6, <2>7, <2>8, UsableInodes
  <2>11. /\ counts'.usedDirs = SatSub(counts.usedDirs, 1)
         /\ diskCounts'.usedDirs = counts'.usedDirs
    BY <1>2, <2>6 DEF Freed, CountsType, Flush
  <2>12. TreeParts' /\ KeepsLeaks
    BY <1>2, <2>2, <2>3, <2>4, <2>5, <2>9, <2>10, <2>11, DroppedTree
  <2>. QED
    BY <2>12 DEF Kept
<1>. QED
  BY <1>1, <1>2 DEF Rmdir, Found

-----------------------------------------------------------------------------
(* rename.  No room for the new entry: a file it replaced is gone.         *)
LEMMA MoveFullTree ==
  ASSUME NoDotsInPaths, TreeIInv, IInv', NEW d1, NEW s, NEW oldName, NEW d2, NEW t,
         NEW newName, Renames(d1, s, oldName, d2, t, newName),
         MoveFull(s, d2, t, newName)
  PROVE  Kept
<1>0. NoDotsInPaths /\ IInv /\ TreeNow /\ DirsCounted
  BY DEF TreeIInv, TreeParts
<1>1. /\ Displaces(t)
      /\ \A i \in Inodes : i # t => inodes'[i] = inodes[i]
  BY <1>0, MoveFullRows
<1>2. outcome' = "full" /\ dirBlocks' = AfterUnlink(d2, t, newName)
  BY DEF MoveFull
<1>3. counts \in CountsType
  BY <1>0 DEF IInv, TypeOK
<1>4. CASE t = NoInode
  <2>1. t \notin Inodes
    BY <1>0, <1>4, Constants DEF NoInode
  <2>2. UNCHANGED <<inodeBitmap, dirBlocks, counts, diskCounts>>
    BY <1>1, <1>2, <1>4, <2>1, UsableInodes, <1>0
       DEF MoveFull, Unlinked, AfterUnlink, Displaces, KeepsInodes
  <2>3. SameDirs
    BY <1>0, <2>2 DEF SameDirs, DirsCounted
  <2>4. TreeParts'
    BY <1>1, <2>1, <2>2, <2>3, QuietTree
  <2>. QED
    BY <1>2, <2>4 DEF Kept
<1>5. CASE t # NoInode
  <2>1. t \in Usable /\ t # Root /\ ~ IsDir(t) /\ FreesInode(t)
    BY <1>1, <1>5 DEF Displaces
  <2>2. /\ d2 \in DirRecs /\ newName \in Names /\ Refers(Block(d2), newName, t)
        /\ t \notin DirRecs /\ t # d2
    BY <1>0, <1>5, <2>1, UsableInodes DEF Renames, IsDir, DirRecs
  <2>3. dirBlocks' = WithoutEntry(d2, t, newName)
    BY <1>2, <1>5 DEF AfterUnlink
  <2>4. counts'.usedDirs = counts.usedDirs /\ diskCounts'.usedDirs = counts'.usedDirs
    BY <1>3, <1>5 DEF MoveFull, Unlinked, Flush, Freed, CountsType
  <2>5. \A k \in Usable \ {t} : inodes'[k].links = inodes[k].links
    BY <1>0, <1>1, UsableInodes
  <2>6. TreeParts'
    BY <2>1, <2>2, <2>3, <2>4, <2>5, DroppedTree DEF DirRecs
  <2>. QED
    BY <1>2, <2>6 DEF Kept
<1>. QED
  BY <1>4, <1>5

(* What the directories list once an entry has moved.                      *)
LEMMA RenamedLists ==
  ASSUME NoDotsInPaths, IInv, NEW d1, NEW s, NEW oldName, NEW d2, NEW t, NEW newName,
         Renames(d1, s, oldName, d2, t, newName), Displaces(t), s # t,
         ~ (d1 = d2 /\ oldName = newName),
         Fits(At(AfterUnlink(d2, t, newName), d2), newName),
         dirBlocks' = AfterMove(AfterUnlink(d2, t, newName), s, d1, oldName, d2, newName)
  PROVE  /\ \A k \in DirRecs : \A n, j, f :
              Lists(Block(k)', n, j, f) <=>
                IF k = s /\ d1 # d2 /\ n = ".."
                  THEN j = d2 /\ \E q : Lists(Block(k), n, q, f)
                  ELSE \/ /\ Lists(Block(k), n, j, f)
                          /\ ~ (k = d2 /\ n = newName) /\ ~ (k = d1 /\ n = oldName)
                       \/ k = d2 /\ n = newName /\ j = s /\ f = FtOf(inodes[s].kind)
         /\ \A b \in blockBitmap \ DirStarts : dirBlocks'[b] = dirBlocks[b]
<1>. DEFINE blks == AfterUnlink(d2, t, newName)
            ft == FtOf(inodes[s].kind)
            added == AddedAt(blks, d2, newName, s, ft)
            removed == RemovedAt(added, d1, s, oldName)
<1>1. /\ d1 \in DirRecs /\ d2 \in DirRecs /\ oldName \in Names /\ newName \in Names
      /\ s \in Inodes /\ Resolved(s) /\ Refers(Block(d1), oldName, s)
      /\ ft \in FileTypes
  BY DEF Renames, FtOf, FileTypes
<1>2. /\ AllSound(blks)
      /\ \A e \in At(blks, d2) : e.name # newName
      /\ \A k \in DirRecs, n \in Names, j \in Inodes :
           Refers(At(blks, k), n, j)
             <=> Refers(Block(k), n, j) /\ ~ (k = d2 /\ n = newName)
  BY AfterUnlinkDirs
<1>3. dirBlocks' = IF d1 # d2 /\ IsDir(s) THEN MovedTo(removed, s, d2) ELSE removed
  BY DEF AfterMove, AddedAt, RemovedAt, MovedTo
<1>4. /\ AllSound(dirBlocks) /\ \A k : At(dirBlocks, k) = Block(k)
      /\ blockBitmap \subseteq Blocks
  BY InvIsSound DEF At, Block, IInv, TypeOK
<1>5. newName # ".." /\ oldName # ".."
  BY <1>1, Constants
<1>. HIDE DEF ft
<1>6. /\ \A k \in DirRecs : \A n, j, f :
           Lists(At(blks, k), n, j, f)
             <=> Lists(Block(k), n, j, f) /\ ~ (k = d2 /\ n = newName)
      /\ \A b \in blockBitmap \ DirStarts : blks[b] = dirBlocks[b]
  <2>1. CASE t = NoInode
    <3>1. blks = dirBlocks
      BY <2>1 DEF AfterUnlink
    <3>2. \A e \in Block(d2) : e.name # newName
      BY <2>1, Constants DEF Renames, NoInode
    <3>. HIDE DEF blks
    <3>. QED
      BY <1>4, <3>1, <3>2 DEF Lists
  <2>2. CASE t # NoInode
    <3>1. blks = RemovedAt(dirBlocks, d2, t, newName)
      BY <2>2 DEF AfterUnlink, WithoutEntry, RemovedAt
    <3>2. t \in Inodes /\ Refers(At(dirBlocks, d2), newName, t)
      BY <1>4, <2>2 DEF Renames
    <3>. HIDE DEF blks
    <3>3. \A k \in DirRecs : \A n, j, f :
            Lists(At(RemovedAt(dirBlocks, d2, t, newName), k), n, j, f)
              <=> Lists(At(dirBlocks, k), n, j, f) /\ ~ (k = d2 /\ n = newName)
      BY <1>1, <1>4, <3>2, RemovedLists
    <3>4. \A b \in blockBitmap \ DirStarts :
            RemovedAt(dirBlocks, d2, t, newName)[b] = dirBlocks[b]
      BY <1>1, <1>4, EditedStarts
    <3>. QED
      BY <1>4, <3>1, <3>3, <3>4
  <2>. QED
    BY <2>1, <2>2
<1>. HIDE DEF blks, removed
<1>7. AllSound(added)
  BY <1>1, <1>2, EditAdd DEF blks
<1>8. \A k \in DirRecs, n \in Names, j \in Inodes :
        Refers(At(added, k), n, j)
          <=> Refers(At(blks, k), n, j) \/ (k = d2 /\ n = newName /\ j = s)
  BY <1>1, <1>2, EditAdd DEF blks
<1>9. /\ \A k \in DirRecs : \A n, j, f :
           Lists(At(added, k), n, j, f)
             <=> Lists(At(blks, k), n, j, f) \/ (k = d2 /\ n = newName /\ j = s /\ f = ft)
      /\ \A b \in blockBitmap \ DirStarts : added[b] = blks[b]
  BY <1>1, <1>2, <1>4, AddedLists, EditedStarts
<1>. HIDE DEF added
<1>10. Refers(At(added, d1), oldName, s)
  BY <1>1, <1>2, <1>8
<1>11. AllSound(removed)
  BY <1>1, <1>7, <1>10, EditRemove DEF removed
<1>12. /\ \A k \in DirRecs : \A n, j, f :
            Lists(At(removed, k), n, j, f)
              <=> Lists(At(added, k), n, j, f) /\ ~ (k = d1 /\ n = oldName)
       /\ \A b \in blockBitmap \ DirStarts : removed[b] = added[b]
  BY <1>1, <1>4, <1>7, <1>10, RemovedLists, EditedStarts DEF removed
<1>13. /\ \A k \in DirRecs : \A n, j, f :
            Lists(At(dirBlocks', k), n, j, f)
              <=> IF k = s /\ d1 # d2 /\ n = ".."
                    THEN j = d2 /\ \E q : Lists(At(removed, k), n, q, f)
                    ELSE Lists(At(removed, k), n, j, f)
       /\ \A b \in blockBitmap \ DirStarts : dirBlocks'[b] = removed[b]
  <2>1. CASE d1 # d2 /\ IsDir(s)
    <3>1. s \in DirRecs /\ d2 \in Inodes
      BY <1>1, <2>1, UsableInodes DEF Resolved, IsDir
    <3>2. dirBlocks' = MovedTo(removed, s, d2)
      BY <1>3, <2>1
    <3>3. \A k \in DirRecs : \A n, j, f :
            Lists(At(MovedTo(removed, s, d2), k), n, j, f)
              <=> IF k = s /\ n = ".." THEN j = d2 /\ \E q : Lists(At(removed, k), n, q, f)
                                       ELSE Lists(At(removed, k), n, j, f)
      BY <1>11, <3>1, MovedLists
    <3>4. \A b \in blockBitmap \ DirStarts : MovedTo(removed, s, d2)[b] = removed[b]
      BY <1>4, <1>11, <3>1, EditedStarts
    <3>. QED
      BY <2>1, <3>2, <3>3, <3>4
  <2>2. CASE ~ (d1 # d2 /\ IsDir(s))
    <3>1. dirBlocks' = removed
      BY <1>3, <2>2
    <3>2. \A k \in DirRecs : ~ (k = s /\ d1 # d2)
      BY <2>2, UsableInodes DEF DirRecs, IsDir
    <3>. QED
      BY <3>1, <3>2
  <2>. QED
    BY <2>1, <2>2
<1>14. \A k \in DirRecs : Block(k)' = At(dirBlocks', k)
  <2>1. \A d \in DirRecs : inodes'[d].start = inodes[d].start
    BY DisplacedOwns
  <2>. QED
    BY <2>1 DEF Block, At
<1>15. \A k \in DirRecs : \A n, j, f :
         Lists(Block(k)', n, j, f) <=>
           IF k = s /\ d1 # d2 /\ n = ".."
             THEN j = d2 /\ \E q : Lists(Block(k), n, q, f)
             ELSE \/ /\ Lists(Block(k), n, j, f)
                     /\ ~ (k = d2 /\ n = newName) /\ ~ (k = d1 /\ n = oldName)
                  \/ k = d2 /\ n = newName /\ j = s /\ f = ft
  <2>1. \A k \in DirRecs : \A n, j, f :
          Lists(At(removed, k), n, j, f) <=>
            \/ /\ Lists(Block(k), n, j, f)
               /\ ~ (k = d2 /\ n = newName) /\ ~ (k = d1 /\ n = oldName)
            \/ k = d2 /\ n = newName /\ j = s /\ f = ft
    BY <1>6, <1>9, <1>12
  <2>. QED
    BY <1>5, <1>13, <1>14, <2>1
<1>. QED
  BY <1>6, <1>9, <1>12, <1>13, <1>15 DEF ft

(* Everyone's children after the move: t is nobody's, s is d2's.           *)
LEMMA RenamedKids ==
  ASSUME NoDotsInPaths, IInv, IInv', DirRecs' = DirRecs,
         NEW d1, NEW s, NEW oldName, NEW d2, NEW t,
         NEW newName, Renames(d1, s, oldName, d2, t, newName), s # t,
         \A k \in DirRecs : \A n, j, f :
           Lists(Block(k)', n, j, f) <=>
             IF k = s /\ d1 # d2 /\ n = ".."
               THEN j = d2 /\ \E q : Lists(Block(k), n, q, f)
               ELSE \/ /\ Lists(Block(k), n, j, f)
                       /\ ~ (k = d2 /\ n = newName) /\ ~ (k = d1 /\ n = oldName)
                    \/ k = d2 /\ n = newName /\ j = s /\ f = FtOf(inodes[s].kind)
  PROVE  /\ \A k \in Inodes : KidsOf'[k] = (KidsOf[k] \ {s, t}) \cup (IF k = d2 THEN {s} ELSE {})
         /\ s \in KidsOf[d1]
         /\ t # NoInode => t \in KidsOf[d2]
<1>1. /\ d1 \in DirRecs /\ d2 \in DirRecs /\ oldName \in Names /\ newName \in Names
      /\ s \in Inodes /\ Refers(Block(d1), oldName, s)
      /\ \/ t = NoInode /\ \A e \in Block(d2) : e.name # newName
         \/ t \in Inodes /\ Refers(Block(d2), newName, t)
  BY DEF Renames
<1>2. /\ \A k \in Inodes \ DirRecs : KidsOf[k] = {}
      /\ \A k \in DirRecs : \A j : j \in KidsOf[k] <=>
           j \in Inodes /\ \E n \in Names : \E f : Lists(Block(k), n, j, f)
  BY KidsAre
<1>3. /\ \A k \in Inodes \ DirRecs' : KidsOf'[k] = {}
      /\ \A k \in DirRecs' : \A j : j \in KidsOf'[k] <=>
           j \in Inodes /\ \E n \in Names : \E f : Lists(Block(k)', n, j, f)
  <2>1. (NoDotsInPaths /\ IInv =>
          /\ \A k \in Inodes \ DirRecs : KidsOf[k] = {}
          /\ \A k \in DirRecs : \A j : j \in KidsOf[k] <=>
               j \in Inodes /\ \E n \in Names : \E f : Lists(Block(k), n, j, f))'
    BY KidsAre, PTL
  <2>. QED
    BY <2>1
<1>4. ".." \notin Names /\ DirRecs \subseteq Inodes /\ NoInode \notin Inodes
  BY Constants, UsableInodes DEF NoInode
<1>5. ASSUME NEW k \in DirRecs, NEW n \in Names, NEW j \in Inodes, NEW f,
             Lists(Block(k), n, j, f)
      PROVE  /\ j = s <=> k = d1 /\ n = oldName
             /\ j = t <=> k = d2 /\ n = newName
  <2>1. Refers(Block(k), n, j)
    BY <1>5, RefersLists
  <2>2. /\ j = t => k = d2 /\ n = newName
        /\ j = s => k = d1 /\ n = oldName
    BY <2>1, OnlyOldNames
  <2>3. k = d1 /\ n = oldName => j = s
    BY <1>1, <2>1, NameIsOne
  <2>4. k = d2 /\ n = newName => j = t
    <3>1. CASE t = NoInode
      BY <1>1, <1>4, <2>1, <3>1 DEF Refers
    <3>2. CASE t # NoInode
      BY <1>1, <2>1, <3>2, NameIsOne
    <3>. QED
      BY <3>1, <3>2
  <2>. QED
    BY <2>2, <2>3, <2>4
<1>6. \A k \in DirRecs : \A j \in Inodes :
        (\E n \in Names : \E f : Lists(Block(k)', n, j, f)) <=>
          \/ j \notin {s, t} /\ \E n \in Names : \E f : Lists(Block(k), n, j, f)
          \/ k = d2 /\ j = s
  <2>. SUFFICES ASSUME NEW k \in DirRecs, NEW j \in Inodes
       PROVE  (\E n \in Names : \E f : Lists(Block(k)', n, j, f)) <=>
                \/ j \notin {s, t} /\ \E n \in Names : \E f : Lists(Block(k), n, j, f)
                \/ k = d2 /\ j = s
    OBVIOUS
  <2>1. \A n \in Names : \A f :
          Lists(Block(k)', n, j, f) <=>
            \/ /\ Lists(Block(k), n, j, f)
               /\ ~ (k = d2 /\ n = newName) /\ ~ (k = d1 /\ n = oldName)
            \/ k = d2 /\ n = newName /\ j = s /\ f = FtOf(inodes[s].kind)
    BY <1>4
  <2>2. \A n \in Names : \A f : Lists(Block(k), n, j, f) =>
          (j \in {s, t} <=> (k = d2 /\ n = newName) \/ (k = d1 /\ n = oldName))
    BY <1>5
  <2>. QED
    BY <1>1, <2>1, <2>2
<1>7. \A k \in DirRecs :
        KidsOf'[k] = (KidsOf[k] \ {s, t}) \cup (IF k = d2 THEN {s} ELSE {})
  <2>1. \A k \in DirRecs : \A j : j \in KidsOf'[k] <=>
          j \in KidsOf[k] \ {s, t} \/ (k = d2 /\ j = s)
    BY <1>1, <1>2, <1>3, <1>6
  <2>. QED
    BY <2>1
<1>8. \A k \in Inodes \ DirRecs :
        KidsOf'[k] = (KidsOf[k] \ {s, t}) \cup (IF k = d2 THEN {s} ELSE {})
  BY <1>1, <1>2, <1>3
<1>9. s \in KidsOf[d1]
  BY <1>1, <1>2, RefersLists
<1>10. t # NoInode => t \in KidsOf[d2]
  BY <1>1, <1>2, RefersLists
<1>. QED
  BY <1>4, <1>7, <1>8, <1>9, <1>10

(* Who is below whom does not change when a file goes.                     *)
LEMMA StillNotBelow ==
  ASSUME NoDotsInPaths, IInv, PlainFiles, NEW s, NEW t, s # t, NEW d2,
         ~ Below(s, d2), NEW C1, \A k \in Usable : C1[k] = KidsOf[k] \ {t}
  PROVE  s # d2 /\ NotBelow(Usable \ {t}, C1, s, d2)
<1>1. PICK S \in SUBSET Usable : s \in S /\ Closed(S) /\ d2 \notin S
  BY DEF Below
<1>2. \A k \in S : KidsOf[k] \subseteq S
  BY <1>1, ChildrenAre DEF Closed
<1>3. /\ S \ {t} \in SUBSET (Usable \ {t}) /\ s \in S \ {t} /\ d2 \notin S \ {t}
      /\ ClosedIn(S \ {t}, C1)
  BY <1>1, <1>2 DEF ClosedIn
<1>. QED
  BY <1>1, <1>3 DEF NotBelow

LEMMA MovedTree ==
  ASSUME NoDotsInPaths, TreeIInv, IInv', NEW d1, NEW s, NEW oldName, NEW d2, NEW t,
         NEW newName, Renames(d1, s, oldName, d2, t, newName), s # t,
         ~ (d1 = d2 /\ oldName = newName), d2 \in Reached, ~ Below(s, d2),
         Moved(s, d1, oldName, d2, t, newName)
  PROVE  Kept
<1>0. NoDotsInPaths /\ IInv /\ PlainFiles /\ DotsAndTypes /\ TreeNow /\ DirsCounted
  BY DEF TreeIInv, TreeParts
<1>1. /\ Displaces(t)
      /\ \A i \in Inodes : i # t => inodes'[i].links = NewLinks(i, s, d1, d2)
  BY <1>0, MovedRows
<1>2. /\ outcome' = "ok" /\ diskCounts' = counts'
      /\ Fits(At(AfterUnlink(d2, t, newName), d2), newName)
      /\ dirBlocks' = AfterMove(AfterUnlink(d2, t, newName), s, d1, oldName, d2, newName)
  BY DEF Moved, Flush, At
<1>3. /\ Usable' = Usable \ {t} /\ DirRecs' = DirRecs
      /\ \A j \in Inodes : inodes'[j].kind = inodes[j].kind
  BY <1>0, <1>1, DisplacedOwns
<1>4. /\ \A k \in DirRecs : \A n, j, f :
           Lists(Block(k)', n, j, f) <=>
             IF k = s /\ d1 # d2 /\ n = ".."
               THEN j = d2 /\ \E q : Lists(Block(k), n, q, f)
               ELSE \/ /\ Lists(Block(k), n, j, f)
                       /\ ~ (k = d2 /\ n = newName) /\ ~ (k = d1 /\ n = oldName)
                    \/ k = d2 /\ n = newName /\ j = s /\ f = FtOf(inodes[s].kind)
      /\ \A b \in blockBitmap \ DirStarts : dirBlocks'[b] = dirBlocks[b]
  BY <1>0, <1>1, <1>2, RenamedLists
<1>5. /\ \A k \in Inodes : KidsOf'[k] = (KidsOf[k] \ {s, t}) \cup (IF k = d2 THEN {s} ELSE {})
      /\ s \in KidsOf[d1]
      /\ t # NoInode => t \in KidsOf[d2]
  BY <1>0, <1>3, <1>4, RenamedKids
<1>6. /\ d1 \in DirRecs /\ d2 \in DirRecs /\ newName \in Names /\ oldName \in Names
      /\ s \in Inodes /\ Resolved(s)
  BY DEF Renames
<1>7. /\ Usable \subseteq Inodes /\ DirRecs \subseteq Usable /\ IsFiniteSet(Usable)
      /\ NoInode \notin Inodes /\ ".." \notin Names /\ "." \notin Names
  BY <1>0, UsableInodes, UsableFinite, Constants DEF NoInode
<1>8. /\ t \notin DirRecs /\ (t # NoInode => t \in Usable)
      /\ \A j \in Usable \ {t} : inodes'[j].len = inodes[j].len
                                 /\ inodes'[j].start = inodes[j].start
                                 /\ inodes'[j].size = inodes[j].size
      /\ t # NoInode => inodes'[t].len = 0
  BY <1>1, <1>7 DEF Displaces, KeepsInodes, FreesInode, DirRecs, IsDir
<1>9. s \in Usable /\ (IsDir(s) <=> s \in DirRecs)
  BY <1>6, <1>7 DEF Resolved, IsDir, DirRecs
<1>10. /\ \A j, k \in Usable : j # k => KidsOf[j] \cap KidsOf[k] = {}
       /\ \A k \in Usable : KidsOf[k] \subseteq Usable /\ (k \notin DirRecs => KidsOf[k] = {})
  BY <1>0 DEF TreeNow, Rooted
<1>. DEFINE C1 == [k \in Inodes |-> KidsOf[k] \ {t}]
<1>11. Clears(t, d2, C1)
  <2>1. CASE t = NoInode
    <3>1. \A k \in Inodes : C1[k] = KidsOf[k]
      BY <1>7, <2>1 DEF KidsOf
    <3>2. C1 = KidsOf
      BY <3>1 DEF KidsOf
    <3>. QED
      BY <1>7, <1>8, <2>1, <3>2 DEF Clears
  <2>2. CASE t # NoInode
    <3>1. t \in KidsOf[d2] /\ t \in Usable /\ KidsOf[t] = {}
      BY <1>5, <1>8, <1>10, <2>2
    <3>2. C1[d2] = KidsOf[d2] \ {t}
      BY <1>6, <1>7
    <3>3. \A k \in Usable \ {d2, t} : C1[k] = KidsOf[k]
      BY <1>6, <1>7, <1>10, <3>1
    <3>4. Drops(Usable, DirRecs, KidsOf, UpOf, LinksOf, d2, t, C1, UpOf, LinksOf)
      BY <1>6, <1>8, <3>1, <3>2, <3>3 DEF Drops
    <3>. QED
      BY <1>8, <3>4 DEF Clears
  <2>. QED
    BY <2>1, <2>2
<1>12. \A k \in Usable : C1[k] = KidsOf[k] \ {t}
  BY <1>7
<1>13. \A k \in Usable : KidsOf'[k] = (C1[k] \ {s}) \cup (IF k = d2 THEN {s} ELSE {})
  BY <1>5, <1>7, <1>12
<1>. HIDE DEF C1
<1>14. /\ \A k \in DirRecs : k # s \/ d1 = d2 => UpOf'[k] = UpOf[k]
       /\ s \in DirRecs /\ d1 # d2 => UpOf'[s] = d2
  <2>1. \A k \in DirRecs : \A p : Refers(Block(k), "..", p) <=> p = UpOf[k]
    BY <1>0, UpIs DEF DotDotIs
  <2>2. (IInv => DotDotIs)'
    BY UpIs, PTL
  <2>3. \A k \in DirRecs : \A p : Refers(Block(k)', "..", p) <=> p = UpOf'[k]
    BY <1>3, <2>2 DEF DotDotIs
  <2>4. \A k \in DirRecs : Refers(Block(k), "..", UpOf[k])
    BY <2>1
  <2>5. \A k \in DirRecs : k # s \/ d1 = d2 => Refers(Block(k)', "..", UpOf[k])
    BY <1>4, <1>6, <1>7, <2>4, RefersLists
  <2>6. s \in DirRecs /\ d1 # d2 => Refers(Block(s)', "..", d2)
    BY <1>4, <1>6, <1>7, <2>4, RefersLists
  <2>. QED
    BY <2>3, <2>5, <2>6
<1>15. \A k \in Usable \ {t} :
         LinksOf'[k] = IF d1 # d2 /\ s \in DirRecs /\ k = d1 THEN LinksOf[k] - 1
                       ELSE IF d1 # d2 /\ s \in DirRecs /\ k = d2 THEN LinksOf[k] + 1
                       ELSE LinksOf[k]
  <2>1. LinksOf[d1] \in Nat /\ LinksOf[d1] >= 2
    BY <1>0, <1>6, LinksAtLeast
  <2>2. \A k \in Usable \ {t} : LinksOf'[k] = NewLinks(k, s, d1, d2)
    BY <1>1, <1>3, <1>7 DEF LinksOf
  <2>3. \A k \in Usable : LinksOf[k] = inodes[k].links
    BY DEF LinksOf
  <2>4. SatSub(LinksOf[d1], 1) = LinksOf[d1] - 1
    BY <2>1 DEF SatSub
  <2>. QED
    BY <1>6, <1>7, <1>9, <2>2, <2>3, <2>4 DEF NewLinks
<1>16. TreeNow' /\ Reached' = Reached \ {t}
  <2>1. CASE d1 = d2
    <3>1. \A k \in Usable : KidsOf'[k] = C1[k]
      <4>1. t # s => (s \in C1[d2] /\ \A k \in Usable : k # d2 => s \notin C1[k])
        BY <1>5, <1>6, <1>7, <1>10, <1>12, <2>1
      <4>. QED
        BY <1>13, <4>1, ZenonT(60)
    <3>2. \A k \in DirRecs : UpOf'[k] = UpOf[k]
      BY <1>14, <2>1
    <3>3. \A k \in Usable \ {t} : LinksOf'[k] = LinksOf[k]
      BY <1>15, <2>1
    <3>4. CASE t = NoInode
      <4>1. Usable' = Usable /\ t \notin Usable /\ Reached \ {t} = Reached
        BY <1>3, <1>7, <3>4 DEF Reached, Reach
      <4>2. KidsOf' = KidsOf
        <5>1. ASSUME NEW k \in Usable PROVE KidsOf'[k] = KidsOf[k]
          <6>1. t \notin KidsOf[k]
            BY <1>10, <4>1
          <6>2. KidsOf'[k] = KidsOf[k] \ {t}
            BY <1>12, <3>1
          <6>. QED
            BY <6>1, <6>2
        <5>2. \A k \in Inodes \ Usable : KidsOf'[k] = KidsOf[k]
          BY <1>3, <1>7 DEF KidsOf
        <5>3. \A k \in Inodes : KidsOf'[k] = KidsOf[k]
          BY <5>1, <5>2
        <5>. QED
          BY <5>3 DEF KidsOf
      <4>3. UpOf' = UpOf
        <5>. HIDE DEF UpOf
        <5>1. UpOf = [k \in DirRecs |-> UpOf[k]] /\ UpOf' = [k \in DirRecs' |-> UpOf'[k]]
          BY DEF UpOf
        <5>2. [k \in DirRecs' |-> UpOf'[k]] = [k \in DirRecs |-> UpOf[k]]
          BY <1>3, <3>2
        <5>. QED
          BY <5>1, <5>2, Zenon
      <4>4. LinksOf' = LinksOf
        <5>1. \A k \in Usable : LinksOf'[k] = LinksOf[k]
          BY <3>3, <4>1
        <5>. QED
          BY <4>1, <5>1 DEF LinksOf
      <4>. QED
        BY <1>0, <1>3, <4>1, <4>2, <4>3, <4>4, StayTree
    <3>5. CASE t # NoInode
      <4>1. t \in KidsOf[d2] /\ KidsOf[t] = {} /\ t # d2 /\ DirRecs \ {t} = DirRecs
        BY <1>5, <1>6, <1>8, <1>10, <3>5
      <4>2. ASSUME NEW k \in Usable \ {d2, t} PROVE KidsOf'[k] = KidsOf[k]
        <5>1. t \notin KidsOf[k]
          BY <1>6, <1>7, <1>10, <4>1
        <5>2. KidsOf'[k] = KidsOf[k] \ {t}
          BY <1>12, <3>1
        <5>. QED
          BY <5>1, <5>2
      <4>3. KidsOf'[d2] = KidsOf[d2] \ {t}
        BY <1>6, <1>7, <1>12, <3>1
      <4>4. Drops(Usable, DirRecs, KidsOf, UpOf, LinksOf, d2, t, KidsOf', UpOf', LinksOf')
        BY <1>6, <1>7, <1>8, <3>2, <3>3, <4>1, <4>2, <4>3 DEF Drops
      <4>. QED
        BY <1>0, <1>3, <1>7, <4>1, <4>4, DropTree
    <3>. QED
      BY <3>4, <3>5
  <2>2. CASE d1 # d2
    <3>1. d2 \in Reach(Usable \ {t}, C1)
      <4>1. Reach(Usable \ {t}, C1) = Reached \ {t}
        BY <1>0, <1>7, <1>11, ClearedTree
      <4>. QED
        BY <1>6, <1>8, <4>1
    <3>2. NotBelow(Usable \ {t}, C1, s, d2)
      BY <1>0, <1>12, StillNotBelow
    <3>3. /\ KidsOf'[d1] = C1[d1] \ {s} /\ KidsOf'[d2] = C1[d2] \cup {s}
          /\ s \in C1[d1]
      BY <1>5, <1>6, <1>7, <1>12, <1>13, <2>2
    <3>4. ASSUME NEW k \in (Usable \ {t}) \ {d1, d2} PROVE KidsOf'[k] = C1[k]
      <4>1. s \notin C1[k]
        BY <1>5, <1>6, <1>7, <1>10, <1>12
      <4>2. KidsOf'[k] = (C1[k] \ {s}) \cup {}
        BY <1>13
      <4>. QED
        BY <4>1, <4>2
    <3>5. /\ \A k \in (Usable \ {t}) \ {d1, d2} : LinksOf'[k] = LinksOf[k]
          /\ LinksOf'[d1] = IF s \in DirRecs THEN LinksOf[d1] - 1 ELSE LinksOf[d1]
          /\ LinksOf'[d2] = IF s \in DirRecs THEN LinksOf[d2] + 1 ELSE LinksOf[d2]
      BY <1>6, <1>7, <1>8, <1>15, <2>2
    <3>6. Moves(Usable \ {t}, DirRecs, C1, UpOf, LinksOf, s, d1, d2,
                KidsOf', UpOf', LinksOf')
      BY <1>6, <1>14, <2>2, <3>1, <3>2, <3>3, <3>4, <3>5 DEF Moves
    <3>. QED
      BY <1>0, <1>3, <1>7, <1>11, <3>6, MoveTree
  <2>. QED
    BY <2>1, <2>2
<1>17. DirsCounted'
  <2>1. counts \in CountsType
    BY <1>0 DEF IInv, TypeOK
  <2>2. counts'.usedDirs = counts.usedDirs /\ diskCounts'.usedDirs = counts'.usedDirs
    BY <1>2, <2>1 DEF Moved, Unlinked, Freed, CountsType
  <2>3. DirRecs' \cap Reached' = DirRecs \cap Reached
    BY <1>3, <1>8, <1>16
  <2>. QED
    BY <1>0, <2>2, <2>3, DirsKeptCount
<1>18. PlainFiles'
  <2>1. \A i \in Usable \ (DirRecs \cup {}) : inodes'[i].len > 0 =>
          /\ inodes[i].len > 0 /\ inodes'[i].kind = inodes[i].kind
          /\ inodes'[i].start = inodes[i].start
    BY <1>3, <1>7, <1>8
  <2>2. Usable' \subseteq Usable \cup {}
        /\ \A i \in Usable \cap DirRecs : i \in Usable' => i \in DirRecs' \cup {}
    BY <1>3
  <2>. QED
    BY <1>0, <1>4, <2>1, <2>2, PlainKept
<1>19. DotsAndTypes'
  <2>1. inodes'[s].kind = inodes[s].kind /\ \A j \in Usable : inodes'[j].kind = inodes[j].kind
    BY <1>3, <1>6, <1>7
  <2>2. \A k \in DirRecs : \A f : (\E q : Lists(Block(k), "..", q, f)) => f = FtDir
    BY <1>0 DEF DotsAndTypes
  <2>3. \A k \in DirRecs' : \A n, j, f : Lists(Block(k)', n, j, f) =>
          \/ k \in DirRecs /\ Lists(Block(k), n, j, f)
          \/ n = "." /\ j = k /\ f = FtDir
          \/ n = ".." /\ f = FtDir
          \/ n \in Names /\ f = FtOf(inodes'[j].kind)
    BY <1>3, <1>4, <1>6, <2>1, <2>2
  <2>. QED
    BY <1>0, <2>1, <2>3, TypesKept
<1>20. KeepsLeaks
  <2>1. CASE t = NoInode
    <3>1. Reached' = Reached /\ Usable' = Usable
      BY <1>3, <1>7, <1>16, <2>1 DEF Reached, Reach
    <3>2. KeepsInodes
      BY <1>1, <1>7, <2>1 DEF Displaces
    <3>3. \A j \in Inodes : OwnRun(inodes'[j]) = OwnRun(inodes[j])
      BY <3>2 DEF KeepsInodes, OwnRun
    <3>. QED
      BY <1>0, <3>1, <3>2, <3>3, BlocksSame DEF KeepsInodes
  <2>2. CASE t # NoInode
    <3>1. t \in Reached
      <4>1. KidsOf[d2] \subseteq Reached
        BY <1>0, <1>6, ReachedResolves
      <4>. QED
        BY <1>5, <2>2, <4>1
    <3>2. FreesInode(t)
      BY <1>1, <2>2 DEF Displaces
    <3>3. \A j \in Inodes \ {t} : OwnRun(inodes'[j]) = OwnRun(inodes[j])
      BY <3>2 DEF FreesInode, OwnRun
    <3>4. blockBitmap' = blockBitmap \ OwnRun(inodes[t])
      BY <3>2 DEF FreesInode
    <3>. QED
      BY <1>0, <1>3, <1>16, <3>1, <3>3, <3>4, BlocksFreed
  <2>. QED
    BY <2>1, <2>2
<1>. QED
  BY <1>16, <1>17, <1>18, <1>19, <1>20 DEF Kept, TreeParts

LEMMA RenameTree ==
  ASSUME NoDotsInPaths, ~ SubtreeMoves, TreeIInv, IInv',
         NEW oldPath \in Paths, NEW newPath \in Paths,
         NEW oldName \in PathNames, NEW newName \in PathNames,
         Rename(oldPath, oldName, newPath, newName)
  PROVE  Kept
<1>. DEFINE d1 == OpenPath(oldPath)
            s  == Found(d1, oldName)
            d2 == OpenPath(newPath)
            t  == Found(d2, newName)
<1>0. NoDotsInPaths /\ IInv /\ TreeNow
  BY DEF TreeIInv, TreeParts
<1>1. CASE Refuse \/ (outcome' = "same" /\ UNCHANGED <<disk, diskCounts, counts>>)
  BY <1>1, IdleTree
<1>2. CASE /\ s \in Inodes /\ IsDir(d2) /\ t # s
           /\ t # NoInode => ~ IsDir(t) /\ ~ IsDir(s)
           /\ ~ Below(s, d2)
           /\ \/ MoveFull(s, d2, t, newName)
              \/ Moved(s, d1, oldName, d2, t, newName)
  <2>1. Renames(d1, s, oldName, d2, t, newName)
    BY <1>0, <1>2, RenameChecks
  <2>2. ~ (d1 = d2 /\ oldName = newName)
    BY <1>2
  <2>3. d2 \in Reached
    BY <1>0, <1>2, FoundReached
  <2>. HIDE DEF d1, s, d2, t
  <2>. QED
    BY <1>2, <2>1, <2>2, <2>3, MoveFullTree, MovedTree
<1>. QED
  BY <1>1, <1>2 DEF Rename, Found

LEMMA CreatesTree ==
  ASSUME NoDotsInPaths, TreeIInv, IInv', NEW path \in Paths, NEW name \in PathNames,
         \/ Mkdir(path, name)
         \/ \E size \in FileSizes : CreateFile(path, name, size)
         \/ \E size \in TargetSizes : Symlink(path, name, size)
  PROVE  Kept
<1>1. CASE Mkdir(path, name)
  <2>1. Shape("dir", BlockSize, 1)
    BY Constants DEF Shape
  <2>. QED
    BY <1>1, <2>1, InsertTree DEF Mkdir
<1>2. ASSUME NEW size \in FileSizes, CreateFile(path, name, size) PROVE Kept
  <2>1. Shape("reg", size, CeilDiv(size, BlockSize))
    BY Constants, CeilDivBounds, SMTT(30) DEF Shape
  <2>. QED
    BY <1>2, <2>1, InsertTree DEF CreateFile
<1>3. ASSUME NEW size \in TargetSizes, Symlink(path, name, size) PROVE Kept
  <2>1. CASE Refuse
    BY <2>1, IdleTree
  <2>2. CASE Insert(OpenPath(path), name, "lnk", 1, size, 0)
    <3>1. Shape("lnk", size, 0)
      BY Constants DEF Shape
    <3>. QED
      BY <2>2, <3>1, InsertTree
  <2>. QED
    BY <1>3, <2>1, <2>2 DEF Symlink
<1>. QED
  BY <1>1, <1>2, <1>3

-----------------------------------------------------------------------------
(* Every call keeps the tree.                                              *)
LEMMA NextTree ==
  ASSUME NoDotsInPaths, ~ SubtreeMoves, TreeIInv, [Next]_vars
  PROVE  TreeIInv' /\ Kept
<1>0. IInv'
  BY NextIInv DEF TreeIInv
<1>1. ASSUME NEW path \in Paths, NEW name \in PathNames,
             \/ Mkdir(path, name)
             \/ \E size \in FileSizes : CreateFile(path, name, size)
             \/ \E size \in TargetSizes : Symlink(path, name, size)
      PROVE  Kept
  BY <1>0, <1>1, CreatesTree
<1>2. ASSUME NEW path \in Paths, NEW name \in PathNames, Unlink(path, name)
      PROVE  Kept
  BY <1>0, <1>2, UnlinkTree
<1>3. ASSUME NEW path \in Paths, NEW name \in PathNames, Rmdir(path, name)
      PROVE  Kept
  BY <1>0, <1>3, RmdirTree
<1>4. ASSUME NEW path \in Paths, NEW name \in PathNames,
             NEW newPath \in Paths, NEW newName \in PathNames,
             Rename(path, name, newPath, newName)
      PROVE  Kept
  BY <1>0, <1>4, RenameTree
<1>5. ASSUME NEW path \in FullPaths, NEW size \in FileSizes, Truncate(path, size)
      PROVE  Kept
  BY <1>5, TruncateTree
<1>6. ASSUME NEW path \in FullPaths, SetAttr(path) PROVE Kept
  BY <1>6, IdleTree DEF SetAttr
<1>7. ASSUME Reopen \/ UNCHANGED vars PROVE Kept
  BY <1>7, IdleTree
<1>8. Kept
  BY <1>1, <1>2, <1>3, <1>4, <1>5, <1>6, <1>7 DEF Next
<1>. QED
  BY <1>0, <1>8 DEF TreeIInv, Kept

(* mkfs leaves a tree of one directory.                                    *)
LEMMA InitTree ==
  ASSUME NoDotsInPaths, Init
  PROVE  TreeIInv
<1>0. IInv
  BY InitIInv
<1>1. /\ inodes[Root].kind = "dir" /\ inodes[Root].links = 2
      /\ Usable = {Root} /\ DirRecs = {Root}
      /\ Block(Root) = FreshBlock(Root, Root)
  BY InitImage
<1>2. \A n, j, f : Lists(Block(Root), n, j, f)
                     <=> f = FtDir /\ \/ n = "." /\ j = Root
                                      \/ n = ".." /\ j = Root
  BY <1>1, FreshLists
<1>3. Root \in Inodes /\ "." \notin Names /\ ".." \notin Names
  BY Constants
<1>4. KidsOf[Root] = {}
  <2>1. \A j : j \in KidsOf[Root] <=>
          j \in Inodes /\ \E n \in Names : \E f : Lists(Block(Root), n, j, f)
    BY <1>0, <1>1, KidsAre
  <2>. QED
    BY <1>2, <1>3, <2>1
<1>5. UpOf[Root] = Root
  <2>1. Refers(Block(Root), "..", Root)
    BY <1>2, RefersLists
  <2>. QED
    BY <1>0, <1>1, <2>1, UpIs DEF DotDotIs
<1>6. LinksOf[Root] = 2
  BY <1>1 DEF LinksOf
<1>7. Reached = {Root}
  BY <1>1 DEF Reached, Reach
<1>8. Rooted(Usable, DirRecs, KidsOf)
  BY <1>1, <1>4 DEF Rooted
<1>9. UpwardOK(DirRecs, KidsOf, UpOf)
  BY <1>1, <1>4, <1>5 DEF UpwardOK
<1>10. LinksOK(Usable, DirRecs, KidsOf, LinksOf)
  <2>1. KidsOf[Root] \cap DirRecs = {} /\ Cardinality({}) = 0
    BY <1>4, FS_EmptySet
  <2>2. \A d \in DirRecs : LinksOf[d] = 2 + Cardinality(KidsOf[d] \cap DirRecs)
    BY <1>1, <1>6, <2>1
  <2>. QED
    BY <1>1, <1>4, <2>2 DEF LinksOK
<1>11. DirsCounted
  <2>1. DirRecs \cap Reached = {Root} /\ Cardinality({Root}) = 1
    BY <1>1, <1>7, FS_Singleton
  <2>2. counts.usedDirs = 1 /\ diskCounts.usedDirs = 1
    BY DEF Init
  <2>. QED
    BY <2>1, <2>2 DEF DirsCounted
<1>12. PlainFiles
  BY <1>1 DEF PlainFiles
<1>13. DotsAndTypes
  BY <1>1, <1>2, <1>3 DEF DotsAndTypes
<1>. QED
  BY <1>0, <1>8, <1>9, <1>10, <1>11, <1>12, <1>13 DEF TreeIInv, TreeParts, TreeNow

-----------------------------------------------------------------------------
(* What the tree says of the program's own directories and entries.        *)
LEMMA TreeMeans ==
  NoDotsInPaths /\ TreeIInv =>
    /\ Reachable = Reached /\ Reached \subseteq Usable
    /\ Dirs = DirRecs \cap Reached
    /\ \A d \in DirRecs : DirEntries(inodes[d]) = Block(d) /\ Live(Block(d)) = Block(d)
    /\ \A i \in Usable : IsDir(i) /\ Named(i) # {} => i \in DirRecs
    /\ \A d \in DirRecs : Named(d) = {e \in Block(d) : e.name \in Names}
<1>. SUFFICES ASSUME NoDotsInPaths, TreeIInv
     PROVE  /\ Reachable = Reached /\ Reached \subseteq Usable
            /\ Dirs = DirRecs \cap Reached
            /\ \A d \in DirRecs : DirEntries(inodes[d]) = Block(d) /\ Live(Block(d)) = Block(d)
            /\ \A i \in Usable : IsDir(i) /\ Named(i) # {} => i \in DirRecs
            /\ \A d \in DirRecs : Named(d) = {e \in Block(d) : e.name \in Names}
  OBVIOUS
<1>0. NoDotsInPaths /\ IInv /\ PlainFiles /\ TreeNow
  BY DEF TreeIInv, TreeParts
<1>1. Reachable = Reached
  BY <1>0, ReachableIs
<1>2. Usable \subseteq Inodes /\ DirRecs \subseteq Usable
  BY <1>0, UsableInodes
<1>3. /\ Reached \subseteq Usable
      /\ \A i \in Reached : inodes[i].kind = "dir" => i \in DirRecs
  BY <1>0, ReachedResolves
<1>4. Dirs = DirRecs \cap Reached
  BY <1>1, <1>2, <1>3 DEF Dirs, IsDir, DirRecs
<1>5. \A d \in DirRecs : DirEntries(inodes[d]) = Block(d)
  BY DEF DirEntries, Block, DirRecs
<1>6. \A d \in DirRecs : \A e \in Block(d) :
        e.inode \in Inodes /\ ~ IsUnused(e) /\ e.name \in Names \cup Dots
  <2>1. \A d \in DirRecs : Sound(Block(d), Inodes)
    BY <1>0 DEF IInv, DirsSound, DirectoryBlock
  <2>2. \A d \in DirRecs : \A e \in Block(d) :
          e.inode \in Inodes /\ e.name \in Names \cup Dots
    BY <2>1, SoundEntry DEF AllNames
  <2>. QED
    BY <2>2, Constants DEF IsUnused
<1>7. \A d \in DirRecs : Live(Block(d)) = Block(d)
  BY <1>6 DEF Live
<1>8. ASSUME NEW i \in Usable, IsDir(i), Named(i) # {} PROVE i \in DirRecs
  <2>1. DirEntries(inodes[i]) # {}
    BY <1>8 DEF Named, Live
  <2>2. inodes[i].len \in Nat /\ inodes[i].len # 0
    BY <1>0, <1>2, <2>1, InodeFields, Constants DEF DirEntries, IInv
  <2>. QED
    BY <1>8, <2>2 DEF DirRecs, IsDir
<1>9. ASSUME NEW d \in DirRecs PROVE Named(d) = {e \in Block(d) : e.name \in Names}
  <2>1. Named(d) = {e \in Block(d) : e.name \notin Dots}
    BY <1>5, <1>7 DEF Named
  <2>2. "." \notin Names /\ ".." \notin Names
    BY Constants
  <2>3. \A e \in Block(d) : e.name \notin Dots <=> e.name \in Names
    BY <1>6, <2>2 DEF Dots
  <2>. QED
    BY <2>1, <2>3
<1>. QED
  BY <1>1, <1>3, <1>4, <1>5, <1>7, <1>8, <1>9

(* A directory that is reached is the root or a child of its `..`.         *)
LEMMA UpIsParent ==
  ASSUME NoDotsInPaths, TreeIInv, NEW d \in DirRecs \cap Reached
  PROVE  /\ UpOf[d] \in DirRecs /\ Refers(Block(d), "..", UpOf[d])
         /\ \/ d = Root /\ UpOf[d] = Root
            \/ d \in KidsOf[UpOf[d]]
<1>0. IInv /\ TreeNow
  BY DEF TreeIInv, TreeParts
<1>1. Refers(Block(d), "..", UpOf[d])
  BY <1>0, UpIs DEF DotDotIs
<1>2. Rooted(Usable, DirRecs, KidsOf) /\ UpwardOK(DirRecs, KidsOf, UpOf)
  BY <1>0 DEF TreeNow
<1>3. CASE d = Root
  BY <1>1, <1>2, <1>3 DEF UpwardOK
<1>4. CASE d # Root
  <2>1. PICK q \in DirRecs : d \in KidsOf[q]
    BY <1>2, <1>4, ReachedHasParent DEF Reached
  <2>2. UpOf[d] = q
    BY <1>2, <2>1 DEF UpwardOK
  <2>. QED
    BY <1>1, <2>1, <2>2
<1>. QED
  BY <1>3, <1>4

(* What an entry of a directory with a block refers to.                    *)
LEMMA EntryMeans ==
  ASSUME NoDotsInPaths, TreeIInv, NEW d \in DirRecs, NEW e \in Block(d)
  PROVE  /\ e.name \in Names =>
              /\ e.inode \in Inodes /\ e.inode \in KidsOf[d] /\ e.inode \in Usable
              /\ e.inode \in Reached
              /\ (IsDir(e.inode) <=> e.inode \in DirRecs)
              /\ e.ftype = FtOf(inodes[e.inode].kind)
         /\ e.name \notin Names =>
              /\ e.ftype = FtDir
              /\ \/ e.name = "." /\ e.inode = d
                 \/ e.name = ".." /\ e.inode = UpOf[d]
<1>0. NoDotsInPaths /\ IInv /\ DotsAndTypes /\ TreeNow
  BY DEF TreeIInv, TreeParts
<1>1. e.inode \in Inodes /\ e.name \in Names \cup Dots
  <2>1. Sound(Block(d), Inodes)
    BY <1>0 DEF IInv, DirsSound, DirectoryBlock
  <2>. QED
    BY <2>1, SoundEntry DEF AllNames
<1>2. Lists(Block(d), e.name, e.inode, e.ftype) /\ Refers(Block(d), e.name, e.inode)
  BY DEF Lists, Refers
<1>3. /\ e.name = "." => e.inode = d /\ e.ftype = FtDir
      /\ e.name = ".." => e.ftype = FtDir
      /\ e.name \in Names => e.ftype = FtOf(inodes[e.inode].kind)
  BY <1>0, <1>2 DEF DotsAndTypes
<1>4. e.name = ".." => e.inode = UpOf[d]
  BY <1>0, <1>2, UpIs DEF DotDotIs
<1>5. ASSUME e.name \in Names
      PROVE  /\ e.inode \in KidsOf[d] /\ e.inode \in Usable /\ e.inode \in Reached
             /\ (IsDir(e.inode) <=> e.inode \in DirRecs)
  <2>1. e.inode \in KidsOf[d]
    BY <1>0, <1>1, <1>2, <1>5, UsableInodes DEF KidsOf
  <2>2. e.inode \in Usable /\ (inodes[e.inode].kind = "dir" => e.inode \in DirRecs)
    BY <1>0, <1>1, <1>2, <1>5 DEF IInv, RefsUsable
  <2>3. e.inode \in Reached
    BY <1>0, <2>1, ReachedResolves
  <2>. QED
    BY <1>1, <2>1, <2>2, <2>3 DEF IsDir, DirRecs
<1>. QED
  BY <1>1, <1>3, <1>4, <1>5 DEF Dots

LEMMA DanglesNot ==
  ASSUME NoDotsInPaths, TreeIInv PROVE NoDanglingEntry
<1>0. NoDotsInPaths /\ IInv /\ TreeNow
  BY DEF TreeIInv, TreeParts
<1>1. \A d \in DirRecs : inodes[d].links > 0 /\ FtOf(inodes[d].kind) = FtDir
  <2>1. \A d \in DirRecs : LinksOf[d] \in Nat /\ LinksOf[d] >= 2
    BY <1>0, LinksAtLeast
  <2>2. \A d \in DirRecs : LinksOf[d] = inodes[d].links
    BY DEF LinksOf, DirRecs
  <2>3. \A d \in DirRecs : inodes[d].links > 0
    BY <2>1, <2>2
  <2>4. \A d \in DirRecs : FtOf(inodes[d].kind) = FtDir
    BY DEF DirRecs, FtOf
  <2>. QED
    BY <2>3, <2>4
<1>2. \A d \in DirRecs : \A i \in KidsOf[d] \ DirRecs : i \in Usable => inodes[i].links = 1
  <2>1. \A d \in DirRecs : \A i \in KidsOf[d] \ DirRecs : LinksOf[i] = 1
    BY <1>0 DEF TreeNow, LinksOK, Rooted
  <2>. QED
    BY <2>1 DEF LinksOf
<1>3. ASSUME NEW d \in Dirs, NEW e \in Live(DirEntries(inodes[d]))
      PROVE  /\ e.inode \in Usable /\ inodes[e.inode].links > 0
             /\ e.ftype = FtOf(inodes[e.inode].kind)
  <2>1. d \in DirRecs /\ d \in Reached /\ e \in Block(d)
    BY <1>3, TreeMeans
  <2>2. CASE e.name \in Names
    <3>1. /\ e.inode \in KidsOf[d] /\ e.inode \in Usable
          /\ e.ftype = FtOf(inodes[e.inode].kind)
      BY <2>1, <2>2, EntryMeans
    <3>2. inodes[e.inode].links > 0
      BY <1>1, <1>2, <2>1, <3>1
    <3>. QED
      BY <3>1, <3>2
  <2>3. CASE e.name \notin Names
    <3>1. e.ftype = FtDir /\ (e.inode = d \/ e.inode = UpOf[d])
      BY <2>1, <2>3, EntryMeans
    <3>2. UpOf[d] \in DirRecs
      BY <2>1, UpIsParent
    <3>. QED
      BY <1>1, <2>1, <3>1, <3>2 DEF DirRecs
  <2>. QED
    BY <2>2, <2>3
<1>. QED
  BY <1>3 DEF NoDanglingEntry

LEMMA DirsAreCounted ==
  ASSUME NoDotsInPaths, TreeIInv PROVE UsedDirsExact
BY TreeMeans DEF TreeIInv, TreeParts, DirsCounted, UsedDirsExact

(* An inode has one entry at most, over all directories with a block.      *)
LEMMA OneEntry ==
  ASSUME NoDotsInPaths, TreeIInv, NEW d1 \in DirRecs, NEW d2 \in DirRecs,
         NEW e1 \in Block(d1), NEW e2 \in Block(d2),
         e1.name \in Names, e2.name \in Names, e1.inode = e2.inode
  PROVE  d1 = d2 /\ e1 = e2
<1>0. IInv
  BY DEF TreeIInv
<1>1. e1.inode \in Inodes
  BY EntryMeans
<1>2. Refers(Block(d1), e1.name, e1.inode) /\ Refers(Block(d2), e2.name, e1.inode)
  BY DEF Refers
<1>3. d1 = d2 /\ e1.name = e2.name
  BY <1>0, <1>1, <1>2 DEF IInv, RefsUnique
<1>4. Sound(Block(d1), Inodes)
  BY <1>0 DEF IInv, DirsSound, DirectoryBlock
<1>. QED
  BY <1>3, <1>4 DEF Sound

LEMMA EntriesOfInodes ==
  ASSUME NEW S, NEW T, IsFiniteSet(S),
         \A j \in S : \E e \in T : e.inode = j,
         \A e \in T : e.inode \in S,
         \A e1, e2 \in T : e1.inode = e2.inode => e1 = e2
  PROVE  Cardinality(T) = Cardinality(S)
<1>. DEFINE f == [j \in S |-> CHOOSE e \in T : e.inode = j]
<1>1. \A j \in S : f[j] \in T /\ f[j].inode = j
  OBVIOUS
<1>2. f \in [S -> T]
  BY <1>1
<1>. HIDE DEF f
<1>3. f \in Injection(S, T)
  BY <1>1, <1>2 DEF Injection, IsInjective
<1>4. \A e \in T : f[e.inode] = e
  BY <1>1
<1>5. f \in Surjection(S, T)
  BY <1>2, <1>4 DEF Surjection
<1>6. ExistsBijection(S, T)
  BY <1>3, <1>5 DEF ExistsBijection, Bijection
<1>. QED
  BY <1>6, FS_Bijection

LEMMA SubdirectoryEntries ==
  ASSUME NoDotsInPaths, TreeIInv, NEW d \in DirRecs
  PROVE  Cardinality({e \in Named(d) : IsDir(e.inode)}) = Cardinality(KidsOf[d] \cap DirRecs)
<1>. DEFINE S == KidsOf[d] \cap DirRecs
            T == {e \in Named(d) : IsDir(e.inode)}
<1>0. NoDotsInPaths /\ IInv /\ TreeNow
  BY DEF TreeIInv, TreeParts
<1>1. Named(d) = {e \in Block(d) : e.name \in Names}
  BY TreeMeans
<1>2. ASSUME NEW j \in S PROVE \E e \in T : e.inode = j
  <2>1. PICK n \in Names : Refers(Block(d), n, j)
    BY <1>0, UsableInodes DEF KidsOf
  <2>2. PICK e \in Block(d) : e.name = n /\ e.inode = j
    BY <2>1 DEF Refers
  <2>3. IsDir(e.inode)
    BY <2>1, <2>2, EntryMeans
  <2>. QED
    BY <1>1, <2>1, <2>2, <2>3
<1>3. \A e \in T : e.inode \in S
  BY <1>1, EntryMeans
<1>4. \A e1, e2 \in T : e1.inode = e2.inode => e1 = e2
  BY <1>1, OneEntry
<1>5. IsFiniteSet(S)
  BY <1>0, UsableInodes, UsableFinite, FS_Subset
<1>. QED
  BY <1>2, <1>3, <1>4, <1>5, EntriesOfInodes

LEMMA LinksAreExact ==
  ASSUME NoDotsInPaths, TreeIInv PROVE LinksExact
<1>0. NoDotsInPaths /\ IInv /\ TreeNow
  BY DEF TreeIInv, TreeParts
<1>1. LinksOK(Usable, DirRecs, KidsOf, LinksOf) /\ Rooted(Usable, DirRecs, KidsOf)
  BY <1>0 DEF TreeNow
<1>2. ASSUME NEW i \in Reachable
      PROVE  inodes[i].links =
               IF IsDir(i) THEN 2 + Cardinality({e \in Named(i) : IsDir(e.inode)}) ELSE 1
  <2>1. i \in Reached /\ i \in Usable
    BY TreeMeans
  <2>2. inodes[i].links = LinksOf[i]
    BY <2>1 DEF LinksOf
  <2>3. CASE IsDir(i)
    <3>1. i \in DirRecs
      BY <1>0, <2>1, <2>3, ReachedResolves DEF IsDir
    <3>2. LinksOf[i] = 2 + Cardinality(KidsOf[i] \cap DirRecs)
      BY <1>1, <3>1 DEF LinksOK
    <3>3. Cardinality({e \in Named(i) : IsDir(e.inode)}) = Cardinality(KidsOf[i] \cap DirRecs)
      BY <3>1, SubdirectoryEntries
    <3>4. inodes[i].links = 2 + Cardinality({e \in Named(i) : IsDir(e.inode)})
      BY <2>2, <3>2, <3>3, Zenon
    <3>. QED
      BY <2>3, <3>4, Zenon
  <2>4. CASE ~ IsDir(i)
    <3>1. i \notin DirRecs
      BY <1>0, <2>1, <2>4, UsableInodes, Constants DEF IsDir, DirRecs, NoInode
    <3>2. i # Root
      BY <1>1, <3>1 DEF Rooted
    <3>3. PICK q \in DirRecs : i \in KidsOf[q]
      BY <1>1, <2>1, <3>2, ReachedHasParent DEF Reached
    <3>4. q \in Usable
      BY <1>0, UsableInodes
    <3>. QED
      BY <1>1, <2>2, <2>4, <3>1, <3>3, <3>4 DEF LinksOK
  <2>. QED
    BY <2>3, <2>4
<1>. QED
  BY <1>2 DEF LinksExact

(* Every reference to an inode is an entry of a directory with a block.    *)
LEMMA ReferencesAre ==
  ASSUME NoDotsInPaths, TreeIInv, NEW i, NEW r
  PROVE  r \in References(i) <=>
           /\ r = <<r[1], r[2]>> /\ r[1] \in DirRecs
           /\ r[2] \in Block(r[1]) /\ r[2].name \in Names /\ r[2].inode = i
<1>. DEFINE ds == {j \in Usable : IsDir(j)}
<1>1. r \in References(i) <=> \E d \in ds : \E e \in Named(d) : r = <<d, e>> /\ e.inode = i
  BY DEF References
<1>2. DirRecs \subseteq ds
  BY UsableInodes DEF TreeIInv, DirRecs, IsDir
<1>3. \A d \in ds : Named(d) # {} => d \in DirRecs
  BY TreeMeans
<1>4. \A d \in DirRecs : Named(d) = {e \in Block(d) : e.name \in Names}
  BY TreeMeans
<1>5. ASSUME r \in References(i)
      PROVE  /\ r = <<r[1], r[2]>> /\ r[1] \in DirRecs
             /\ r[2] \in Block(r[1]) /\ r[2].name \in Names /\ r[2].inode = i
  <2>1. PICK d \in ds : \E e \in Named(d) : r = <<d, e>> /\ e.inode = i
    BY <1>1, <1>5
  <2>2. PICK e \in Named(d) : r = <<d, e>> /\ e.inode = i
    BY <2>1
  <2>3. d \in DirRecs
    BY <1>3, <2>2
  <2>4. e \in Block(d) /\ e.name \in Names
    BY <1>4, <2>2, <2>3
  <2>. QED
    BY <2>2, <2>3, <2>4
<1>6. ASSUME r = <<r[1], r[2]>>, r[1] \in DirRecs,
             r[2] \in Block(r[1]), r[2].name \in Names, r[2].inode = i
      PROVE  r \in References(i)
  <2>1. r[1] \in ds /\ r[2] \in Named(r[1])
    BY <1>2, <1>4, <1>6
  <2>. QED
    BY <1>1, <1>6, <2>1
<1>. QED
  BY <1>5, <1>6

LEMMA NamesAreTree ==
  ASSUME NoDotsInPaths, TreeIInv PROVE NamesFormTree
<1>0. NoDotsInPaths /\ IInv /\ TreeNow /\ Rooted(Usable, DirRecs, KidsOf)
  BY DEF TreeIInv, TreeParts, TreeNow
<1>1. References(Root) = {}
  <2>1. SUFFICES ASSUME NEW r \in References(Root) PROVE FALSE
    OBVIOUS
  <2>2. r[1] \in DirRecs /\ Root \in KidsOf[r[1]]
    BY ReferencesAre, EntryMeans
  <2>. QED
    BY <1>0, <2>2 DEF Rooted
<1>2. ASSUME NEW i \in Usable PROVE Cardinality(References(i)) <= 1
  <2>1. \A r, s \in References(i) : r = s
    <3>1. SUFFICES ASSUME NEW r \in References(i), NEW s \in References(i) PROVE r = s
      OBVIOUS
    <3>2. /\ r = <<r[1], r[2]>> /\ r[1] \in DirRecs
          /\ r[2] \in Block(r[1]) /\ r[2].name \in Names /\ r[2].inode = i
      BY ReferencesAre
    <3>3. /\ s = <<s[1], s[2]>> /\ s[1] \in DirRecs
          /\ s[2] \in Block(s[1]) /\ s[2].name \in Names /\ s[2].inode = i
      BY ReferencesAre
    <3>4. r[1] = s[1] /\ r[2] = s[2]
      BY <3>2, <3>3, OneEntry
    <3>. QED
      BY <3>2, <3>3, <3>4
  <2>2. CASE References(i) = {}
    BY <2>2, FS_EmptySet
  <2>3. ASSUME NEW r \in References(i) PROVE Cardinality(References(i)) <= 1
    <3>1. References(i) = {r}
      BY <2>1
    <3>2. Cardinality({r}) = 1
      BY FS_Singleton
    <3>3. Cardinality(References(i)) = 1
      BY <3>1, <3>2, Zenon
    <3>. QED
      BY <3>3
  <2>. QED
    BY <2>2, <2>3
<1>3. ASSUME NEW i \in Usable, NEW r \in References(i) PROVE i \in Reachable
  <2>1. r[1] \in DirRecs /\ i \in Reached
    BY ReferencesAre, EntryMeans
  <2>. QED
    BY <2>1, TreeMeans
<1>. QED
  BY <1>1, <1>2, <1>3 DEF NamesFormTree

LEMMA DotsAreTree ==
  ASSUME NoDotsInPaths, TreeIInv PROVE DotsMatchTree
<1>0. NoDotsInPaths /\ IInv /\ TreeNow
  BY DEF TreeIInv, TreeParts
<1>1. ASSUME NEW d \in Dirs
      PROVE  /\ Lookup(d, ".") = d
             /\ \/ d = Root /\ Lookup(d, "..") = Root
                \/ \E r \in References(d) : r[1] = Lookup(d, "..")
  <2>1. d \in DirRecs /\ d \in Reached
    BY TreeMeans
  <2>2. Lookup(d, ".") = d
    <3>1. \E e \in Block(d) : e.name = "."
      BY <1>0, <2>1 DEF IInv, DirsSound, DirectoryBlock, Sound
    <3>2. PICK e \in Block(d) : e.name = "." /\ e.inode = Lookup(d, ".")
      BY <1>0, <2>1, <3>1, LookupFinds DEF Refers
    <3>3. e.name \notin Names /\ e.name # ".."
      BY <1>0, <3>2, Constants
    <3>. QED
      BY <2>1, <3>2, <3>3, EntryMeans
  <2>3. Lookup(d, "..") = UpOf[d]
    <3>1. Refers(Block(d), "..", UpOf[d])
      BY <2>1, UpIsParent
    <3>2. Refers(Block(d), "..", Lookup(d, ".."))
      BY <1>0, <2>1, <3>1, LookupFinds DEF Refers
    <3>. QED
      BY <1>0, <2>1, <3>2, UpIs DEF DotDotIs
  <2>4. ASSUME d \in KidsOf[UpOf[d]] PROVE \E r \in References(d) : r[1] = UpOf[d]
    <3>1. UpOf[d] \in DirRecs
      BY <2>1, UpIsParent
    <3>2. PICK n \in Names : Refers(Block(UpOf[d]), n, d)
      BY <1>0, <2>4, <3>1, UsableInodes DEF KidsOf
    <3>3. PICK e \in Block(UpOf[d]) : e.name = n /\ e.inode = d
      BY <3>2 DEF Refers
    <3>. DEFINE r == <<UpOf[d], e>>
    <3>4. r[1] = UpOf[d] /\ r[2] = e
      OBVIOUS
    <3>5. r \in References(d)
      BY <3>1, <3>2, <3>3, ReferencesAre
    <3>. QED
      BY <3>4, <3>5
  <2>. QED
    BY <2>1, <2>2, <2>3, <2>4, UpIsParent
<1>. QED
  BY <1>1 DEF DotsMatchTree

(* The program's leaks in the terms of the tree. *)
LEMMA LeaksAre ==
  NoDotsInPaths /\ TreeIInv =>
    LeakedInodes = Usable \ Reached /\ LeakedBlocks = LostBlocks
<1>. SUFFICES ASSUME NoDotsInPaths, TreeIInv
     PROVE  LeakedInodes = Usable \ Reached /\ LeakedBlocks = LostBlocks
  OBVIOUS
<1>1. Reachable = Reached
  BY TreeMeans
<1>. QED
  BY <1>1, Zenon DEF LeakedInodes, LeakedBlocks, LostBlocks

LEMMA StepLeaksNothing ==
  ASSUME NoDotsInPaths, ~ SubtreeMoves, TreeIInv, [Next]_vars,
         outcome' \in {"ok", "same"}
  PROVE  LeakedInodes' = LeakedInodes /\ LeakedBlocks' = LeakedBlocks
<1>1. TreeIInv' /\ KeepsLeaks
  BY NextTree DEF Kept
<1>2. LeakedInodes = Usable \ Reached /\ LeakedBlocks = LostBlocks
  BY LeaksAre
<1>3. (NoDotsInPaths /\ TreeIInv =>
         LeakedInodes = Usable \ Reached /\ LeakedBlocks = LostBlocks)'
  BY LeaksAre, PTL
<1>4. LeakedInodes' = Usable' \ Reached' /\ LeakedBlocks' = LostBlocks'
  BY <1>1, <1>3
<1>. QED
  BY <1>1, <1>2, <1>4, Zenon DEF KeepsLeaks

-----------------------------------------------------------------------------
(* The invariant, for every image and every sequence of calls whose paths  *)
(* name no dots and whose renames move no directory below itself.          *)
THEOREM TreeInvariant ==
  ASSUME NoDotsInPaths, ~ SubtreeMoves PROVE Spec => []TreeIInv
<1>1. Init => TreeIInv
  BY InitTree
<1>2. TreeIInv /\ [Next]_vars => TreeIInv'
  BY NextTree
<1>. QED
  BY <1>1, <1>2, PTL DEF Spec

(* No entry that can be reached names an inode that is free or one of      *)
(* another type than it says, however inode numbers are freed by unlink    *)
(* and rename and handed out again by create, mkdir and symlink.           *)
THEOREM EntriesNeverDangle ==
  ASSUME NoDotsInPaths, ~ SubtreeMoves PROVE Spec => []NoDanglingEntry
<1>1. TreeIInv => NoDanglingEntry
  BY DanglesNot
<1>. QED
  BY <1>1, TreeInvariant, PTL

(* The links_count that mkdir, rmdir and rename step up and down is the    *)
(* one a recount of the directory entries gives, in every reachable state, *)
(* those after calls that failed half way included.                        *)
THEOREM LinkCountsExact ==
  ASSUME NoDotsInPaths, ~ SubtreeMoves PROVE Spec => []LinksExact
<1>1. TreeIInv => LinksExact
  BY LinksAreExact
<1>. QED
  BY <1>1, TreeInvariant, PTL

(* used_dirs_count is the number of directories reachable from the root,   *)
(* in the handle and on disk alike, a directory that mkdir leaked not      *)
(* among them.                                                             *)
THEOREM DirectoryCountExact ==
  ASSUME NoDotsInPaths, ~ SubtreeMoves PROVE Spec => []UsedDirsExact
<1>1. TreeIInv => UsedDirsExact
  BY DirsAreCounted
<1>. QED
  BY <1>1, TreeInvariant, PTL

(* The names always form one tree: no call gives an inode a second name or *)
(* the root one, and none closes a loop that hangs free of the root.       *)
THEOREM NamesStayTree ==
  ASSUME NoDotsInPaths, ~ SubtreeMoves PROVE Spec => []NamesFormTree
<1>1. TreeIInv => NamesFormTree
  BY NamesAreTree
<1>. QED
  BY <1>1, TreeInvariant, PTL

(* `.` and `..` of every reachable directory are the directory and its     *)
(* parent, also after rename has moved it from one parent to another.      *)
THEOREM DotsStayRight ==
  ASSUME NoDotsInPaths, ~ SubtreeMoves PROVE Spec => []DotsMatchTree
<1>1. TreeIInv => DotsMatchTree
  BY DotsAreTree
<1>. QED
  BY <1>1, TreeInvariant, PTL

(* A call that succeeds leaves the allocated inodes and blocks that no     *)
(* name leads to exactly as they were: what it allocates it enters in the  *)
(* tree, and what it takes from the tree it frees.                         *)
THEOREM SuccessNeverLeaks ==
  ASSUME NoDotsInPaths, ~ SubtreeMoves PROVE Spec => SuccessLeaksNothing
<1>1. TreeIInv /\ [Next]_vars =>
        [outcome' \in {"ok", "same"} =>
           LeakedInodes' = LeakedInodes /\ LeakedBlocks' = LeakedBlocks]_vars
  BY StepLeaksNothing
<1>. QED
  BY <1>1, TreeInvariant, PTL DEF Spec, SuccessLeaksNothing
=============================================================================
