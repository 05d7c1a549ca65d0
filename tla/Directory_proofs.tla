-------------------------- MODULE Directory_proofs --------------------------
(***************************************************************************)
(* A directory's block keeps its shape and its promise under every         *)
(* sequence of edits, for every block size, set of names and lengths.      *)
(***************************************************************************)
EXTENDS Directory, DirBlock_proofs

Held == Inodes \cup Parents \cup {Self}

(* The dots of a block, where mkdir put them. *)
Dotted(es) ==
  /\ \E e \in es : e.name = "." /\ e.off = 0 /\ e.inode = Self /\ e.ftype = FtDir
  /\ \E e \in es : /\ e.name = ".." /\ e.off = 12
                   /\ e.inode \in Parents /\ e.ftype = FtDir

(* Inductive: the block is sound, which the edits need, and has its dots,  *)
(* which no edit of a name can reach.                                      *)
IInv ==
  /\ Sound(block, Held)
  /\ Dotted(block)
  /\ outcome \in {"ok", "full"}

LEMMA HeldIsLive == 0 \notin Held /\ "." \notin Names /\ ".." \notin Names
<1>1. 0 \notin Inodes /\ 0 \notin Parents /\ Self # 0
  BY DirectoryAssumption
<1>2. Names \cap Dots = {}
  BY DirBlockAssumption
<1>. QED
  BY <1>1, <1>2 DEF Held, Dots

(* An edit that keeps the entries of the two dots keeps the block dotted.  *)
LEMMA DotsKept ==
  ASSUME NEW es, NEW result, Dotted(es),
         \A e \in es : e.name \in Dots => \E f \in result : SameEntry(e, f)
  PROVE  Dotted(result)
BY DEF Dotted, SameEntry, Dots

(* Looking a name up finds its one entry.                                  *)
LEMMA CalledIsEntry ==
  ASSUME NEW es, Sound(es, Held), NEW name
  PROVE  /\ Called(es, name) # {} <=> \E e \in es : e.name = name
         /\ \A e \in es : e.inode # 0 /\ FirstOf(Called(es, e.name)) = e
<1>1. \A e \in es : e.inode # 0
  BY SoundEntry, HeldIsLive
<1>2. \A e \in es : FirstOf(Called(es, e.name)) = e
  BY <1>1, TargetIsUnique
<1>3. Called(es, name) = {e \in es : e.name = name}
  BY <1>1 DEF Called, Live, IsUnused
<1>. QED
  BY <1>1, <1>2, <1>3

-----------------------------------------------------------------------------
LEMMA InitIInv == Init => IInv
<1>. SUFFICES ASSUME Init PROVE IInv
  OBVIOUS
<1>1. PICK parent \in Parents : block = FreshBlock(Self, parent)
  BY DEF Init
<1>2. Sound(block, Held)
  BY <1>1, FreshSound DEF Held
<1>3. Dotted(block)
  BY <1>1 DEF Dotted, FreshBlock, Entry
<1>. QED
  BY <1>2, <1>3 DEF IInv, Init

LEMMA AddEntryIInv ==
  ASSUME IInv, NEW name \in Names, NEW inode \in Inodes, NEW ftype \in FileTypes,
         AddEntry(name, inode, ftype)
  PROVE  IInv'
<1>1. CASE Full
  BY <1>1 DEF Full, IInv
<1>2. CASE Fits(block, name) /\ block' = Add(block, name, inode, ftype)
             /\ outcome' = "ok"
  <2>1. name \in AllNames /\ inode \in Held /\ \A e \in block : e.name # name
    BY CalledIsEntry DEF AddEntry, AllNames, Held, IInv
  <2>2. Sound(block', Held)
    BY <1>2, <2>1, AddSound DEF IInv
  <2>3. Dotted(block')
    BY <1>2, AddEffect, DotsKept DEF IInv
  <2>. QED
    BY <1>2, <2>2, <2>3 DEF IInv
<1>. QED
  BY <1>1, <1>2 DEF AddEntry

(* The entry of a caller's name is removed and the dots stay. *)
LEMMA RemoveKeepsDots ==
  ASSUME NEW es, Sound(es, Held), Dotted(es), NEW t \in es, t.name \in Names
  PROVE  /\ Sound(Remove(es, t.inode, t.name), Held)
         /\ Dotted(Remove(es, t.inode, t.name))
<1>1. t.inode # 0 /\ t.name # "." /\ t.name # ".."
  BY CalledIsEntry, HeldIsLive
<1>2. \A e \in es : e.name \in Dots =>
        \E f \in Remove(es, t.inode, t.name) : SameEntry(e, f)
  BY <1>1, RemoveEffect DEF Dots
<1>. QED
  BY <1>1, <1>2, RemoveSound, DotsKept

LEMMA RemoveEntryIInv ==
  ASSUME IInv, NEW name \in Names, RemoveEntry(name)
  PROVE  IInv'
<1>1. PICK t \in block : t.name = name
  BY CalledIsEntry DEF RemoveEntry, IInv
<1>2. block' = Remove(block, t.inode, t.name)
  BY <1>1, CalledIsEntry DEF RemoveEntry, IInv
<1>. QED
  BY <1>1, <1>2, RemoveKeepsDots DEF RemoveEntry, IInv

(* rename in one directory: the entry it adds and the one it removes.      *)
LEMMA RenameSteps ==
  ASSUME IInv, NEW old \in Names, NEW new \in Names, RenameEntry(old, new),
         ~ Full
  PROVE  \E src \in block : \E t \in Add(block, new, src.inode, src.ftype) :
           /\ src.name = old /\ SameEntry(src, t)
           /\ Sound(Add(block, new, src.inode, src.ftype), Held)
           /\ Dotted(Add(block, new, src.inode, src.ftype))
           /\ block' = Remove(Add(block, new, src.inode, src.ftype), t.inode, t.name)
           /\ outcome' = "ok"
           /\ \A e \in block : e.name # new
<1>1. PICK src \in block : src.name = old
  BY CalledIsEntry DEF RenameEntry, IInv
<1>2. src.inode \in Held /\ src.ftype \in FileTypes /\ new \in AllNames
      /\ \A e \in block : e.name # new
  BY <1>1, CalledIsEntry, SoundEntry DEF RenameEntry, IInv, AllNames
<1>3. FirstOf(Called(block, old)) = src
  BY <1>1, CalledIsEntry DEF IInv
<1>4. Fits(block, new) /\ outcome' = "ok"
      /\ block' = Remove(Add(block, new, src.inode, src.ftype), src.inode, old)
  BY <1>3 DEF RenameEntry
<1>5. Sound(Add(block, new, src.inode, src.ftype), Held)
  BY <1>2, <1>4, AddSound DEF IInv
<1>6. Dotted(Add(block, new, src.inode, src.ftype))
  BY AddEffect, DotsKept DEF IInv
<1>7. PICK t \in Add(block, new, src.inode, src.ftype) : SameEntry(src, t)
  BY AddEffect DEF IInv
<1>. QED
  BY <1>1, <1>2, <1>4, <1>5, <1>6, <1>7 DEF SameEntry

LEMMA RenameEntryIInv ==
  ASSUME IInv, NEW old \in Names, NEW new \in Names, RenameEntry(old, new)
  PROVE  IInv'
<1>1. CASE Full
  BY <1>1 DEF Full, IInv
<1>2. CASE ~ Full
  <2>1. \E added : \E t \in added :
           /\ t.name = old /\ Sound(added, Held) /\ Dotted(added)
           /\ block' = Remove(added, t.inode, t.name)
           /\ outcome' = "ok"
    BY <1>2, RenameSteps DEF SameEntry
  <2>. QED
    BY <2>1, RemoveKeepsDots DEF IInv
<1>. QED
  BY <1>1, <1>2

LEMMA MoveSelfIInv ==
  ASSUME IInv, NEW parent \in Parents, MoveSelf(parent)
  PROVE  IInv'
<1>1. PICK d \in block : /\ d.name = ".." /\ d.off = 12
                         /\ d.inode \in Parents /\ d.ftype = FtDir
  BY DEF IInv, Dotted
<1>2. /\ Sound(block', Held)
      /\ block' = (block \ {d}) \cup {Entry(d.off, d.recLen, parent, d.name, d.ftype)}
  BY <1>1, CalledIsEntry, SetDotDotSound DEF MoveSelf, IInv, Held
<1>3. Dotted(block')
  <2>1. \E e \in block' : /\ e.name = "." /\ e.off = 0
                          /\ e.inode = Self /\ e.ftype = FtDir
    <3>1. PICK e \in block : /\ e.name = "." /\ e.off = 0
                             /\ e.inode = Self /\ e.ftype = FtDir
      BY DEF IInv, Dotted
    <3>2. e # d
      BY <1>1, <3>1
    <3>3. e \in block'
      BY <1>2, <3>2
    <3>. QED
      BY <3>1, <3>3
  <2>2. \E e \in block' : /\ e.name = ".." /\ e.off = 12
                          /\ e.inode \in Parents /\ e.ftype = FtDir
    <3>. DEFINE moved == Entry(d.off, d.recLen, parent, d.name, d.ftype)
    <3>1. moved \in block'
      BY <1>2
    <3>2. /\ moved.name = ".." /\ moved.off = 12
          /\ moved.inode \in Parents /\ moved.ftype = FtDir
      BY <1>1 DEF Entry
    <3>. QED
      BY <3>1, <3>2
  <2>. QED
    BY <2>1, <2>2 DEF Dotted
<1>. QED
  BY <1>2, <1>3 DEF IInv, MoveSelf

(* The invariant holds of every reachable block.                           *)
LEMMA IInvHolds == Spec => []IInv
<1>1. IInv /\ [Next]_vars => IInv'
  <2>. SUFFICES ASSUME IInv, [Next]_vars PROVE IInv'
    OBVIOUS
  <2>1. CASE UNCHANGED vars
    BY <2>1 DEF vars, IInv
  <2>2. CASE Next
    BY <2>2, AddEntryIInv, RemoveEntryIInv, RenameEntryIInv, MoveSelfIInv DEF Next
  <2>. QED
    BY <2>1, <2>2
<1>. QED
  BY <1>1, InitIInv, PTL DEF Spec

-----------------------------------------------------------------------------
(* Every entry an edit leaves is live and of its type: a caller that never *)
(* removes `.` never makes a tombstone.                                    *)
THEOREM BlockTyped == Spec => []TypeOK
<1>1. IInv => TypeOK
  BY DEF IInv, Sound, EntriesOver, TypeOK, EntryType, Held
<1>. QED
  BY <1>1, IInvHolds, PTL

(* The walk of read_dir, add_dir_entry and remove_dir_entry decodes every  *)
(* entry and ends at the block's end, after any sequence of edits.         *)
THEOREM BlockAlwaysTiled == Spec => []BlockTiled
<1>1. IInv => BlockTiled
  BY DEF IInv, Sound, BlockTiled
<1>. QED
  BY <1>1, IInvHolds, PTL

(* add_dir_entry never doubles a name, and no edit of a name touches the   *)
(* two dots.                                                               *)
THEOREM BlockNamesUnique == Spec => []NamesUnique
<1>1. IInv => NamesUnique
  BY DEF IInv, Sound, Dotted, NamesUnique
<1>. QED
  BY <1>1, IInvHolds, PTL

(* remove_dir_entry's merging gives all the room back: a directory emptied *)
(* of its names is byte for byte the one mkdir wrote.                      *)
THEOREM BlockEmptiedIsFresh == Spec => []EmptiedIsFresh
<1>1. IInv => EmptiedIsFresh
  <2>. SUFFICES ASSUME IInv, \A e \in block : e.name \in Dots
       PROVE  \E parent \in Parents : block = FreshBlock(Self, parent)
    BY DEF EmptiedIsFresh
  <2>1. PICK dot \in block : /\ dot.name = "." /\ dot.off = 0
                             /\ dot.inode = Self /\ dot.ftype = FtDir
    BY DEF IInv, Dotted
  <2>2. PICK dotdot \in block : /\ dotdot.name = ".." /\ dotdot.off = 12
                                /\ dotdot.inode \in Parents /\ dotdot.ftype = FtDir
    BY DEF IInv, Dotted
  <2>3. block = {dot, dotdot}
    BY <2>1, <2>2 DEF IInv, Sound, Dots
  <2>4. /\ dot = Entry(dot.off, dot.recLen, dot.inode, dot.name, dot.ftype)
        /\ dotdot = Entry(dotdot.off, dotdot.recLen, dotdot.inode,
                          dotdot.name, dotdot.ftype)
        /\ dot.recLen \in Nat /\ dot.recLen >= 12
        /\ dotdot.recLen \in Nat /\ dotdot.recLen >= 12
    BY SoundEntry DEF IInv
  <2>5. BlockSize \in Nat /\ BlockSize >= 24
    BY BlockSizeBounds
  <2>6. dot.recLen = 12
    <3>1. dot # dotdot
      BY <2>1, <2>2
    <3>2. End(dot) <= dotdot.off \/ End(dotdot) <= dot.off
      BY <3>1 DEF IInv, Sound, Tiled, Disjoint
    <3>. QED
      BY <2>1, <2>2, <2>4, <3>2 DEF End
  <2>7. dotdot.recLen = BlockSize - 12
    <3>1. End(dot) = BlockSize \/ End(dotdot) = BlockSize
      BY <2>3 DEF IInv, Sound, Tiled, Covers
    <3>. QED
      BY <2>1, <2>2, <2>4, <2>5, <2>6, <3>1 DEF End
  <2>. QED
    BY <2>1, <2>2, <2>3, <2>4, <2>6, <2>7 DEF FreshBlock
<1>. QED
  BY <1>1, IInvHolds, PTL

-----------------------------------------------------------------------------
(* Refinement: what looking a name up in a block returns. *)
InodeIn(es, name) ==
  IF Called(es, name) = {} THEN 0 ELSE FirstOf(Called(es, name)).inode

LEMMA InodeInSound ==
  ASSUME NEW es, Sound(es, Held)
  PROVE  /\ \A e \in es : InodeIn(es, e.name) = e.inode /\ e.inode # 0
         /\ \A name : (\A e \in es : e.name # name) => InodeIn(es, name) = 0
BY CalledIsEntry DEF InodeIn

LEMMA AddInMap ==
  ASSUME NEW es, Sound(es, Held), NEW name, NEW i, NEW ft,
         \A e \in es : e.name # name,
         Sound(Add(es, name, i, ft), Held)
  PROVE  \A n : InodeIn(Add(es, name, i, ft), n) =
                  IF n = name THEN i ELSE InodeIn(es, n)
<1>. DEFINE result == Add(es, name, i, ft)
<1>1. PICK f \in result : f.name = name /\ f.inode = i
  BY AddEffect
<1>2. InodeIn(result, name) = i
  BY <1>1, InodeInSound
<1>3. ASSUME NEW n, n # name
      PROVE  InodeIn(result, n) = InodeIn(es, n)
  <2>1. CASE \E e \in es : e.name = n
    <3>1. PICK e \in es, g \in result : e.name = n /\ SameEntry(e, g)
      BY <2>1, AddEffect
    <3>. QED
      BY <3>1, InodeInSound DEF SameEntry
  <2>2. CASE \A e \in es : e.name # n
    <3>1. \A g \in result : g.name # n
      BY <1>3, <2>2, AddEffect DEF SameEntry
    <3>. QED
      BY <2>2, <3>1, InodeInSound
  <2>. QED
    BY <2>1, <2>2
<1>. QED
  BY <1>2, <1>3

LEMMA RemoveInMap ==
  ASSUME NEW es, Sound(es, Held), NEW t \in es, t.name # ".",
         Sound(Remove(es, t.inode, t.name), Held)
  PROVE  \A n : InodeIn(Remove(es, t.inode, t.name), n) =
                  IF n = t.name THEN 0 ELSE InodeIn(es, n)
<1>. DEFINE result == Remove(es, t.inode, t.name)
<1>1. t.inode # 0
  BY InodeInSound
<1>2. /\ \A e \in es : e # t => \E f \in result : SameEntry(e, f)
      /\ \A f \in result :
           f.name # t.name /\ \E e \in es : e # t /\ SameEntry(e, f)
  BY <1>1, RemoveEffect
<1>. HIDE DEF result
<1>3. InodeIn(result, t.name) = 0
  BY <1>2, InodeInSound DEF result
<1>4. ASSUME NEW n, n # t.name
      PROVE  InodeIn(result, n) = InodeIn(es, n)
  <2>1. CASE \E e \in es : e.name = n
    <3>1. PICK e \in es : e.name = n
      BY <2>1
    <3>2. PICK g \in result : SameEntry(e, g)
      BY <1>2, <1>4, <3>1
    <3>. QED
      BY <3>1, <3>2, InodeInSound DEF SameEntry, result
  <2>2. CASE \A e \in es : e.name # n
    <3>1. \A g \in result : g.name # n
      BY <1>2, <2>2 DEF SameEntry
    <3>. QED
      BY <2>2, <3>1, InodeInSound DEF result
  <2>. QED
    BY <2>1, <2>2
<1>. QED
  BY <1>3, <1>4 DEF result

(* Moving the directory changes no name but `..`.                          *)
LEMMA MoveInMap ==
  ASSUME IInv, NEW parent \in Parents, MoveSelf(parent)
  PROVE  \A n \in Names : InodeIn(block', n) = InodeIn(block, n)
<1>1. Sound(block, Held) /\ Sound(block', Held)
  BY MoveSelfIInv DEF IInv
<1>2. PICK d \in block : d.name = ".." /\ d.inode # 0
  BY <1>1, InodeInSound DEF IInv, Dotted
<1>3. block' = (block \ {d}) \cup {Entry(d.off, d.recLen, parent, d.name, d.ftype)}
  BY <1>1, <1>2, SetDotDotSound DEF MoveSelf, Held
<1>. SUFFICES ASSUME NEW n \in Names
     PROVE  InodeIn(block', n) = InodeIn(block, n)
  OBVIOUS
<1>4. n # ".."
  BY HeldIsLive
<1>5. CASE \E e \in block : e.name = n
  <2>1. PICK e \in block : e.name = n
    BY <1>5
  <2>2. e \in block'
    BY <1>2, <1>3, <1>4, <2>1
  <2>. QED
    BY <1>1, <2>1, <2>2, InodeInSound
<1>6. CASE \A e \in block : e.name # n
  <2>1. Entry(d.off, d.recLen, parent, d.name, d.ftype).name # n
    BY <1>2, <1>4 DEF Entry
  <2>2. \A e \in block' : e.name # n
    BY <1>3, <1>6, <2>1
  <2>. QED
    BY <1>1, <1>6, <2>2, InodeInSound
<1>. QED
  BY <1>5, <1>6

(* A directory is the map its callers take it for: every edit of the block *)
(* is one of the map's, a refused one changes nothing, and a move of the   *)
(* directory is none.                                                      *)
THEOREM BlockIsNameMap == Spec => IsNameMap
<1>. DEFINE map == [n \in Names |-> Inode(n)]
<1>1. Init => Promise!Init
  <2>. SUFFICES ASSUME Init PROVE Promise!Init
    OBVIOUS
  <2>1. Sound(block, Held) /\ outcome = "ok"
    BY InitIInv DEF IInv, Init
  <2>2. \A n \in Names : \A e \in block : e.name # n
    BY HeldIsLive DEF Init, FreshBlock, Entry
  <2>3. \A n \in Names : Inode(n) = 0
    BY <2>1, <2>2, InodeInSound DEF InodeIn, Inode
  <2>. QED
    BY <2>1, <2>3 DEF Promise!Init
<1>2. IInv /\ IInv' /\ [Next]_vars => [Promise!Next]_<<map, outcome>>
  <2>. SUFFICES ASSUME IInv, IInv', [Next]_vars
       PROVE  [Promise!Next]_<<map, outcome>>
    OBVIOUS
  <2>1. \A n : Inode(n) = InodeIn(block, n) /\ Inode(n)' = InodeIn(block', n)
    BY DEF Inode, InodeIn
  <2>2. ASSUME NEW name \in Names, NEW inode \in Inodes, NEW ftype \in FileTypes,
               AddEntry(name, inode, ftype)
        PROVE  Promise!Add(name, inode)
    <3>1. \A e \in block : e.name # name
      BY <2>2, CalledIsEntry DEF AddEntry, IInv
    <3>2. map[name] = 0
      BY <2>1, <3>1, InodeInSound DEF IInv
    <3>3. CASE Full
      BY <3>2, <3>3 DEF Full, Promise!Add, Inode
    <3>4. CASE block' = Add(block, name, inode, ftype) /\ outcome' = "ok"
      <4>1. \A n : InodeIn(block', n) =
                      IF n = name THEN inode ELSE InodeIn(block, n)
        BY <3>1, <3>4, AddInMap DEF IInv
      <4>2. map' = [map EXCEPT ![name] = inode]
        BY <2>1, <4>1
      <4>. QED
        BY <3>2, <3>4, <4>2 DEF Promise!Add
    <3>. QED
      BY <2>2, <3>3, <3>4 DEF AddEntry
  <2>3. ASSUME NEW name \in Names, RemoveEntry(name)
        PROVE  Promise!Remove(name)
    <3>1. PICK t \in block : t.name = name
      BY <2>3, CalledIsEntry DEF RemoveEntry, IInv
    <3>2. block' = Remove(block, t.inode, t.name) /\ t.name # "."
      BY <2>3, <3>1, CalledIsEntry, HeldIsLive DEF RemoveEntry, IInv
    <3>3. \A n : InodeIn(block', n) = IF n = name THEN 0 ELSE InodeIn(block, n)
      BY <3>1, <3>2, RemoveInMap DEF IInv
    <3>4. map[name] # 0
      BY <2>1, <3>1, InodeInSound DEF IInv
    <3>5. map' = [map EXCEPT ![name] = 0]
      BY <2>1, <3>3
    <3>. QED
      BY <2>3, <3>4, <3>5 DEF RemoveEntry, Promise!Remove
  <2>4. ASSUME NEW old \in Names, NEW new \in Names, RenameEntry(old, new)
        PROVE  Promise!Rename(old, new)
    <3>1. map[old] # 0 /\ map[new] = 0
      <4>1. (\E e \in block : e.name = old) /\ \A e \in block : e.name # new
        BY <2>4, CalledIsEntry DEF RenameEntry, IInv
      <4>. QED
        BY <2>1, <4>1, InodeInSound DEF IInv
    <3>2. CASE Full
      BY <3>1, <3>2 DEF Full, Promise!Rename, Inode
    <3>3. CASE ~ Full
      <4>1. PICK src \in block : \E t \in Add(block, new, src.inode, src.ftype) :
               /\ src.name = old /\ SameEntry(src, t)
               /\ Sound(Add(block, new, src.inode, src.ftype), Held)
               /\ block' = Remove(Add(block, new, src.inode, src.ftype), t.inode, t.name)
               /\ outcome' = "ok"
               /\ \A e \in block : e.name # new
        BY <2>4, <3>3, RenameSteps
      <4>. DEFINE added == Add(block, new, src.inode, src.ftype)
      <4>2. PICK t \in added :
               /\ src.name = old /\ SameEntry(src, t) /\ Sound(added, Held)
               /\ block' = Remove(added, t.inode, t.name) /\ outcome' = "ok"
               /\ \A e \in block : e.name # new
        BY <4>1
      <4>3. t.name = old /\ t.name # "."
        BY <4>2, HeldIsLive DEF SameEntry
      <4>4. \A n : InodeIn(added, n) =
                      IF n = new THEN src.inode ELSE InodeIn(block, n)
        BY <4>2, AddInMap DEF IInv
      <4>5. \A n : InodeIn(block', n) = IF n = old THEN 0 ELSE InodeIn(added, n)
        BY <4>2, <4>3, RemoveInMap DEF IInv
      <4>6. InodeIn(block, old) = src.inode
        BY <4>2, InodeInSound DEF IInv
      <4>. HIDE DEF added
      <4>7. map' = [map EXCEPT ![new] = map[old], ![old] = 0]
        BY <2>1, <4>4, <4>5, <4>6
      <4>. QED
        BY <3>1, <4>2, <4>7 DEF Promise!Rename
    <3>. QED
      BY <3>2, <3>3
  <2>5. ASSUME NEW parent \in Parents, MoveSelf(parent)
        PROVE  UNCHANGED <<map, outcome>>
    BY <2>1, <2>5, MoveInMap DEF MoveSelf
  <2>6. CASE UNCHANGED vars
    BY <2>6 DEF vars, Inode
  <2>. QED
    BY <2>2, <2>3, <2>4, <2>5, <2>6 DEF Next, Promise!Next
<1>. QED
  BY <1>1, <1>2, IInvHolds, PTL DEF Spec, IsNameMap, Promise!Spec
=============================================================================
