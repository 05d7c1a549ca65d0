--------------------------- MODULE DirBlock_proofs ---------------------------
(***************************************************************************)
(* What the edits of a directory block preserve, for every block size,     *)
(* every set of names and every length of them: facts about the operators  *)
(* of DirBlock, cited by the proofs about Directory and Filesystem.        *)
(***************************************************************************)
EXTENDS DirBlock, TLAPS

EntriesOver(I) ==
  [off : 0 .. BlockSize, recLen : 8 .. BlockSize, inode : I,
   name : AllNames, ftype : FileTypes]

(* A block of live entries naming inodes of I: tiled and aligned, no name  *)
(* twice, `.` in front.                                                    *)
Sound(es, I) ==
  /\ es \subseteq EntriesOver(I)
  /\ Tiled(es)
  /\ \A e \in es : e.off % 4 = 0
  /\ \A e, f \in es : e.name = f.name => e = f
  /\ \E e \in es : e.off = 0 /\ e.name = "."

-----------------------------------------------------------------------------
(* The block's size, as far as the arithmetic of the edits needs it.       *)
LEMMA BlockSizeBounds ==
  BlockSize \in Nat /\ BlockSize >= 24 /\ BlockSize % 4 = 0
<1>1. BlockSize \in Nat
  BY DirBlockAssumption
<1>2. BlockSize >= 24
  BY DirBlockAssumption
<1>3. BlockSize % 4 = 0
  BY DirBlockAssumption
<1>. QED
  BY <1>1, <1>2, <1>3

(* pad4 rounds the header and the name up to a multiple of four.           *)
LEMMA ActualSizeBounds ==
  ASSUME NEW name \in AllNames
  PROVE  /\ ActualSize(name) \in Nat
         /\ ActualSize(name) % 4 = 0
         /\ ActualSize(name) >= 12
         /\ ActualSize(name) <= 264
<1>1. NameLen[name] \in 1 .. 255
  BY DirBlockAssumption
<1>2. PICK k \in 1 .. 255 : k = NameLen[name]
  BY <1>1
<1>. QED
  BY <1>2 DEF ActualSize, Pad4

(* The walk of a tiled block ends with one entry, the one add_dir_entry    *)
(* takes the slack of.                                                     *)
LEMMA LastEntryOfTiled ==
  ASSUME NEW I, NEW es, Sound(es, I)
  PROVE  /\ LastEntry(es) \in es
         /\ End(LastEntry(es)) = BlockSize
         /\ \A e \in es : End(e) = BlockSize => e = LastEntry(es)
<1>1. BlockSize \in Nat
  BY BlockSizeBounds
<1>2. \A e \in es : e.off \in Nat /\ e.recLen \in Nat /\ e.recLen >= 8 /\ End(e) <= BlockSize
  BY <1>1 DEF Sound, EntriesOver, Tiled, WellFormed, End
<1>3. PICK e \in es : End(e) = BlockSize
  BY DEF Sound, Tiled, Covers
<1>4. \A f \in es : End(f) >= BlockSize => f = e
  BY <1>1, <1>2, <1>3 DEF Sound, Tiled, Disjoint, End
<1>5. LastEntry(es) \in es /\ End(LastEntry(es)) >= BlockSize
  BY <1>1, <1>3 DEF LastEntry
<1>. QED
  BY <1>1, <1>3, <1>4, <1>5

-----------------------------------------------------------------------------
(* The same entry, whatever room it takes. *)
SameEntry(e, f) ==
  e.off = f.off /\ e.inode = f.inode /\ e.name = f.name /\ e.ftype = f.ftype

(* What the entries of a sound block satisfy, one by one.                  *)
LEMMA SoundEntry ==
  ASSUME NEW I, NEW es, Sound(es, I), NEW e \in es
  PROVE  /\ e = Entry(e.off, e.recLen, e.inode, e.name, e.ftype)
         /\ e.off \in Nat /\ e.recLen \in Nat
         /\ e.inode \in I /\ e.name \in AllNames /\ e.ftype \in FileTypes
         /\ e.off % 4 = 0 /\ e.recLen % 4 = 0
         /\ e.recLen >= ActualSize(e.name) /\ e.recLen >= 12
         /\ e.off + e.recLen <= BlockSize
<1>1. BlockSize \in Nat
  BY BlockSizeBounds
<1>2. e \in EntriesOver(I) /\ WellFormed(e) /\ e.off % 4 = 0
  BY DEF Sound, Tiled
<1>3. ActualSize(e.name) \in Nat /\ ActualSize(e.name) >= 12
  BY <1>2, ActualSizeBounds DEF EntriesOver
<1>. QED
  BY <1>1, <1>2, <1>3 DEF EntriesOver, WellFormed, End, Entry

(* add_dir_entry on a sound block with no entry of that name and enough    *)
(* slack leaves a sound block.                                             *)
LEMMA AddSound ==
  ASSUME NEW I, NEW es, Sound(es, I),
         NEW name \in AllNames, NEW i \in I, NEW ft \in FileTypes,
         \A e \in es : e.name # name,
         Fits(es, name)
  PROVE  Sound(Add(es, name, i, ft), I)
<1>. DEFINE last == LastEntry(es)
            size == ActualSize(last.name)
            shrunk == [last EXCEPT !.recLen = size]
            new == Entry(last.off + size, BlockSize - (last.off + size), i, name, ft)
            result == Add(es, name, i, ft)
<1>1. BlockSize \in Nat /\ BlockSize % 4 = 0
  BY BlockSizeBounds
<1>2. last \in es /\ last.off + last.recLen = BlockSize
      /\ \A e \in es : e.off + e.recLen = BlockSize => e = last
  BY LastEntryOfTiled DEF End
<1>3. \A e \in es :
         /\ e = Entry(e.off, e.recLen, e.inode, e.name, e.ftype)
         /\ e.off \in Nat /\ e.recLen \in Nat
         /\ e.inode \in I /\ e.name \in AllNames /\ e.ftype \in FileTypes
         /\ e.off % 4 = 0 /\ e.recLen % 4 = 0
         /\ e.recLen >= ActualSize(e.name) /\ e.recLen >= 12
         /\ e.off + e.recLen <= BlockSize
  BY SoundEntry
<1>4. /\ size \in Nat /\ size % 4 = 0 /\ size >= 12
      /\ ActualSize(name) \in Nat /\ ActualSize(name) >= 12
  BY <1>2, <1>3, ActualSizeBounds
<1>5. last.recLen - size >= ActualSize(name)
  BY <1>2, <1>3, <1>4 DEF Fits, Slack
<1>6. shrunk = Entry(last.off, size, last.inode, last.name, last.ftype)
  BY <1>2, <1>3 DEF Entry
<1>7. result = (es \ {last}) \cup {shrunk, new}
  BY <1>6 DEF Add, End, Entry
<1>8. /\ new.off = last.off + size /\ new.recLen = BlockSize - (last.off + size)
      /\ new.inode = i /\ new.name = name /\ new.ftype = ft
      /\ shrunk.off = last.off /\ shrunk.recLen = size
      /\ shrunk.inode = last.inode /\ shrunk.name = last.name
      /\ shrunk.ftype = last.ftype
  BY <1>6 DEF Entry
<1>9. /\ new.off \in Nat /\ new.recLen \in Nat
      /\ new.off % 4 = 0 /\ new.recLen % 4 = 0
      /\ new.recLen >= ActualSize(name) /\ new.recLen >= 8
      /\ new.off + new.recLen = BlockSize
  <2>1. last.off \in Nat /\ last.off % 4 = 0 /\ last.recLen \in Nat
    BY <1>2, <1>3
  <2>2. new.off % 4 = 0 /\ new.recLen % 4 = 0
    BY <1>1, <1>4, <1>8, <2>1
  <2>3. new.recLen >= ActualSize(name)
    BY <1>1, <1>2, <1>4, <1>5, <1>8, <2>1
  <2>. QED
    BY <1>1, <1>4, <1>8, <2>1, <2>2, <2>3
<1>10. \A e \in result : \/ e \in es /\ e # last
                         \/ e = shrunk
                         \/ e = new
  BY <1>7
<1>11. \A e \in es : e # last => e.off + e.recLen <= last.off
  <2>1. \A e \in es : \/ e = last
                      \/ e.off + e.recLen <= last.off
                      \/ BlockSize <= e.off
    BY <1>2 DEF Sound, Tiled, Disjoint, End
  <2>. QED
    BY <1>1, <1>2, <1>3, <2>1
<1>12. result \subseteq EntriesOver(I)
  <2>1. new \in EntriesOver(I)
    BY <1>1, <1>8, <1>9 DEF Entry, EntriesOver
  <2>2. shrunk \in EntriesOver(I)
    BY <1>1, <1>2, <1>3, <1>4, <1>5, <1>6 DEF Entry, EntriesOver
  <2>. QED
    BY <1>7, <2>1, <2>2 DEF Sound
<1>13. \A e \in result : WellFormed(e) /\ e.off % 4 = 0
  <2>1. WellFormed(new) /\ new.off % 4 = 0
    BY <1>1, <1>8, <1>9 DEF WellFormed, End
  <2>2. WellFormed(shrunk) /\ shrunk.off % 4 = 0
    BY <1>1, <1>2, <1>3, <1>4, <1>5, <1>8 DEF WellFormed, End
  <2>3. \A e \in es : WellFormed(e) /\ e.off % 4 = 0
    BY DEF Sound, Tiled
  <2>. QED
    BY <1>10, <2>1, <2>2, <2>3
<1>. HIDE DEF result, new, shrunk, last, size
<1>14. Disjoint(result)
  <2>. SUFFICES ASSUME NEW e \in result, NEW f \in result, e # f
       PROVE  End(e) <= f.off \/ End(f) <= e.off
    BY DEF Disjoint
  <2>1. CASE e \in es /\ f \in es
    BY <2>1 DEF Sound, Tiled, Disjoint
  <2>2. ASSUME NEW g \in es, g # last
        PROVE  End(g) <= shrunk.off /\ End(g) <= new.off
    BY <1>2, <1>3, <1>4, <1>8, <1>11, <2>2 DEF End
  <2>3. End(shrunk) = new.off
    BY <1>8 DEF End
  <2>. QED
    BY <1>2, <1>3, <1>9, <1>10, <2>1, <2>2, <2>3
<1>15. Covers(result)
  <2>1. \E e \in result : e.off = 0
    BY <1>2, <1>7, <1>8 DEF Sound
  <2>2. \E e \in result : End(e) = BlockSize
    BY <1>7, <1>9 DEF End
  <2>3. ASSUME NEW e \in result, End(e) # BlockSize
        PROVE  \E f \in result : f.off = End(e)
    <3>1. CASE e = shrunk
      BY <1>7, <1>8, <3>1 DEF End
    <3>2. CASE e \in es /\ e # last
      BY <1>2, <1>7, <1>8, <2>3, <3>2 DEF Sound, Tiled, Covers, End
    <3>. QED
      BY <1>9, <1>10, <2>3, <3>1, <3>2 DEF End
  <2>4. ASSUME NEW e \in result, e.off # 0
        PROVE  \E p \in result : End(p) = e.off
    <3>1. CASE e = new
      BY <1>7, <1>8, <3>1 DEF End
    <3>2. CASE e = shrunk \/ e \in es
      <4>1. PICK f \in es : f.off = e.off
        BY <1>2, <1>8, <3>2
      <4>2. PICK p \in es : End(p) = e.off
        BY <2>4, <4>1 DEF Sound, Tiled, Covers, Predecessors
      <4>3. e.off < BlockSize
        BY <1>1, <1>3, <1>4, <4>1, ActualSizeBounds
      <4>. QED
        BY <1>2, <1>3, <1>7, <4>2, <4>3 DEF End
    <3>. QED
      BY <1>10, <3>1, <3>2
  <2>. QED
    BY <2>1, <2>2, <2>3, <2>4 DEF Covers, Predecessors
<1>16. \A e, f \in result : e.name = f.name => e = f
  <2>1. \A e, f \in es : e.name = f.name => e = f
    BY DEF Sound
  <2>2. \A e \in es : e # last => e.name # last.name
    BY <1>2, <2>1
  <2>. QED
    BY <1>2, <1>8, <1>10, <2>1, <2>2
<1>17. \E e \in result : e.off = 0 /\ e.name = "."
  BY <1>2, <1>7, <1>8 DEF Sound
<1>. QED
  BY <1>12, <1>13, <1>14, <1>15, <1>16, <1>17 DEF Sound, Tiled, result

(* add_dir_entry keeps what every entry says, and the only entry it adds   *)
(* says what the caller asked for.                                         *)
LEMMA AddEffect ==
  ASSUME NEW I, NEW es, Sound(es, I), NEW name, NEW i, NEW ft
  PROVE  /\ \A e \in es : \E f \in Add(es, name, i, ft) : SameEntry(e, f)
         /\ \A f \in Add(es, name, i, ft) :
              \/ \E e \in es : SameEntry(e, f)
              \/ f.name = name /\ f.inode = i /\ f.ftype = ft
         /\ \E f \in Add(es, name, i, ft) :
              f.name = name /\ f.inode = i /\ f.ftype = ft
<1>. DEFINE last == LastEntry(es)
            shrunk == [last EXCEPT !.recLen = ActualSize(last.name)]
            new == Entry(End(shrunk), BlockSize - End(shrunk), i, name, ft)
<1>1. last \in es /\ last = Entry(last.off, last.recLen, last.inode, last.name, last.ftype)
  BY LastEntryOfTiled, SoundEntry
<1>2. SameEntry(last, shrunk)
  BY <1>1 DEF Entry, SameEntry
<1>3. new.name = name /\ new.inode = i /\ new.ftype = ft
  BY DEF Entry
<1>4. Add(es, name, i, ft) = (es \ {last}) \cup {shrunk, new}
  BY DEF Add
<1>. HIDE DEF last, shrunk, new
<1>5. \A e : SameEntry(e, e)
  BY DEF SameEntry
<1>. QED
  BY <1>1, <1>2, <1>3, <1>4, <1>5

-----------------------------------------------------------------------------
(* remove_dir_entry's target, in a block where names appear once.          *)
LEMMA TargetIsUnique ==
  ASSUME NEW I, NEW es, Sound(es, I), NEW e \in es, e.inode # 0
  PROVE  /\ Called(es, e.name) = {e}
         /\ FirstOf(Called(es, e.name)) = e
         /\ FirstOf(Matching(es, e.inode, e.name)) = e
<1>1. e.off \in Nat
  BY SoundEntry
<1>2. Called(es, e.name) = {e}
  BY DEF Called, Live, IsUnused, Sound
<1>3. Matching(es, e.inode, e.name) = {e}
  BY <1>2 DEF Matching
<1>4. FirstOf({e}) = e
  BY <1>1 DEF FirstOf
<1>. QED
  BY <1>2, <1>3, <1>4

(* What it leaves when the target is not the block's first entry: the      *)
(* entry before it, its rec_len grown by the target's.                     *)
LEMMA RemoveMerges ==
  ASSUME NEW I, NEW es, Sound(es, I), NEW t \in es, t.inode # 0, t.name # "."
  PROVE  \E p \in es :
           /\ p # t /\ p.off + p.recLen = t.off
           /\ Remove(es, t.inode, t.name) =
                (es \ {p, t}) \cup
                  {Entry(p.off, p.recLen + t.recLen, p.inode, p.name, p.ftype)}
<1>1. FirstOf(Matching(es, t.inode, t.name)) = t
  BY TargetIsUnique
<1>2. t.off # 0
  <2>1. PICK d \in es : d.off = 0 /\ d.name = "."
    BY DEF Sound
  <2>2. d # t
    BY <2>1
  <2>3. d.recLen >= 12 /\ d.off \in Nat /\ d.recLen \in Nat
        /\ t.recLen >= 12 /\ t.off \in Nat /\ t.recLen \in Nat
    BY SoundEntry
  <2>4. End(d) <= t.off \/ End(t) <= d.off
    BY <2>2 DEF Sound, Tiled, Disjoint
  <2>. QED
    BY <2>1, <2>3, <2>4 DEF End
<1>3. Predecessors(es, t) # {}
  BY <1>2 DEF Sound, Tiled, Covers
<1>. DEFINE p == CHOOSE p \in Predecessors(es, t) : TRUE
<1>4. p \in es /\ End(p) = t.off
  BY <1>3 DEF Predecessors
<1>5. p.recLen >= 12 /\ p.off \in Nat /\ p.recLen \in Nat
      /\ p = Entry(p.off, p.recLen, p.inode, p.name, p.ftype)
  BY <1>4, SoundEntry
<1>6. Remove(es, t.inode, t.name) =
        (es \ {p, t}) \cup {[p EXCEPT !.recLen = @ + t.recLen]}
  BY <1>1, <1>3 DEF Remove
<1>. HIDE DEF p
<1>7. [p EXCEPT !.recLen = @ + t.recLen] =
        Entry(p.off, p.recLen + t.recLen, p.inode, p.name, p.ftype)
  BY <1>5 DEF Entry
<1>8. p # t
  BY <1>4, <1>5 DEF End
<1>. QED
  BY <1>4, <1>6, <1>7, <1>8 DEF End

(* remove_dir_entry on a sound block leaves a sound block.                 *)
LEMMA RemoveSound ==
  ASSUME NEW I, NEW es, Sound(es, I), NEW t \in es, t.inode # 0, t.name # "."
  PROVE  Sound(Remove(es, t.inode, t.name), I)
<1>. DEFINE result == Remove(es, t.inode, t.name)
<1>1. BlockSize \in Nat
  BY BlockSizeBounds
<1>2. PICK p \in es :
         /\ p # t /\ p.off + p.recLen = t.off
         /\ result = (es \ {p, t}) \cup
              {Entry(p.off, p.recLen + t.recLen, p.inode, p.name, p.ftype)}
  BY RemoveMerges
<1>. DEFINE grown == Entry(p.off, p.recLen + t.recLen, p.inode, p.name, p.ftype)
<1>3. \A e \in es :
         /\ e.off \in Nat /\ e.recLen \in Nat
         /\ e.inode \in I /\ e.name \in AllNames /\ e.ftype \in FileTypes
         /\ e.off % 4 = 0 /\ e.recLen % 4 = 0
         /\ e.recLen >= ActualSize(e.name) /\ e.recLen >= 12
         /\ e.off + e.recLen <= BlockSize
  BY SoundEntry
<1>4. /\ grown.off = p.off /\ grown.recLen = p.recLen + t.recLen
      /\ grown.inode = p.inode /\ grown.name = p.name
      /\ grown.ftype = p.ftype
      /\ End(grown) = End(t)
  BY <1>2, <1>3 DEF Entry, End
<1>5. \A e \in result : e = grown \/ (e \in es /\ e # p /\ e # t)
  BY <1>2
<1>6. grown \in result /\ \A e \in es : e # p /\ e # t => e \in result
  BY <1>2
<1>7. ActualSize(p.name) \in Nat
  BY <1>3, ActualSizeBounds
<1>8. grown \in EntriesOver(I)
  BY <1>1, <1>2, <1>3 DEF Entry, EntriesOver
<1>. HIDE DEF result, grown
<1>9. result \subseteq EntriesOver(I)
  BY <1>5, <1>8 DEF Sound
<1>10. \A e \in result : WellFormed(e) /\ e.off % 4 = 0
  <2>1. WellFormed(grown) /\ grown.off % 4 = 0
    BY <1>1, <1>2, <1>3, <1>4, <1>7 DEF WellFormed, End
  <2>. QED
    BY <1>5, <2>1 DEF Sound, Tiled
<1>11. \A e \in es : e # p /\ e # t => End(e) <= p.off \/ End(t) <= e.off
  <2>. SUFFICES ASSUME NEW e \in es, e # p, e # t
       PROVE  End(e) <= p.off \/ End(t) <= e.off
    OBVIOUS
  <2>1. End(e) <= p.off \/ End(p) <= e.off
    BY DEF Sound, Tiled, Disjoint
  <2>2. End(e) <= t.off \/ End(t) <= e.off
    BY DEF Sound, Tiled, Disjoint
  <2>. QED
    BY <1>2, <1>3, <2>1, <2>2 DEF End
<1>12. Disjoint(result)
  BY <1>4, <1>5, <1>11 DEF Disjoint, Sound, Tiled
<1>13. Covers(result)
  <2>1. \E e \in result : e.off = 0
    <3>1. PICK e \in es : e.off = 0
      BY DEF Sound
    <3>2. e # t
      BY <1>2, <1>3, <3>1
    <3>. QED
      BY <1>4, <1>6, <3>1, <3>2
  <2>2. \E e \in result : End(e) = BlockSize
    <3>1. PICK e \in es : End(e) = BlockSize
      BY DEF Sound, Tiled, Covers
    <3>2. e # p
      BY <1>1, <1>2, <1>3, <3>1 DEF End
    <3>. QED
      BY <1>4, <1>6, <3>1, <3>2
  <2>3. ASSUME NEW e \in result, End(e) # BlockSize
        PROVE  \E f \in result : f.off = End(e)
    <3>1. PICK d \in es : End(d) = End(e) /\ d # p
      BY <1>2, <1>4, <1>5
    <3>2. PICK f \in es : f.off = End(e)
      BY <2>3, <3>1 DEF Sound, Tiled, Covers
    <3>3. f # t
      <4>1. CASE f = t
        <5>1. End(d) = End(p)
          BY <1>2, <3>1, <3>2, <4>1 DEF End
        <5>2. End(d) <= p.off \/ End(p) <= d.off
          BY <3>1 DEF Sound, Tiled, Disjoint
        <5>. QED
          BY <1>2, <1>3, <3>1, <5>1, <5>2 DEF End
      <4>. QED
        BY <4>1
    <3>. QED
      BY <1>4, <1>6, <3>2, <3>3
  <2>4. ASSUME NEW e \in result, e.off # 0
        PROVE  \E q \in result : End(q) = e.off
    <3>1. PICK d \in es : d.off = e.off /\ d # t
      BY <1>2, <1>4, <1>5
    <3>2. PICK q \in es : End(q) = e.off
      BY <2>4, <3>1 DEF Sound, Tiled, Covers, Predecessors
    <3>3. q # p
      <4>1. CASE q = p
        <5>1. d.off = t.off
          BY <1>2, <3>1, <3>2, <4>1 DEF End
        <5>2. End(d) <= t.off \/ End(t) <= d.off
          BY <3>1 DEF Sound, Tiled, Disjoint
        <5>. QED
          BY <1>3, <3>1, <5>1, <5>2 DEF End
      <4>. QED
        BY <4>1
    <3>. QED
      BY <1>4, <1>6, <3>2, <3>3
  <2>. QED
    BY <2>1, <2>2, <2>3, <2>4 DEF Covers, Predecessors
<1>14. \A e, f \in result : e.name = f.name => e = f
  BY <1>2, <1>4, <1>5 DEF Sound
<1>15. \E e \in result : e.off = 0 /\ e.name = "."
  <2>1. PICK e \in es : e.off = 0 /\ e.name = "."
    BY DEF Sound
  <2>. QED
    BY <1>4, <1>6, <2>1
<1>. QED
  BY <1>9, <1>10, <1>12, <1>13, <1>14, <1>15 DEF Sound, Tiled, result

(* remove_dir_entry keeps what every other entry says, and no entry of the *)
(* name is left.                                                           *)
LEMMA RemoveEffect ==
  ASSUME NEW I, NEW es, Sound(es, I), NEW t \in es, t.inode # 0, t.name # "."
  PROVE  /\ \A e \in es : e # t =>
              \E f \in Remove(es, t.inode, t.name) : SameEntry(e, f)
         /\ \A f \in Remove(es, t.inode, t.name) :
              f.name # t.name /\ \E e \in es : e # t /\ SameEntry(e, f)
<1>. DEFINE result == Remove(es, t.inode, t.name)
<1>1. PICK p \in es :
         /\ p # t
         /\ result = (es \ {p, t}) \cup
              {Entry(p.off, p.recLen + t.recLen, p.inode, p.name, p.ftype)}
  BY RemoveMerges
<1>. DEFINE grown == Entry(p.off, p.recLen + t.recLen, p.inode, p.name, p.ftype)
<1>2. SameEntry(p, grown)
  BY DEF SameEntry, Entry
<1>3. \A e : SameEntry(e, e)
  BY DEF SameEntry
<1>. HIDE DEF result, grown
<1>4. \A f \in result : \E e \in es : e # t /\ SameEntry(e, f)
  BY <1>1, <1>2, <1>3 DEF grown
<1>5. \A e \in es : e # t => \E f \in result : SameEntry(e, f)
  BY <1>1, <1>2, <1>3 DEF grown
<1>6. \A e \in es : e # t => e.name # t.name
  BY DEF Sound
<1>7. \A f \in result : f.name # t.name
  BY <1>4, <1>6 DEF SameEntry
<1>. QED
  BY <1>4, <1>5, <1>7 DEF result

-----------------------------------------------------------------------------
(* update_dotdot rewrites the inode of one entry and nothing else.         *)
LEMMA SetDotDotSound ==
  ASSUME NEW I, NEW es, Sound(es, I), NEW d \in es, d.name = "..", d.inode # 0,
         NEW parent \in I
  PROVE  /\ Sound(SetDotDot(es, parent), I)
         /\ SetDotDot(es, parent) =
              (es \ {d}) \cup {Entry(d.off, d.recLen, parent, d.name, d.ftype)}
<1>. DEFINE result == SetDotDot(es, parent)
            moved == Entry(d.off, d.recLen, parent, d.name, d.ftype)
<1>1. FirstOf(Called(es, "..")) = d
  BY TargetIsUnique
<1>2. d = Entry(d.off, d.recLen, d.inode, d.name, d.ftype)
  BY SoundEntry
<1>3. [d EXCEPT !.inode = parent] = moved
  BY <1>2 DEF Entry
<1>4. result = (es \ {d}) \cup {moved}
  BY <1>1, <1>3 DEF SetDotDot
<1>5. /\ moved.off = d.off /\ moved.recLen = d.recLen
      /\ moved.name = d.name /\ moved.inode = parent
      /\ End(moved) = End(d)
  BY DEF Entry, End
<1>6. moved \in EntriesOver(I)
  BY DEF Sound, EntriesOver, Entry
<1>. HIDE DEF result, moved
<1>7. \A e \in result : e = moved \/ (e \in es /\ e # d)
  BY <1>4
<1>8. moved \in result /\ \A e \in es : e # d => e \in result
  BY <1>4
<1>9. result \subseteq EntriesOver(I)
  BY <1>6, <1>7 DEF Sound
<1>10. \A e \in result : WellFormed(e) /\ e.off % 4 = 0
  BY <1>5, <1>7 DEF Sound, Tiled, WellFormed
<1>11. Disjoint(result)
  BY <1>5, <1>7 DEF Sound, Tiled, Disjoint
<1>12. Covers(result)
  <2>1. \A e \in es : \E f \in result : f.off = e.off /\ End(f) = End(e)
    BY <1>5, <1>8
  <2>2. \A f \in result : \E e \in es : f.off = e.off /\ End(f) = End(e)
    BY <1>5, <1>7
  <2>3. \A e \in result : End(e) # BlockSize => \E f \in result : f.off = End(e)
    BY <2>1, <2>2 DEF Sound, Tiled, Covers
  <2>4. \A e \in result : e.off # 0 => \E f \in result : End(f) = e.off
    BY <2>1, <2>2 DEF Sound, Tiled, Covers, Predecessors
  <2>5. (\E e \in result : e.off = 0) /\ \E e \in result : End(e) = BlockSize
    BY <2>1 DEF Sound, Tiled, Covers
  <2>. QED
    BY <2>3, <2>4, <2>5 DEF Covers, Predecessors
<1>13. \A e, f \in result : e.name = f.name => e = f
  BY <1>5, <1>7 DEF Sound
<1>14. \E e \in result : e.off = 0 /\ e.name = "."
  BY <1>5, <1>8 DEF Sound
<1>. QED
  BY <1>4, <1>9, <1>10, <1>11, <1>12, <1>13, <1>14 DEF Sound, Tiled, result, moved

(* The block mkdir writes.                                                 *)
LEMMA FreshSound ==
  ASSUME NEW I, NEW self \in I, NEW parent \in I
  PROVE  Sound(FreshBlock(self, parent), I)
<1>. DEFINE dot == Entry(0, 12, self, ".", FtDir)
            dotdot == Entry(12, BlockSize - 12, parent, "..", FtDir)
<1>1. BlockSize \in Nat /\ BlockSize >= 24 /\ BlockSize % 4 = 0
  BY BlockSizeBounds
<1>2. \A n \in Dots : ActualSize(n) = 12
  <2>1. \A n \in Dots : NameLen[n] \in 1 .. 255
    BY DirBlockAssumption DEF AllNames
  <2>2. \A n \in Dots : NameLen[n] <= 4
    BY DirBlockAssumption
  <2>3. \A k \in 1 .. 255 : k <= 4 => ((8 + k + 3) \div 4) * 4 = 12
    OBVIOUS
  <2>. QED
    BY <2>1, <2>2, <2>3 DEF ActualSize, Pad4
<1>3. FreshBlock(self, parent) = {dot, dotdot}
  BY DEF FreshBlock
<1>4. /\ dot.off = 0 /\ dot.recLen = 12 /\ dot.name = "."
      /\ dotdot.off = 12 /\ dotdot.recLen = BlockSize - 12
      /\ dotdot.name = ".."
  BY DEF Entry
<1>5. dot \in EntriesOver(I) /\ dotdot \in EntriesOver(I)
  BY <1>1 DEF Entry, EntriesOver, AllNames, Dots, FileTypes, FtDir
<1>6. WellFormed(dot) /\ WellFormed(dotdot) /\ dot.off % 4 = 0 /\ dotdot.off % 4 = 0
  BY <1>1, <1>2, <1>4 DEF WellFormed, End, Dots
<1>7. End(dot) = 12 /\ End(dotdot) = BlockSize
  BY <1>1, <1>4 DEF End
<1>. HIDE DEF dot, dotdot
<1>8. Covers({dot, dotdot}) /\ Disjoint({dot, dotdot})
  BY <1>1, <1>4, <1>7 DEF Covers, Disjoint, Predecessors
<1>. QED
  BY <1>3, <1>4, <1>5, <1>6, <1>8 DEF Sound, Tiled
=============================================================================
