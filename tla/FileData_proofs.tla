-------------------------- MODULE FileData_proofs --------------------------
(***************************************************************************)
(* For every set of files, payloads and sizes, every image, and every      *)
(* sound file of another writer: no two files, and no two extents of one,  *)
(* ever map one block, and what is mapped is allocated.                    *)
(***************************************************************************)
EXTENDS FileData, TLAPS

IInv == TypeOK /\ MappedOnce /\ 0 \in blockBitmap

LEMMA FileIsThere == \A rec : IsFile(rec) => rec # Absent
<1>. SUFFICES ASSUME NEW rec, IsFile(rec) PROVE rec \in FileType
  BY FileDataAssumption
<1>1. rec.extents \in [DOMAIN rec.extents -> ExtentType]
  BY DEF IsFile, IsLeaf
<1>2. DOMAIN rec.extents \in SUBSET (1 .. MaxEntries)
  BY DEF IsFile, IsLeaf
<1>. QED BY <1>1, <1>2 DEF IsFile, FileType

LEMMA CeilDivInt == \A a \in Int : CeilDiv(a, BlockSize) \in Int
  BY FileDataAssumption DEF CeilDiv

LEMMA ModBounds ==
  ASSUME NEW n \in Nat
  PROVE  n % LenModulus \in Nat /\ n % LenModulus <= n
  BY FileDataAssumption, Z3

(* What a cut leaves of an extent lies inside it, and outside what is freed. *)
LEMMA ShortenedInside ==
  ASSUME NEW ext \in ExtentType, NEW cut \in Int, Survives(ext, cut)
  PROVE  /\ Shortened(ext, cut) \in ExtentType
         /\ BlocksOfExtent(Shortened(ext, cut)) \subseteq
              BlocksOfExtent(ext) \ CutBlocks(ext, cut)
<1>1. CASE ext.log + ext.len <= cut
  <2>1. Shortened(ext, cut) = ext BY <1>1 DEF Shortened
  <2>2. \A b \in BlocksOfExtent(ext) : b \notin CutBlocks(ext, cut)
    BY <1>1 DEF CutBlocks, BlocksOfExtent, RunBits, ExtentType, Blocks
  <2>. QED BY <2>1, <2>2
<1>2. CASE ~ (ext.log + ext.len <= cut)
  <2>1. /\ Shortened(ext, cut) = [ext EXCEPT !.len = cut - ext.log]
        /\ ext.log < cut
    BY <1>2 DEF Shortened, Survives
  <2>2. cut - ext.log \in 0 .. InitMaxLen /\ cut - ext.log < ext.len
    BY <1>2, <2>1, FileDataAssumption DEF ExtentType, InitMaxLen
  <2>3. Shortened(ext, cut) \in ExtentType
    BY <2>1, <2>2 DEF ExtentType
  <2>4. ASSUME NEW b \in BlocksOfExtent(Shortened(ext, cut))
        PROVE  b \in BlocksOfExtent(ext) \ CutBlocks(ext, cut)
    <3>1. b \in ext.phys .. (ext.phys + (cut - ext.log) - 1)
      BY <2>1, <2>4 DEF BlocksOfExtent, RunBits, ExtentType
    <3>2. b \in BlocksOfExtent(ext)
      BY <2>2, <3>1, FileDataAssumption, SMTT(30) DEF BlocksOfExtent, RunBits, ExtentType, Blocks
    <3>3. b \notin CutBlocks(ext, cut)
      BY <2>2, <3>1, FileDataAssumption DEF CutBlocks, ExtentType, Blocks
    <3>. QED BY <3>2, <3>3
  <2>. QED BY <2>3, <2>4
<1>. QED BY <1>1, <1>2

LEMMA InitIInv == FileInit => IInv
<1>. SUFFICES ASSUME FileInit PROVE IInv
  OBVIOUS
<1>1. CASE /\ files = [f \in Files |-> Absent]
           /\ blockBitmap = {0}
           /\ bytes = [b \in Blocks |-> ZeroBlock]
  BY <1>1, FileDataAssumption
     DEF FileInit, IInv, TypeOK, MappedOnce, ExtentsOf, Blocks, ZeroBlock
<1>2. ASSUME NEW f \in Files, NEW rec \in ForeignFiles,
             files = [g \in Files |-> IF g = f THEN rec ELSE Absent],
             blockBitmap = {0} \cup
               UNION {BlocksOfExtent(rec.extents[k]) : k \in DOMAIN rec.extents},
             bytes = [b \in Blocks |-> ForeignBlock(b)]
      PROVE IInv
  <2>1. IsFile(rec) BY ForeignAssumption
  <2>2. TypeOK
    <3>1. blockBitmap \subseteq Blocks
      BY <1>2, ForeignAssumption, FileDataAssumption DEF Blocks
    <3>2. /\ files = [g \in Files |-> files[g]]
          /\ \A g \in Files : files[g] # Absent => IsFile(files[g])
      BY <1>2, <2>1, Zenon
    <3>3. ASSUME NEW b \in Blocks PROVE ForeignBlock(b) \in [1 .. BlockSize -> Nat]
      <4>1. b \in Nat /\ BlockSize \in Nat BY FileDataAssumption DEF Blocks
      <4>2. b * BlockSize \in Nat BY <4>1
      <4>. QED BY <4>1, <4>2 DEF ForeignBlock
    <3>4. bytes \in [Blocks -> [1 .. BlockSize -> Nat]]
      BY <1>2, <3>3
    <3>5. outcome \in {"ok", "refused", "nospace"}
      BY DEF FileInit
    <3>. QED BY <3>1, <3>2, <3>4, <3>5, Zenon DEF TypeOK
  <2>3. \A g \in Files : ExtentsOf(g) \subseteq {rec.extents[k] : k \in DOMAIN rec.extents}
    BY <1>2 DEF ExtentsOf
  <2>4. \A g \in Files : g # f => ExtentsOf(g) = {}
    BY <1>2 DEF ExtentsOf
  <2>5. MappedOnce
    BY <1>2, <2>3, <2>4, ForeignAssumption DEF MappedOnce
  <2>. QED BY <1>2, <2>2, <2>5 DEF IInv
<1>. QED BY <1>1, <1>2 DEF FileInit

-----------------------------------------------------------------------------
LEMMA CreateIInv ==
  ASSUME IInv, NEW f \in Files, NEW data \in Payloads, CreateFile(f, data)
  PROVE  IInv'
<1>. DEFINE n == CeilDiv(Len(data), BlockSize)
<1>1. n \in Int
  BY CeilDivInt, FileDataAssumption
<1>. HIDE DEF n
<1>2. CASE Refuse
  BY <1>2 DEF IInv, TypeOK, MappedOnce, ExtentsOf, Refuse
<1>3. CASE CreateNoRoom(n)
  BY <1>3 DEF IInv, TypeOK, MappedOnce, ExtentsOf, CreateNoRoom
<1>4. CASE CreateUnencodable(n)
  <2>1. PICK s \in Blocks :
          /\ IsFirstFreeRun(blockBitmap, s, n, NumBlocks)
          /\ blockBitmap' = blockBitmap \cup RunBits(s, n)
    BY <1>4 DEF CreateUnencodable
  <2>2. RunBits(s, n) \subseteq Blocks
    BY <1>1, <2>1, FileDataAssumption DEF IsFirstFreeRun, IsFreeRun, RunBits, Blocks
  <2>3. UNCHANGED <<files, bytes>> /\ outcome' = "refused"
    BY <1>4 DEF CreateUnencodable
  <2>4. TypeOK'
    BY <2>1, <2>2, <2>3 DEF IInv, TypeOK
  <2>5. MappedOnce'
    BY <2>1, <2>3 DEF IInv, MappedOnce, ExtentsOf
  <2>. QED BY <2>1, <2>4, <2>5 DEF IInv
<1>5. CASE CreateEmpty(f, data) /\ files[f] = Absent
  <2>. DEFINE rec == [size |-> 0, extents |-> <<>>]
  <2>1. IsFile(rec)
    BY DEF IsFile, IsLeaf
  <2>2. /\ files' = [files EXCEPT ![f] = rec]
        /\ UNCHANGED <<blockBitmap, bytes>> /\ outcome' = "ok"
    BY <1>5 DEF CreateEmpty
  <2>3. \A g \in Files : files'[g] = IF g = f THEN rec ELSE files[g]
    BY <2>2 DEF IInv, TypeOK
  <2>4. TypeOK'
    BY <2>1, <2>2, <2>3 DEF IInv, TypeOK
  <2>5. \A g \in Files : ExtentsOf(g)' \subseteq ExtentsOf(g)
    BY <2>3 DEF ExtentsOf
  <2>6. MappedOnce'
    BY <2>2, <2>5 DEF IInv, MappedOnce
  <2>. QED BY <2>2, <2>4, <2>6 DEF IInv
<1>6. CASE CreateFull(f, data, n) /\ files[f] = Absent
  <2>1. PICK s \in Blocks :
          /\ IsFirstFreeRun(blockBitmap, s, n, NumBlocks)
          /\ blockBitmap' = blockBitmap \cup RunBits(s, n)
          /\ bytes' = Filled(data, s, n)
          /\ files' = [files EXCEPT ![f] =
               [size |-> Len(data), extents |-> <<Extent(0, n % LenModulus, s, FALSE)>>]]
    BY <1>6 DEF CreateFull
  <2>. DEFINE e == Extent(0, n % LenModulus, s, FALSE)
              rec == [size |-> Len(data), extents |-> <<e>>]
  <2>2. n \in Nat /\ n % LenModulus \in Nat /\ n % LenModulus <= n
    BY <1>1, <1>6, ModBounds DEF CreateFull
  <2>3. e \in ExtentType
    BY <1>6, <2>1, <2>2, FileDataAssumption
       DEF CreateFull, Encodable, Extent, ExtentType, InitMaxLen
  <2>4. BlocksOfExtent(e) \subseteq RunBits(s, n)
    BY <2>1, <2>2 DEF BlocksOfExtent, RunBits, Extent, Blocks
  <2>5. /\ RunBits(s, n) \subseteq Blocks
        /\ RunBits(s, n) \cap blockBitmap = {}
    BY <2>1, <2>2, FileDataAssumption DEF IsFirstFreeRun, IsFreeRun, RunBits, Blocks
  <2>6. IsFile(rec)
    <3>1. Len(data) \in Nat BY FileDataAssumption
    <3>. HIDE DEF e
    <3>2. /\ DOMAIN <<e>> \subseteq 1 .. MaxEntries
          /\ <<e>> = [k \in DOMAIN <<e>> |-> <<e>>[k]]
          /\ \A k \in DOMAIN <<e>> : <<e>>[k] = e
      BY DEF MaxEntries
    <3>3. IsLeaf(<<e>>)
      BY <2>3, <3>2 DEF IsLeaf
    <3>. QED BY <3>1, <3>3 DEF IsFile
  <2>7. \A g \in Files : files'[g] = IF g = f THEN rec ELSE files[g]
    BY <2>1 DEF IInv, TypeOK
  <2>8. bytes' \in [Blocks -> [1 .. BlockSize -> Nat]]
    <3>1. ASSUME NEW b \in Blocks, NEW i \in 1 .. BlockSize,
                 (b - s) * BlockSize + i <= Len(data), b \in RunBits(s, n)
          PROVE  data[(b - s) * BlockSize + i] \in Nat
      <4>1. b - s \in Nat /\ BlockSize \in Nat /\ i \in Nat \ {0}
        BY <3>1, <2>1, <2>2, FileDataAssumption DEF RunBits, Blocks
      <4>2. (b - s) * BlockSize \in Nat
        BY <4>1
      <4>3. (b - s) * BlockSize + i \in 1 .. Len(data)
        BY <3>1, <4>1, <4>2, FileDataAssumption
      <4>. QED BY <4>3, FileDataAssumption
    <3>2. ASSUME NEW b \in Blocks
          PROVE  Filled(data, s, n)[b] \in [1 .. BlockSize -> Nat]
      BY <3>1 DEF Filled, IInv, TypeOK
    <3>. QED BY <2>1, <3>2 DEF Filled
  <2>9. TypeOK'
    BY <1>6, <2>1, <2>5, <2>6, <2>7, <2>8 DEF IInv, TypeOK, CreateFull
  <2>10. ASSUME NEW g \in Files, NEW x, x \in ExtentsOf(g)'
         PROVE  \/ g = f /\ x = e
                \/ g # f /\ x \in ExtentsOf(g)
    <3>1. ASSUME NEW k \in DOMAIN rec.extents PROVE rec.extents[k] = e
      <4>. HIDE DEF e
      <4>. QED OBVIOUS
    <3>. HIDE DEF rec, e
    <3>2. \A y \in ExtentsOf(f)' : y = e
      <4>1. files'[f] = rec BY <2>7
      <4>2. ExtentsOf(f)' \subseteq {rec.extents[k] : k \in DOMAIN rec.extents}
        BY <4>1 DEF ExtentsOf
      <4>. QED BY <3>1, <4>2
    <3>3. g # f => ExtentsOf(g)' = ExtentsOf(g)
      BY <2>7 DEF ExtentsOf
    <3>4. CASE g = f BY <2>10, <3>2, <3>4
    <3>5. CASE g # f BY <2>10, <3>3, <3>5
    <3>. QED BY <3>4, <3>5
  <2>11. 0 \notin BlocksOfExtent(e)
    BY <2>4, <2>5 DEF IInv
  <2>. HIDE DEF e
  <2>12. MappedOnce'
    <3>. SUFFICES ASSUME NEW g1 \in Files, NEW e1 \in ExtentsOf(g1)',
                         NEW g2 \in Files, NEW e2 \in ExtentsOf(g2)'
                  PROVE  /\ BlocksOfExtent(e1) \subseteq blockBitmap' \ {0}
                         /\ <<g1, e1>> # <<g2, e2>> =>
                              BlocksOfExtent(e1) \cap BlocksOfExtent(e2) = {}
      BY DEF MappedOnce
    <3>1. (g1 = f /\ e1 = e) \/ (g1 # f /\ e1 \in ExtentsOf(g1))
      BY <2>10
    <3>2. (g2 = f /\ e2 = e) \/ (g2 # f /\ e2 \in ExtentsOf(g2))
      BY <2>10
    <3>. QED BY <2>1, <2>4, <2>5, <2>11, <3>1, <3>2 DEF IInv, MappedOnce
  <2>. QED BY <2>1, <2>9, <2>12 DEF IInv
<1>. QED BY <1>2, <1>3, <1>4, <1>5, <1>6 DEF CreateFile, n

(* A call that replaces one file's record by one whose extents lie inside  *)
(* the old ones, and frees only blocks outside them, keeps the mapping.    *)
LEMMA LessMapped ==
  ASSUME MappedOnce, TypeOK, 0 \in blockBitmap, NEW f \in Files, NEW freed,
         blockBitmap' = blockBitmap \ freed,
         freed \subseteq UNION {BlocksOfExtent(ext) : ext \in ExtentsOf(f)},
         \A g \in Files : g # f => ExtentsOf(g)' = ExtentsOf(g),
         \A x \in ExtentsOf(f)' :
           \E ext \in ExtentsOf(f) :
             /\ BlocksOfExtent(x) \subseteq BlocksOfExtent(ext) \ freed
             /\ \A y \in ExtentsOf(f)' :
                  x # y => BlocksOfExtent(x) \cap BlocksOfExtent(y) = {}
  PROVE  MappedOnce' /\ 0 \in blockBitmap'
<1>1. \A b \in freed : \E ext \in ExtentsOf(f) : b \in BlocksOfExtent(ext)
  OBVIOUS
<1>2. 0 \notin freed
  BY <1>1 DEF MappedOnce
<1>3. ASSUME NEW g \in Files, g # f, NEW x \in ExtentsOf(g)
      PROVE  BlocksOfExtent(x) \cap freed = {}
  <2>1. \A ext \in ExtentsOf(f) : BlocksOfExtent(x) \cap BlocksOfExtent(ext) = {}
    BY <1>3 DEF MappedOnce
  <2>. QED BY <1>1, <2>1
<1>4. ASSUME NEW g \in Files, NEW x \in ExtentsOf(g)'
      PROVE  \E ext \in ExtentsOf(g) :
               BlocksOfExtent(x) \subseteq BlocksOfExtent(ext) \ freed
  <2>1. CASE g = f BY <2>1, <1>4
  <2>2. CASE g # f BY <2>2, <1>3, <1>4
  <2>. QED BY <2>1, <2>2
<1>5. ASSUME NEW g \in Files, NEW x \in ExtentsOf(g)',
             NEW h \in Files, NEW y \in ExtentsOf(h)', <<g, x>> # <<h, y>>
      PROVE  BlocksOfExtent(x) \cap BlocksOfExtent(y) = {}
  <2>1. CASE g = h /\ g = f BY <2>1, <1>5
  <2>2. CASE g = h /\ g # f BY <2>2, <1>5 DEF MappedOnce
  <2>3. CASE g # h
    <3>1. PICK ext \in ExtentsOf(g) :
            BlocksOfExtent(x) \subseteq BlocksOfExtent(ext) \ freed
      BY <1>4, <1>5
    <3>2. PICK other \in ExtentsOf(h) :
            BlocksOfExtent(y) \subseteq BlocksOfExtent(other) \ freed
      BY <1>4, <1>5
    <3>3. BlocksOfExtent(ext) \cap BlocksOfExtent(other) = {}
      BY <2>3 DEF MappedOnce
    <3>. QED BY <3>1, <3>2, <3>3
  <2>. QED BY <2>1, <2>2, <2>3
<1>6. ASSUME NEW g \in Files, NEW x \in ExtentsOf(g)'
      PROVE  BlocksOfExtent(x) \subseteq blockBitmap' \ {0}
  BY <1>4, <1>6 DEF MappedOnce
<1>7. MappedOnce'
  BY <1>5, <1>6 DEF MappedOnce
<1>. QED BY <1>2, <1>7

LEMMA UnlinkIInv ==
  ASSUME IInv, NEW f \in Files, Unlink(f)
  PROVE  IInv'
<1>1. CASE files[f] = Absent
  BY <1>1 DEF IInv, TypeOK, MappedOnce, ExtentsOf, Refuse, Unlink
<1>2. CASE files[f] # Absent
  <2>1. /\ blockBitmap' = blockBitmap \ Owned(files[f])
        /\ files' = [files EXCEPT ![f] = Absent]
        /\ outcome' = "ok" /\ UNCHANGED bytes
    BY <1>2 DEF Unlink
  <2>2. \A g \in Files : files'[g] = IF g = f THEN Absent ELSE files[g]
    BY <2>1 DEF IInv, TypeOK
  <2>3. TypeOK'
    BY <2>1, <2>2 DEF IInv, TypeOK
  <2>4. Owned(files[f]) \subseteq UNION {BlocksOfExtent(ext) : ext \in ExtentsOf(f)}
    <3>1. \A k \in DOMAIN files[f].extents : files[f].extents[k] \in ExtentsOf(f)
      BY <1>2 DEF ExtentsOf
    <3>. QED BY <3>1 DEF Owned
  <2>5. ExtentsOf(f)' = {} /\ \A g \in Files : g # f => ExtentsOf(g)' = ExtentsOf(g)
    BY <2>2 DEF ExtentsOf
  <2>6. MappedOnce' /\ 0 \in blockBitmap'
    BY <2>1, <2>4, <2>5, LessMapped DEF IInv
  <2>. QED BY <2>3, <2>6 DEF IInv
<1>. QED BY <1>1, <1>2

LEMMA GrowIInv ==
  ASSUME IInv, NEW f \in Files, NEW n \in NewSizes, files[f] # Absent, Grow(f, n)
  PROVE  IInv'
<1>1. CASE Refuse
  BY <1>1 DEF IInv, TypeOK, MappedOnce, ExtentsOf, Refuse
<1>2. CASE ~ (n > Capacity(files[f]))
  <2>1. /\ files' = [files EXCEPT ![f].size = n]
        /\ UNCHANGED <<blockBitmap, bytes>> /\ outcome' = "ok"
    BY <1>2 DEF Grow
  <2>2. IsFile(files[f])
    BY DEF IInv, TypeOK
  <2>. DEFINE rec == [files[f] EXCEPT !.size = n]
  <2>3. rec = [size |-> n, extents |-> files[f].extents]
    BY <2>2 DEF IsFile
  <2>4. IsFile(rec)
    BY <2>2, <2>3, FileDataAssumption DEF IsFile
  <2>5. rec.extents = files[f].extents
    BY <2>3
  <2>6. \A g \in Files : files'[g] = IF g = f THEN rec ELSE files[g]
    BY <2>1 DEF IInv, TypeOK
  <2>7. files' = [g \in Files |-> files'[g]]
    BY <2>1 DEF IInv, TypeOK
  <2>. HIDE DEF rec
  <2>8. TypeOK'
    BY <2>1, <2>4, <2>6, <2>7 DEF IInv, TypeOK
  <2>9. \A g \in Files : ExtentsOf(g)' \subseteq ExtentsOf(g)
    BY <2>5, <2>6 DEF ExtentsOf
  <2>10. MappedOnce'
    BY <2>1, <2>9 DEF IInv, MappedOnce
  <2>. QED BY <2>1, <2>8, <2>10 DEF IInv
<1>. QED BY <1>1, <1>2 DEF Grow

LEMMA ShrinkIInv ==
  ASSUME IInv, NEW f \in Files, NEW n \in NewSizes, files[f] # Absent, Shrink(f, n)
  PROVE  IInv'
<1>. DEFINE cut == Cutoff(n)
            old == files[f].extents
            rec == [size |-> n, extents |-> Surviving(old, cut)]
            freed == UNION {CutBlocks(ext, cut) : ext \in ExtentsOf(f)}
<1>1. cut \in Int
  BY CeilDivInt, FileDataAssumption DEF Cutoff
<1>2. IsFile(files[f]) /\ IsLeaf(old)
  BY DEF IInv, TypeOK, IsFile
<1>3. /\ blockBitmap' = blockBitmap \ freed
      /\ files' = [files EXCEPT ![f] = rec]
      /\ outcome' = "ok" /\ UNCHANGED bytes
  BY DEF Shrink, IInv, TypeOK
<1>. HIDE DEF cut
<1>4. IsLeaf(Surviving(old, cut))
  <2>1. \A k \in DOMAIN old : old[k] \in ExtentType
    BY <1>2 DEF IsLeaf
  <2>2. \A k \in DOMAIN Surviving(old, cut) :
          /\ k \in DOMAIN old /\ Survives(old[k], cut)
          /\ Surviving(old, cut)[k] = Shortened(old[k], cut)
    BY DEF Surviving
  <2>3. \A k \in DOMAIN Surviving(old, cut) : Surviving(old, cut)[k] \in ExtentType
    BY <1>1, <2>1, <2>2, ShortenedInside
  <2>4. Surviving(old, cut) = [k \in DOMAIN Surviving(old, cut) |-> Surviving(old, cut)[k]]
    BY DEF Surviving
  <2>. QED BY <1>2, <2>2, <2>3, <2>4 DEF IsLeaf
<1>5. IsFile(rec)
  BY <1>4, FileDataAssumption DEF IsFile
<1>6. \A g \in Files : files'[g] = IF g = f THEN rec ELSE files[g]
  BY <1>3 DEF IInv, TypeOK
<1>7. files' = [g \in Files |-> files'[g]]
  BY <1>3 DEF IInv, TypeOK
<1>8. rec.extents = Surviving(old, cut)
  OBVIOUS
<1>. HIDE DEF rec
<1>9. TypeOK'
  BY <1>3, <1>5, <1>6, <1>7 DEF IInv, TypeOK
<1>10. \A g \in Files : g # f => ExtentsOf(g)' = ExtentsOf(g)
  BY <1>6 DEF ExtentsOf
<1>11. ASSUME NEW x \in ExtentsOf(f)'
       PROVE  \E ext \in ExtentsOf(f) : Survives(ext, cut) /\ x = Shortened(ext, cut)
  <2>1. files'[f] = rec
    BY <1>6
  <2>2. PICK k \in DOMAIN Surviving(old, cut) : x = Surviving(old, cut)[k]
    BY <1>8, <1>11, <2>1 DEF ExtentsOf
  <2>3. k \in DOMAIN old /\ Survives(old[k], cut) /\ x = Shortened(old[k], cut)
    BY <2>2 DEF Surviving
  <2>4. old[k] \in ExtentsOf(f)
    BY <2>3 DEF ExtentsOf
  <2>. QED BY <2>3, <2>4
<1>12. \A ext \in ExtentsOf(f) :
         /\ ext \in ExtentType
         /\ CutBlocks(ext, cut) \subseteq BlocksOfExtent(ext)
  BY <1>2 DEF ExtentsOf, IsLeaf, CutBlocks
<1>13. ASSUME NEW ext \in ExtentsOf(f), Survives(ext, cut)
       PROVE  BlocksOfExtent(Shortened(ext, cut)) \subseteq BlocksOfExtent(ext) \ freed
  <2>1. BlocksOfExtent(Shortened(ext, cut)) \subseteq
          BlocksOfExtent(ext) \ CutBlocks(ext, cut)
    BY <1>1, <1>12, <1>13, ShortenedInside
  <2>2. ASSUME NEW other \in ExtentsOf(f), other # ext
        PROVE  BlocksOfExtent(ext) \cap CutBlocks(other, cut) = {}
    BY <1>12, <2>2 DEF IInv, MappedOnce
  <2>. QED BY <2>1, <2>2
<1>. HIDE DEF freed, old
<1>14. ASSUME NEW x \in ExtentsOf(f)'
       PROVE  \E ext \in ExtentsOf(f) :
                /\ BlocksOfExtent(x) \subseteq BlocksOfExtent(ext) \ freed
                /\ \A y \in ExtentsOf(f)' :
                     x # y => BlocksOfExtent(x) \cap BlocksOfExtent(y) = {}
  <2>1. PICK ext \in ExtentsOf(f) : Survives(ext, cut) /\ x = Shortened(ext, cut)
    BY <1>11
  <2>2. ASSUME NEW y \in ExtentsOf(f)', x # y
        PROVE  BlocksOfExtent(x) \cap BlocksOfExtent(y) = {}
    <3>1. PICK other \in ExtentsOf(f) : Survives(other, cut) /\ y = Shortened(other, cut)
      BY <1>11
    <3>2. BlocksOfExtent(ext) \cap BlocksOfExtent(other) = {}
      BY <2>1, <2>2, <3>1 DEF IInv, MappedOnce
    <3>. QED BY <1>13, <2>1, <3>1, <3>2
  <2>. QED BY <1>13, <2>1, <2>2
<1>15. freed \subseteq UNION {BlocksOfExtent(ext) : ext \in ExtentsOf(f)}
  BY <1>12 DEF freed
<1>16. MappedOnce' /\ 0 \in blockBitmap'
  BY <1>3, <1>10, <1>14, <1>15, LessMapped DEF IInv
<1>. QED BY <1>9, <1>16 DEF IInv

LEMMA StepIInv == IInv /\ [FileNext]_fileVars => IInv'
<1>. SUFFICES ASSUME IInv, [FileNext]_fileVars PROVE IInv'
  OBVIOUS
<1>1. CASE UNCHANGED fileVars
  BY <1>1 DEF IInv, TypeOK, MappedOnce, ExtentsOf, fileVars
<1>2. ASSUME NEW f \in Files, NEW data \in Payloads, CreateFile(f, data) PROVE IInv'
  BY <1>2, CreateIInv
<1>3. ASSUME NEW f \in Files, Unlink(f) PROVE IInv'
  BY <1>3, UnlinkIInv
<1>4. ASSUME NEW f \in Files, NEW n \in NewSizes, Truncate(f, n) PROVE IInv'
  <2>1. CASE Refuse
    BY <2>1 DEF IInv, TypeOK, MappedOnce, ExtentsOf, Refuse
  <2>2. CASE outcome' = "ok" /\ UNCHANGED <<blockBitmap, files, bytes>>
    BY <2>2 DEF IInv, TypeOK, MappedOnce, ExtentsOf
  <2>3. CASE files[f] # Absent /\ Grow(f, n)
    BY <2>3, GrowIInv
  <2>4. CASE files[f] # Absent /\ Shrink(f, n)
    BY <2>4, ShrinkIInv
  <2>. QED BY <1>4, <2>1, <2>2, <2>3, <2>4 DEF Truncate
<1>. QED BY <1>1, <1>2, <1>3, <1>4 DEF FileNext

(* Files stay well formed: at most four extents, no length beyond what an  *)
(* extent can carry, every block inside the image.                         *)
THEOREM FilesTyped == FileSpec => []TypeOK
<1>1. IInv => TypeOK BY DEF IInv
<1>. QED BY InitIInv, StepIInv, <1>1, PTL DEF FileSpec

(* truncate, unlink and create_file never let two mappings share a block,  *)
(* nor leave a mapped block free for the next allocation.                  *)
THEOREM BlocksMappedOnce == FileSpec => []MappedOnce
<1>1. IInv => MappedOnce BY DEF IInv
<1>. QED BY InitIInv, StepIInv, <1>1, PTL DEF FileSpec

-----------------------------------------------------------------------------
(* What a leaf says of a logical block: the covering extent in the lowest  *)
(* slot decides.                                                           *)
LEMMA FirstHit ==
  ASSUME NEW hits \in SUBSET (1 .. MaxEntries), hits # {}
  PROVE  \E j \in hits : \A i \in hits : j <= i
<1>1. CASE 1 \in hits BY <1>1 DEF MaxEntries
<1>2. CASE 1 \notin hits /\ 2 \in hits BY <1>2 DEF MaxEntries
<1>3. CASE 1 \notin hits /\ 2 \notin hits /\ 3 \in hits BY <1>3 DEF MaxEntries
<1>4. CASE hits = {4} BY <1>4
<1>5. hits \subseteq {1, 2, 3, 4} BY DEF MaxEntries
<1>. QED BY <1>1, <1>2, <1>3, <1>4, <1>5

Decides(extents, k, j) ==
  /\ j \in DOMAIN extents /\ Covers(extents[j], k)
  /\ \A i \in DOMAIN extents : Covers(extents[i], k) => j <= i

LEMMA ResolveDecided ==
  ASSUME NEW extents, IsLeaf(extents), NEW k, NEW j, Decides(extents, k, j)
  PROVE  Resolve(extents, k) = Place(extents[j], k)
<1>. DEFINE hits == {i \in DOMAIN extents : Covers(extents[i], k)}
<1>1. j \in hits /\ \A i \in hits : j <= i
  BY DEF Decides
<1>2. \A i \in hits : i \in Int
  BY DEF IsLeaf, MaxEntries
<1>. HIDE DEF hits
<1>3. \A m \in hits : (\A i \in hits : m <= i) => m = j
  BY <1>1, <1>2
<1>4. (CHOOSE m \in hits : \A i \in hits : m <= i) = j
  BY <1>1, <1>3
<1>5. hits # {}
  BY <1>1
<1>. QED BY <1>4, <1>5, Zenon DEF Resolve, hits

LEMMA ResolveCases ==
  ASSUME NEW extents, IsLeaf(extents), NEW k
  PROVE  \/ /\ \A j \in DOMAIN extents : ~ Covers(extents[j], k)
            /\ Resolve(extents, k) = Hole
         \/ \E j \in DOMAIN extents : Decides(extents, k, j)
<1>. DEFINE hits == {i \in DOMAIN extents : Covers(extents[i], k)}
<1>1. CASE hits = {}
  BY <1>1, Zenon DEF Resolve
<1>2. CASE hits # {}
  <2>1. hits \in SUBSET (1 .. MaxEntries) BY DEF IsLeaf
  <2>. HIDE DEF hits
  <2>2. PICK j \in hits : \A i \in hits : j <= i
    BY <1>2, <2>1, FirstHit
  <2>. QED BY <2>2 DEF Decides, hits
<1>. QED BY <1>1, <1>2

(* A leaf sends a reader to a hole or to a block of one of its extents.    *)
LEMMA ResolveInside ==
  ASSUME NEW extents, IsLeaf(extents), NEW k \in Int
  PROVE  \/ Resolve(extents, k) = Hole
         \/ \E j \in DOMAIN extents :
              /\ Resolve(extents, k) \in BlocksOfExtent(extents[j])
              /\ BlocksOfExtent(extents[j]) \subseteq Int
<1>. SUFFICES ASSUME NEW j \in DOMAIN extents, Decides(extents, k, j)
     PROVE  \/ Resolve(extents, k) = Hole
            \/ /\ Resolve(extents, k) \in BlocksOfExtent(extents[j])
               /\ BlocksOfExtent(extents[j]) \subseteq Int
  BY ResolveCases
<1>1. Resolve(extents, k) = Place(extents[j], k)
  BY ResolveDecided
<1>2. extents[j] \in ExtentType
  BY DEF IsLeaf
<1>3. Covers(extents[j], k)
  BY DEF Decides
<1>. QED BY <1>1, <1>2, <1>3, FileDataAssumption
         DEF Place, Covers, ExtentType, BlocksOfExtent, RunBits, InitMaxLen, Blocks

-----------------------------------------------------------------------------
(* Reading a file.                                                         *)
LEMMA PositionSplit ==
  ASSUME NEW pos \in Nat \ {0}
  PROVE  /\ (pos - 1) \div BlockSize \in Nat
         /\ (pos - 1) % BlockSize \in 0 .. (BlockSize - 1)
         /\ ((pos - 1) \div BlockSize) * BlockSize + ((pos - 1) % BlockSize) = pos - 1
  BY FileDataAssumption, Z3

(* The blocks that reading a leaf touches. *)
Reads(extents) == UNION {BlocksOfExtent(extents[j]) : j \in DOMAIN extents}

LEMMA ReadsResolve ==
  ASSUME NEW extents, IsLeaf(extents), NEW k \in Int
  PROVE  Resolve(extents, k) = Hole \/ Resolve(extents, k) \in Reads(extents)
  BY ResolveInside DEF Reads

LEMMA ByteIsNat ==
  ASSUME TypeOK, NEW extents, IsLeaf(extents), Reads(extents) \subseteq Blocks,
         NEW pos \in Nat \ {0}
  PROVE  ByteAt(extents, pos) \in Nat
<1>. DEFINE block == Resolve(extents, (pos - 1) \div BlockSize)
<1>1. block = Hole \/ block \in Blocks
  BY PositionSplit, ReadsResolve
<1>2. ((pos - 1) % BlockSize) + 1 \in 1 .. BlockSize
  BY PositionSplit, FileDataAssumption
<1>. HIDE DEF block
<1>3. block \in Blocks => bytes[block][((pos - 1) % BlockSize) + 1] \in Nat
  BY <1>2 DEF TypeOK
<1>. QED BY <1>1, <1>3 DEF ByteAt, block

LEMMA ReadIsSeq ==
  ASSUME TypeOK, NEW rec, IsFile(rec), Reads(rec.extents) \subseteq Blocks
  PROVE  /\ ReadFile(rec) \in Seq(Nat)
         /\ Len(ReadFile(rec)) = rec.size
         /\ \A pos \in 1 .. rec.size : ReadFile(rec)[pos] = ByteAt(rec.extents, pos)
<1>1. rec.size \in Nat /\ IsLeaf(rec.extents)
  BY DEF IsFile
<1>2. \A pos \in 1 .. rec.size : ByteAt(rec.extents, pos) \in Nat
  BY <1>1, ByteIsNat
<1>3. ReadFile(rec) \in [1 .. rec.size -> Nat]
  BY <1>2 DEF ReadFile
<1>. QED BY <1>1, <1>3 DEF ReadFile

(* Bytes that a step leaves in the blocks of a leaf are read as before. *)
LEMMA SameBytes ==
  ASSUME NEW extents, IsLeaf(extents), NEW pos \in Nat \ {0},
         \A b \in Reads(extents) : bytes'[b] = bytes[b]
  PROVE  ByteAt(extents, pos)' = ByteAt(extents, pos)
<1>1. LET block == Resolve(extents, (pos - 1) \div BlockSize)
      IN  block = Hole \/ block \in Reads(extents)
  BY PositionSplit, ReadsResolve
<1>. QED BY <1>1 DEF ByteAt

LEMMA FileReads ==
  ASSUME IInv, NEW f \in Files, files[f] # Absent
  PROVE  /\ IsFile(files[f]) /\ IsLeaf(files[f].extents)
         /\ Reads(files[f].extents) \subseteq blockBitmap \ {0}
         /\ Reads(files[f].extents) \subseteq Blocks
         /\ contents[f] = ReadFile(files[f])
<1>1. IsFile(files[f]) /\ IsLeaf(files[f].extents)
  BY DEF IInv, TypeOK, IsFile
<1>2. \A j \in DOMAIN files[f].extents : files[f].extents[j] \in ExtentsOf(f)
  BY DEF ExtentsOf
<1>3. Reads(files[f].extents) \subseteq blockBitmap \ {0}
  BY <1>2 DEF Reads, IInv, MappedOnce
<1>4. blockBitmap \subseteq Blocks
  BY DEF IInv, TypeOK
<1>5. contents[f] = ReadFile(files[f])
  BY DEF contents
<1>. QED BY <1>1, <1>3, <1>4, <1>5

LEMMA ContentsTyped ==
  ASSUME IInv, NEW f \in Files
  PROVE  /\ files[f] = Absent => contents[f] = Absent
         /\ files[f] # Absent => /\ contents[f] \in Seq(Nat)
                                 /\ contents[f] # Absent
                                 /\ Len(contents[f]) = files[f].size
<1>1. files[f] = Absent => contents[f] = Absent
  BY DEF contents
<1>2. TypeOK BY DEF IInv
<1>. QED BY <1>1, <1>2, FileReads, ReadIsSeq, FileDataAssumption

-----------------------------------------------------------------------------
(* FileData implements FileStore, step by step.                            *)

(* A leaf whose blocks a step does not write reads as before. *)
LEMMA SameRead ==
  ASSUME NEW rec, IsFile(rec), \A b \in Reads(rec.extents) : bytes'[b] = bytes[b]
  PROVE  ReadFile(rec)' = ReadFile(rec)
<1>1. rec.size \in Nat /\ IsLeaf(rec.extents)
  BY DEF IsFile
<1>2. \A pos \in 1 .. rec.size : ByteAt(rec.extents, pos)' = ByteAt(rec.extents, pos)
  BY <1>1, SameBytes
<1>. QED BY <1>2 DEF ReadFile

LEMMA ContentsStay ==
  ASSUME IInv, NEW g \in Files, files'[g] = files[g],
         \A b \in blockBitmap : bytes'[b] = bytes[b]
  PROVE  contents'[g] = contents[g]
<1>1. CASE files[g] = Absent
  BY <1>1 DEF contents
<1>2. CASE files[g] # Absent
  <2>0. PICK rec : rec = files[g]
    OBVIOUS
  <2>1. IsFile(rec) /\ Reads(rec.extents) \subseteq blockBitmap
    BY <1>2, <2>0, FileReads
  <2>2. contents[g] = ReadFile(rec) /\ contents'[g] = ReadFile(rec)'
    <3>1. contents[g] = ReadFile(rec)
      BY <1>2, <2>0 DEF contents
    <3>2. contents'[g] = ReadFile(files[g])'
      BY <1>2, Zenon DEF contents
    <3>3. ReadFile(files[g])' = ReadFile(rec)'
      BY <2>0, Zenon DEF ReadFile, ByteAt
    <3>. QED BY <3>1, <3>2, <3>3
  <2>3. ReadFile(rec)' = ReadFile(rec)
    BY <2>1, SameRead
  <2>. QED BY <2>2, <2>3
<1>. QED BY <1>1, <1>2

(* A call on f that writes no allocated block changes f's contents only. *)
OnlyFile(f) == \A g \in Files : g # f => files'[g] = files[g]

LEMMA OthersStay ==
  ASSUME IInv, NEW f \in Files, OnlyFile(f),
         \A b \in blockBitmap : bytes'[b] = bytes[b]
  PROVE  contents' = [contents EXCEPT ![f] = contents'[f]]
<1>1. \A g \in Files : g # f => contents'[g] = contents[g]
  BY ContentsStay DEF OnlyFile
<1>2. contents = [g \in Files |-> contents[g]] /\ contents' = [g \in Files |-> contents'[g]]
  BY DEF contents
<1>. QED BY <1>1, <1>2

LEMMA AllStay ==
  ASSUME IInv, files' = files, bytes' = bytes
  PROVE  contents' = contents
<1>1. \A g \in Files : contents'[g] = contents[g]
  BY ContentsStay
<1>2. contents = [g \in Files |-> contents[g]] /\ contents' = [g \in Files |-> contents'[g]]
  BY DEF contents
<1>. QED BY <1>1, <1>2

LEMMA InitStore == IInv => Store!StoreInit
  BY ContentsTyped DEF Store!StoreInit

LEMMA UnlinkStore ==
  ASSUME IInv, NEW f \in Files, Unlink(f)
  PROVE  [Store!StoreNext]_contents
<1>1. CASE files[f] = Absent
  BY <1>1, AllStay DEF Unlink, Refuse
<1>2. CASE files[f] # Absent
  <2>1. files' = [files EXCEPT ![f] = Absent] /\ bytes' = bytes
    BY <1>2 DEF Unlink
  <2>2. files'[f] = Absent /\ OnlyFile(f)
    BY <2>1 DEF IInv, TypeOK, OnlyFile
  <2>3. contents'[f] = Absent
    BY <2>2 DEF contents
  <2>4. contents' = [contents EXCEPT ![f] = contents'[f]]
    BY <2>1, <2>2, OthersStay
  <2>5. contents[f] # Absent
    BY <1>2, ContentsTyped
  <2>6. Store!Remove(f)
    BY <2>3, <2>4, <2>5 DEF Store!Remove
  <2>. QED BY <2>6 DEF Store!StoreNext
<1>. QED BY <1>1, <1>2

(* What a reader gets, position by position. *)
ReadsAs(f) ==
  files[f] # Absent =>
    /\ files[f].size \in Nat
    /\ contents[f] \in Seq(Nat) /\ contents[f] # Absent
    /\ Len(contents[f]) = files[f].size
    /\ \A pos \in 1 .. files[f].size :
         contents[f][pos] = ByteAt(files[f].extents, pos)
AllRead == \A f \in Files : ReadsAs(f)

LEMMA IInvReads == IInv => AllRead
<1>. SUFFICES ASSUME IInv, NEW f \in Files, files[f] # Absent PROVE ReadsAs(f)
  BY DEF AllRead, ReadsAs
<1>1. TypeOK BY DEF IInv
<1>2. files[f].size \in Nat BY FileReads DEF IsFile
<1>. QED BY <1>1, <1>2, FileReads, ReadIsSeq, ContentsTyped DEF ReadsAs

LEMMA IInvReadsNext == IInv' => AllRead'
<1>1. (IInv => AllRead)'
  BY IInvReads, PTL
<1>. QED BY <1>1

(* A step that writes no byte keeps what f reads where f's leaf still says *)
(* the same.                                                               *)
LEMMA PrefixKept ==
  ASSUME IInv, IInv', NEW f \in Files, files[f] # Absent, files'[f] # Absent,
         bytes' = bytes, NEW m \in Nat, m <= files[f].size, m <= files'[f].size,
         \A pos \in 1 .. m :
           Resolve(files'[f].extents, (pos - 1) \div BlockSize)
             = Resolve(files[f].extents, (pos - 1) \div BlockSize)
  PROVE  \A pos \in 1 .. m : contents'[f][pos] = contents[f][pos]
<1>. SUFFICES ASSUME NEW pos \in 1 .. m PROVE contents'[f][pos] = contents[f][pos]
  OBVIOUS
<1>1. ReadsAs(f) /\ ReadsAs(f)'
  BY IInvReads, IInvReadsNext DEF AllRead
<1>2. contents[f][pos] = ByteAt(files[f].extents, pos)
  BY <1>1 DEF ReadsAs
<1>3. contents'[f][pos] = ByteAt(files[f].extents, pos)'
  BY <1>1 DEF ReadsAs
<1>4. Resolve(files'[f].extents, (pos - 1) \div BlockSize)
        = Resolve(files[f].extents, (pos - 1) \div BlockSize)
  OBVIOUS
<1>5. ByteAt(files[f].extents, pos)' = ByteAt(files[f].extents, pos)
  BY <1>4, Zenon DEF ByteAt
<1>. QED BY <1>2, <1>3, <1>5

LEMMA GrowStore ==
  ASSUME IInv, IInv', NEW f \in Files, NEW n \in NewSizes,
         files[f] # Absent, files[f].size < n, Grow(f, n)
  PROVE  [Store!StoreNext]_contents
<1>1. CASE Refuse
  BY <1>1, AllStay DEF Refuse
<1>2. CASE files' = [files EXCEPT ![f].size = n] /\ bytes' = bytes
  <2>1. IsFile(files[f])
    BY FileReads
  <2>2. files'[f] = [files[f] EXCEPT !.size = n] /\ OnlyFile(f)
    BY <1>2 DEF IInv, TypeOK, OnlyFile
  <2>3. files'[f].size = n /\ files'[f].extents = files[f].extents
    BY <2>1, <2>2 DEF IsFile
  <2>4. files'[f] # Absent
    <3>1. IsFile(files'[f])
      BY <2>1, <2>2, FileDataAssumption DEF IsFile
    <3>. QED BY <3>1, FileIsThere
  <2>5. ReadsAs(f) /\ ReadsAs(f)'
    BY IInvReads, IInvReadsNext DEF AllRead
  <2>6. \A pos \in 1 .. files[f].size : contents'[f][pos] = contents[f][pos]
    <3>1. files[f].size \in Nat /\ n \in Nat
      BY <2>5, FileDataAssumption DEF ReadsAs
    <3>. QED BY <1>2, <2>3, <2>4, <3>1, PrefixKept
  <2>. DEFINE past == contents[f]
              now == contents'[f]
  <2>7. /\ past \in Seq(Nat) /\ now \in Seq(Nat) /\ past # Absent /\ now # Absent
        /\ Len(past) < Len(now)
        /\ \A pos \in 1 .. Len(past) : now[pos] = past[pos]
    BY <2>3, <2>4, <2>5, <2>6 DEF ReadsAs
  <2>8. SubSeq(now, 1, Len(past)) = past
    <3>. HIDE DEF past, now
    <3>. QED BY <2>7
  <2>9. contents' = [contents EXCEPT ![f] = contents'[f]]
    BY <1>2, <2>2, OthersStay
  <2>10. Store!Grow(f)
    BY <2>7, <2>8, <2>9 DEF Store!Grow
  <2>. QED BY <2>10 DEF Store!StoreNext
<1>. QED BY <1>1, <1>2 DEF Grow

(* A cut changes nothing of what the leaf says below the cutoff. *)
LEMMA CutKeepsBelow ==
  ASSUME NEW extents, IsLeaf(extents), NEW cut \in Int, NEW k \in Int, k < cut
  PROVE  Resolve(Surviving(extents, cut), k) = Resolve(extents, k)
<1>. DEFINE left == Surviving(extents, cut)
<1>1. \A j \in DOMAIN left : /\ j \in DOMAIN extents
                             /\ Survives(extents[j], cut)
                             /\ left[j] = Shortened(extents[j], cut)
  BY DEF Surviving
<1>2. \A j \in DOMAIN extents : extents[j] \in ExtentType
  BY DEF IsLeaf
<1>3. ASSUME NEW j \in DOMAIN left
      PROVE  /\ Covers(left[j], k) <=> Covers(extents[j], k)
             /\ Place(left[j], k) = Place(extents[j], k)
  <2>1. extents[j] \in ExtentType /\ left[j] = Shortened(extents[j], cut)
    BY <1>1, <1>2
  <2>2. CASE extents[j].log + extents[j].len <= cut
    BY <2>1, <2>2 DEF Shortened
  <2>3. CASE ~ (extents[j].log + extents[j].len <= cut)
    <3>1. left[j] = [extents[j] EXCEPT !.len = cut - extents[j].log]
      BY <2>1, <2>3 DEF Shortened
    <3>2. /\ left[j].log = extents[j].log /\ left[j].phys = extents[j].phys
          /\ left[j].uninit = extents[j].uninit
          /\ left[j].len = cut - extents[j].log
      BY <2>1, <3>1 DEF ExtentType
    <3>. HIDE DEF left
    <3>. QED BY <2>1, <2>3, <3>2 DEF Covers, Place, ExtentType
  <2>. QED BY <2>2, <2>3
<1>4. ASSUME NEW j \in DOMAIN extents, Covers(extents[j], k)
      PROVE  j \in DOMAIN left
  <2>1. extents[j].log < cut
    BY <1>2, <1>4 DEF Covers, ExtentType
  <2>. QED BY <2>1 DEF Surviving, Survives
<1>5. IsLeaf(left)
  <2>1. \A j \in DOMAIN left : left[j] \in ExtentType
    BY <1>1, <1>2, ShortenedInside
  <2>2. left = [j \in DOMAIN left |-> left[j]]
    BY DEF Surviving
  <2>3. DOMAIN left \subseteq 1 .. MaxEntries
    BY <1>1 DEF IsLeaf
  <2>. QED BY <2>1, <2>2, <2>3 DEF IsLeaf
<1>. HIDE DEF left
<1>6. CASE \A j \in DOMAIN extents : ~ Covers(extents[j], k)
  <2>1. \A j \in DOMAIN left : ~ Covers(left[j], k)
    BY <1>1, <1>3, <1>6
  <2>2. Resolve(extents, k) = Hole
    BY <1>6, ResolveCases DEF Decides
  <2>3. Resolve(left, k) = Hole
    BY <1>5, <2>1, ResolveCases DEF Decides
  <2>. QED BY <2>2, <2>3 DEF left
<1>7. ASSUME NEW j \in DOMAIN extents, Decides(extents, k, j)
      PROVE  Resolve(left, k) = Resolve(extents, k)
  <2>1. j \in DOMAIN left
    BY <1>4, <1>7 DEF Decides
  <2>2. Decides(left, k, j)
    BY <1>1, <1>3, <1>7, <2>1 DEF Decides
  <2>. QED BY <1>3, <1>5, <1>7, <2>1, <2>2, ResolveDecided
<1>. QED BY <1>6, <1>7, ResolveCases DEF left

(* The cutoff is past every byte that stays. *)
LEMMA BelowCutoff ==
  ASSUME NEW n \in Nat, NEW pos \in 1 .. n
  PROVE  (pos - 1) \div BlockSize < CeilDiv(n, BlockSize)
<1>. DEFINE q == (pos - 1) \div BlockSize
            c == CeilDiv(n, BlockSize)
<1>1. q \in Nat /\ q * BlockSize <= pos - 1
  BY PositionSplit, FileDataAssumption
<1>2. c \in Int /\ c * BlockSize >= n
  BY FileDataAssumption, Z3 DEF CeilDiv
<1>. HIDE DEF q, c
<1>3. c <= q => c * BlockSize <= q * BlockSize
  BY <1>1, <1>2, FileDataAssumption, Z3
<1>4. q * BlockSize \in Int /\ c * BlockSize \in Int
  BY <1>1, <1>2, FileDataAssumption
<1>5. q < c
  BY <1>1, <1>2, <1>3, <1>4
<1>. QED BY <1>5 DEF q, c

LEMMA ShrinkStore ==
  ASSUME IInv, IInv', NEW f \in Files, NEW n \in NewSizes,
         files[f] # Absent, files[f].size > n, Shrink(f, n)
  PROVE  [Store!StoreNext]_contents
<1>. DEFINE cut == Cutoff(n)
            old == files[f].extents
            rec == [size |-> n, extents |-> Surviving(old, cut)]
<1>1. IsFile(files[f]) /\ IsLeaf(old)
  BY FileReads
<1>2. files' = [files EXCEPT ![f] = rec] /\ bytes' = bytes
  BY DEF Shrink
<1>3. files'[f] = rec /\ OnlyFile(f)
  BY <1>2 DEF IInv, TypeOK, OnlyFile
<1>4. files'[f].size = n /\ files'[f].extents = Surviving(old, cut)
  BY <1>3
<1>5. n \in Nat /\ cut \in Int
  BY FileDataAssumption, CeilDivInt DEF Cutoff
<1>6. files'[f] # Absent
  <2>1. rec = files'[f] BY <1>3
  <2>2. Surviving(old, cut) \in [DOMAIN Surviving(old, cut) -> ExtentType]
    <3>1. \A k \in DOMAIN Surviving(old, cut) :
            /\ k \in DOMAIN old /\ Survives(old[k], cut)
            /\ Surviving(old, cut)[k] = Shortened(old[k], cut)
      BY DEF Surviving
    <3>2. \A k \in DOMAIN Surviving(old, cut) : Surviving(old, cut)[k] \in ExtentType
      BY <1>1, <1>5, <3>1, ShortenedInside DEF IsLeaf
    <3>. QED BY <3>2 DEF Surviving
  <2>3. DOMAIN Surviving(old, cut) \in SUBSET (1 .. MaxEntries)
    BY <1>1 DEF Surviving, IsLeaf
  <2>4. rec \in FileType
    BY <1>5, <2>2, <2>3 DEF FileType
  <2>. QED BY <2>1, <2>4, FileDataAssumption
<1>7. ReadsAs(f) /\ ReadsAs(f)'
  BY IInvReads, IInvReadsNext DEF AllRead
<1>8. \A pos \in 1 .. n : contents'[f][pos] = contents[f][pos]
  <2>1. ASSUME NEW pos \in 1 .. n
        PROVE  Resolve(files'[f].extents, (pos - 1) \div BlockSize)
                 = Resolve(old, (pos - 1) \div BlockSize)
    <3>1. (pos - 1) \div BlockSize < cut
      BY <1>5, BelowCutoff DEF Cutoff
    <3>2. (pos - 1) \div BlockSize \in Int
      BY <1>5, PositionSplit
    <3>. HIDE DEF cut, old
    <3>. QED BY <1>1, <1>4, <1>5, <3>1, <3>2, CutKeepsBelow
  <2>2. /\ n <= files[f].size /\ n <= files'[f].size
        /\ bytes' = bytes /\ files'[f] # Absent
    BY <1>2, <1>4, <1>5, <1>6, <1>7 DEF ReadsAs
  <2>. HIDE DEF cut, rec
  <2>. QED BY <1>5, <2>1, <2>2, PrefixKept
<1>. DEFINE past == contents[f]
            now == contents'[f]
<1>9. /\ past \in Seq(Nat) /\ now \in Seq(Nat) /\ past # Absent
      /\ Len(now) = n /\ n \in 0 .. (Len(past) - 1)
      /\ \A pos \in 1 .. n : now[pos] = past[pos]
  BY <1>4, <1>5, <1>6, <1>7, <1>8 DEF ReadsAs
<1>10. SubSeq(past, 1, n) = now
  <2>. HIDE DEF past, now
  <2>. QED BY <1>9
<1>11. contents' = [contents EXCEPT ![f] = contents'[f]]
  BY <1>2, <1>3, OthersStay
<1>12. contents' = [contents EXCEPT ![f] = SubSeq(@, 1, n)]
  BY <1>10, <1>11
<1>13. Store!Shrink(f)
  BY <1>9, <1>12 DEF Store!Shrink
<1>. QED BY <1>13 DEF Store!StoreNext

(* A 16-bit length holds the number of blocks of any free run. *)
LengthsFit == NumBlocks <= LenModulus

LEMMA RunFits ==
  ASSUME LengthsFit, IInv, NEW s \in Blocks, NEW n \in Nat \ {0},
         IsFirstFreeRun(blockBitmap, s, n, NumBlocks)
  PROVE  /\ n % LenModulus = n
         /\ RunBits(s, n) \subseteq Blocks
         /\ RunBits(s, n) \cap blockBitmap = {}
<1>1. s + n <= NumBlocks /\ RunBits(s, n) \cap blockBitmap = {}
  BY DEF IsFirstFreeRun, IsFreeRun
<1>2. RunBits(s, n) \subseteq Blocks
  BY <1>1, FileDataAssumption DEF RunBits, Blocks
<1>3. s # 0
  BY <1>1, FileDataAssumption DEF RunBits, IInv
<1>4. n < LenModulus
  BY <1>1, <1>3, FileDataAssumption DEF LengthsFit, Blocks
<1>5. n % LenModulus = n
  BY <1>4, FileDataAssumption, Z3
<1>. QED BY <1>1, <1>2, <1>5

LEMMA InsideRun ==
  ASSUME NEW s \in Int, NEW n \in Nat, NEW k \in Nat, k < n
  PROVE  s + k \in RunBits(s, n)
  BY DEF RunBits

LEMMA OneLeaf ==
  ASSUME NEW e \in ExtentType
  PROVE  IsLeaf(<<e>>) /\ DOMAIN <<e>> = {1} /\ <<e>>[1] = e
<1>1. DOMAIN <<e>> = {1} /\ <<e>>[1] = e
  OBVIOUS
<1>2. <<e>> = [k \in DOMAIN <<e>> |-> <<e>>[k]]
  OBVIOUS
<1>3. DOMAIN <<e>> \subseteq 1 .. MaxEntries
  BY <1>1 DEF MaxEntries
<1>4. \A k \in DOMAIN <<e>> : <<e>>[k] \in ExtentType
  BY <1>1, Zenon
<1>. QED BY <1>1, <1>2, <1>3, <1>4, Zenon DEF IsLeaf

LEMMA SameSeq ==
  ASSUME NEW s \in Seq(Nat), NEW t \in Seq(Nat), Len(s) = Len(t),
         \A i \in 1 .. Len(s) : s[i] = t[i]
  PROVE  s = t
  BY SMTT(30)

(* What create_file writes reads back: the data, and zeros up to the end   *)
(* of its last block.                                                      *)
LEMMA FilledReads ==
  ASSUME NEW data \in Payloads, NEW s \in Blocks, NEW n \in Nat,
         n = CeilDiv(Len(data), BlockSize), RunBits(s, n) \subseteq Blocks,
         Encodable(n), n % LenModulus = n, bytes' = Filled(data, s, n),
         NEW pos \in Nat \ {0}, (pos - 1) \div BlockSize < n
  PROVE  ByteAt(<<Extent(0, n, s, FALSE)>>, pos)' =
           IF pos <= Len(data) THEN data[pos] ELSE 0
<1>. DEFINE k == (pos - 1) \div BlockSize
            i == ((pos - 1) % BlockSize) + 1
            leaf == <<Extent(0, n, s, FALSE)>>
<1>1. Len(data) \in Nat
  BY FileDataAssumption
<1>2. k \in Nat /\ k < n
  BY PositionSplit
<1>3. i \in 1 .. BlockSize /\ k * BlockSize \in Nat /\ k * BlockSize + i = pos
  <2>1. k * BlockSize \in Nat
    BY <1>2, FileDataAssumption
  <2>2. /\ (pos - 1) % BlockSize \in 0 .. (BlockSize - 1)
        /\ k * BlockSize + ((pos - 1) % BlockSize) = pos - 1
    BY <1>1, PositionSplit
  <2>3. pos \in Nat /\ BlockSize \in Nat \ {0}
    BY <1>1, FileDataAssumption
  <2>. DEFINE r == (pos - 1) % BlockSize
              start == k * BlockSize
  <2>. HIDE DEF k, r, start
  <2>4. start \in Nat /\ r \in 0 .. (BlockSize - 1) /\ start + r = pos - 1
    BY <2>1, <2>2 DEF r, start
  <2>5. r + 1 \in 1 .. BlockSize /\ start + (r + 1) = pos
    BY <2>3, <2>4
  <2>. QED BY <2>1, <2>5 DEF r, start
<1>4. s + k \in RunBits(s, n) /\ s + k \in Blocks /\ s \in Nat
  <2>1. s \in Nat /\ s \in Int
    BY FileDataAssumption DEF Blocks
  <2>. HIDE DEF k
  <2>2. s + k \in RunBits(s, n)
    BY <1>2, <2>1, InsideRun, Zenon
  <2>. QED BY <2>1, <2>2
<1>5. Extent(0, n, s, FALSE) \in ExtentType
  BY FileDataAssumption DEF Encodable, Extent, ExtentType
<1>6. IsLeaf(leaf)
  BY <1>5, OneLeaf
<1>7. Decides(leaf, k, 1)
  <2>1. DOMAIN leaf = {1} /\ leaf[1] = Extent(0, n, s, FALSE)
    OBVIOUS
  <2>. HIDE DEF leaf, k
  <2>. QED BY <1>2, <2>1 DEF Decides, Covers, Extent
<1>8. Resolve(leaf, k) = s + k
  <2>1. leaf[1] = Extent(0, n, s, FALSE)
    OBVIOUS
  <2>2. Resolve(leaf, k) = Place(leaf[1], k)
    BY <1>6, <1>7, ResolveDecided
  <2>. HIDE DEF leaf, k
  <2>. QED BY <1>2, <1>4, <2>1, <2>2 DEF Place, Extent
<1>. HIDE DEF leaf
<1>9. bytes'[s + k][i] = IF pos <= Len(data) THEN data[pos] ELSE 0
  <2>1. bytes'[s + k] = [j \in 1 .. BlockSize |->
          LET p == ((s + k) - s) * BlockSize + j IN
          IF p <= Len(data) THEN data[p] ELSE 0]
    BY <1>4, Zenon DEF Filled
  <2>. HIDE DEF k, i
  <2>2. ((s + k) - s) * BlockSize + i = pos
    <3>1. (s + k) - s = k BY <1>2, <1>4
    <3>. QED BY <1>3, <3>1
  <2>3. bytes'[s + k][i] = LET p == ((s + k) - s) * BlockSize + i IN
                           IF p <= Len(data) THEN data[p] ELSE 0
    BY <1>3, <2>1, Zenon
  <2>. QED BY <2>2, <2>3, Zenon
<1>10. ByteAt(leaf, pos)' = bytes'[s + k][i]
  <2>1. s + k # Hole
    BY <1>2, <1>4 DEF Hole
  <2>. QED BY <1>8, <2>1, Zenon DEF ByteAt
<1>. QED BY <1>9, <1>10 DEF leaf

LEMMA CreateStore ==
  ASSUME LengthsFit, IInv, IInv', NEW f \in Files, NEW data \in Payloads,
         CreateFile(f, data)
  PROVE  [Store!StoreNext]_contents
<1>. DEFINE n == CeilDiv(Len(data), BlockSize)
<1>1. n \in Int /\ data \in Seq(Nat)
  BY CeilDivInt, FileDataAssumption
<1>. HIDE DEF n
<1>2. CASE UNCHANGED <<files, bytes>>
  BY <1>2, AllStay
<1>3. CASE CreateEmpty(f, data) /\ files[f] = Absent
  <2>1. files' = [files EXCEPT ![f] = [size |-> 0, extents |-> <<>>]] /\ bytes' = bytes
    BY <1>3 DEF CreateEmpty
  <2>2. files'[f] = [size |-> 0, extents |-> <<>>] /\ OnlyFile(f)
    BY <2>1 DEF IInv, TypeOK, OnlyFile
  <2>3. files'[f] # Absent
    <3>1. IsFile([size |-> 0, extents |-> <<>>])
      BY DEF IsFile, IsLeaf
    <3>. QED BY <2>2, <3>1, FileIsThere
  <2>4. ReadsAs(f)'
    BY IInvReadsNext DEF AllRead
  <2>5. contents'[f] \in Seq(Nat) /\ Len(contents'[f]) = 0
    BY <2>2, <2>3, <2>4 DEF ReadsAs
  <2>6. contents'[f] = data
    <3>. DEFINE now == contents'[f]
    <3>1. now \in Seq(Nat) /\ Len(now) = 0
      BY <2>5
    <3>. HIDE DEF now
    <3>2. now = <<>>
      BY <3>1
    <3>. QED BY <1>3, <3>2 DEF CreateEmpty, now
  <2>7. contents' = [contents EXCEPT ![f] = contents'[f]]
    BY <2>1, <2>2, OthersStay
  <2>8. Store!Create(f, data)
    BY <1>3, <2>6, <2>7, ContentsTyped DEF Store!Create
  <2>. QED BY <2>8 DEF Store!StoreNext
<1>4. CASE CreateFull(f, data, n) /\ files[f] = Absent
  <2>1. PICK s \in Blocks :
          /\ IsFirstFreeRun(blockBitmap, s, n, NumBlocks)
          /\ bytes' = Filled(data, s, n)
          /\ files' = [files EXCEPT ![f] =
               [size |-> Len(data), extents |-> <<Extent(0, n % LenModulus, s, FALSE)>>]]
    BY <1>4 DEF CreateFull
  <2>2. n \in Nat \ {0} /\ Encodable(n)
    BY <1>1, <1>4 DEF CreateFull
  <2>3. /\ n % LenModulus = n
        /\ RunBits(s, n) \subseteq Blocks
        /\ RunBits(s, n) \cap blockBitmap = {}
    BY <2>1, <2>2, RunFits
  <2>. DEFINE leaf == <<Extent(0, n, s, FALSE)>>
              rec == [size |-> Len(data), extents |-> leaf]
  <2>4. files' = [files EXCEPT ![f] = rec]
    BY <2>1, <2>3
  <2>5. files'[f] = rec /\ OnlyFile(f)
    BY <2>4 DEF IInv, TypeOK, OnlyFile
  <2>6. files'[f] # Absent
    <3>1. s \in Nat BY FileDataAssumption DEF Blocks
    <3>2. Extent(0, n, s, FALSE) \in ExtentType
      BY <2>2, <2>3, FileDataAssumption DEF Encodable, Extent, ExtentType
    <3>3. IsLeaf(leaf)
      BY <3>2, OneLeaf
    <3>4. Len(data) \in Nat
      BY <1>1
    <3>. HIDE DEF leaf
    <3>5. IsFile(rec)
      BY <3>3, <3>4 DEF IsFile
    <3>. HIDE DEF rec
    <3>. QED BY <2>5, <3>5, FileIsThere
  <2>7. ReadsAs(f)'
    BY IInvReadsNext DEF AllRead
  <2>8. /\ contents'[f] \in Seq(Nat) /\ Len(contents'[f]) = Len(data)
        /\ \A pos \in 1 .. Len(data) : contents'[f][pos] = ByteAt(files[f].extents, pos)'
    <3>. HIDE DEF leaf
    <3>. QED BY <2>5, <2>6, <2>7 DEF ReadsAs
  <2>9. ASSUME NEW pos \in 1 .. Len(data) PROVE contents'[f][pos] = data[pos]
    <3>1. ByteAt(leaf, pos)' = data[pos]
      <4>1. (pos - 1) \div BlockSize < n /\ pos \in Nat \ {0}
        BY <1>1, BelowCutoff DEF n
      <4>2. ByteAt(leaf, pos)' = IF pos <= Len(data) THEN data[pos] ELSE 0
        BY <2>1, <2>2, <2>3, <4>1, FilledReads DEF n
      <4>. QED BY <1>1, <4>2
    <3>2. files'[f].extents = leaf
      <4>. HIDE DEF leaf
      <4>. QED BY <2>5
    <3>. HIDE DEF leaf
    <3>3. ByteAt(files[f].extents, pos)' = ByteAt(leaf, pos)'
      BY <3>2, Zenon DEF ByteAt
    <3>. QED BY <2>8, <3>1, <3>3
  <2>10. contents'[f] = data
    <3>. DEFINE now == contents'[f]
    <3>1. now \in Seq(Nat) /\ Len(now) = Len(data)
          /\ \A pos \in 1 .. Len(data) : now[pos] = data[pos]
      BY <2>8, <2>9
    <3>. HIDE DEF now
    <3>2. now = data
      BY <1>1, <3>1, SameSeq
    <3>. QED BY <3>2 DEF now
  <2>11. \A b \in blockBitmap : bytes'[b] = bytes[b]
    BY <2>1, <2>3 DEF Filled, IInv, TypeOK
  <2>12. contents' = [contents EXCEPT ![f] = contents'[f]]
    BY <2>5, <2>11, OthersStay
  <2>13. Store!Create(f, data)
    BY <1>4, <2>10, <2>12, ContentsTyped DEF Store!Create
  <2>. QED BY <2>13 DEF Store!StoreNext
<1>. QED BY <1>2, <1>3, <1>4
         DEF CreateFile, CreateNoRoom, CreateUnencodable, Refuse, n

LEMMA StepStore ==
  ASSUME LengthsFit, IInv, IInv', [FileNext]_fileVars
  PROVE  [Store!StoreNext]_contents
<1>1. CASE UNCHANGED fileVars
  BY <1>1, AllStay DEF fileVars
<1>2. ASSUME NEW f \in Files, NEW data \in Payloads, CreateFile(f, data)
      PROVE  [Store!StoreNext]_contents
  BY <1>2, CreateStore
<1>3. ASSUME NEW f \in Files, Unlink(f) PROVE [Store!StoreNext]_contents
  BY <1>3, UnlinkStore
<1>4. ASSUME NEW f \in Files, NEW n \in NewSizes, Truncate(f, n)
      PROVE  [Store!StoreNext]_contents
  <2>1. CASE UNCHANGED <<blockBitmap, files, bytes>>
    BY <2>1, AllStay
  <2>2. CASE files[f] # Absent /\ files[f].size < n /\ Grow(f, n)
    BY <2>2, GrowStore
  <2>3. CASE files[f] # Absent /\ files[f].size > n /\ Shrink(f, n)
    BY <2>3, ShrinkStore
  <2>. QED BY <1>4, <2>1, <2>2, <2>3 DEF Truncate, Refuse
<1>. QED BY <1>1, <1>2, <1>3, <1>4 DEF FileNext

(* Whatever calls are made on other files, however truncate cuts a file's  *)
(* extents and create_file reuses what was freed, a file reads as what was *)
(* written to it and changes by its own calls only: on an image whose      *)
(* blocks a 16-bit length can count, the code implements FileStore.        *)
THEOREM ContentsAreTheFilesOwn == LengthsFit => (FileSpec => IsStore)
<1>. SUFFICES ASSUME LengthsFit PROVE FileSpec => IsStore
  OBVIOUS
<1>1. IInv /\ IInv' /\ [FileNext]_fileVars => [Store!StoreNext]_contents
  BY StepStore
<1>. QED BY InitIInv, StepIInv, InitStore, <1>1, PTL
         DEF FileSpec, IsStore, Store!StoreSpec

-----------------------------------------------------------------------------
(* What is lost.                                                           *)

(* A file of size 0 has no initialized block: unlink frees nothing of it. *)
HoldsNone(ext) == ext.uninit \/ BlocksOfExtent(ext) = {}
EmptyHoldsNone ==
  \A f \in Files : files[f] # Absent /\ files[f].size = 0 =>
    \A ext \in ExtentsOf(f) : HoldsNone(ext)
ForeignEmptyHoldsNone ==
  \A rec \in ForeignFiles : rec.size = 0 =>
    \A k \in DOMAIN rec.extents : HoldsNone(rec.extents[k])

LEMMA InitEmpty == ForeignEmptyHoldsNone /\ FileInit => EmptyHoldsNone
<1>. SUFFICES ASSUME ForeignEmptyHoldsNone, FileInit,
                     NEW f \in Files, files[f] # Absent, files[f].size = 0,
                     NEW ext \in ExtentsOf(f)
     PROVE  HoldsNone(ext)
  BY DEF EmptyHoldsNone
<1>1. PICK g \in Files, rec \in ForeignFiles :
        files = [h \in Files |-> IF h = g THEN rec ELSE Absent]
  BY DEF FileInit
<1>2. files[f] = rec
  BY <1>1
<1>. QED BY <1>2 DEF ForeignEmptyHoldsNone, ExtentsOf

LEMMA EmptyByFile ==
  ASSUME EmptyHoldsNone, NEW f \in Files, OnlyFile(f),
         files'[f] # Absent /\ files'[f].size = 0 =>
           \A ext \in ExtentsOf(f)' : HoldsNone(ext)
  PROVE  EmptyHoldsNone'
<1>1. \A g \in Files : g # f => ExtentsOf(g)' = ExtentsOf(g)
  BY DEF OnlyFile, ExtentsOf
<1>. QED BY <1>1 DEF EmptyHoldsNone, OnlyFile, HoldsNone

LEMMA StepEmpty == IInv /\ EmptyHoldsNone /\ [FileNext]_fileVars => EmptyHoldsNone'
<1>. SUFFICES ASSUME IInv, EmptyHoldsNone, [FileNext]_fileVars PROVE EmptyHoldsNone'
  OBVIOUS
<1>1. CASE UNCHANGED files
  BY <1>1 DEF EmptyHoldsNone, ExtentsOf
<1>2. ASSUME NEW f \in Files, NEW data \in Payloads, CreateFile(f, data)
      PROVE  EmptyHoldsNone'
  <2>. DEFINE n == CeilDiv(Len(data), BlockSize)
  <2>1. CASE CreateEmpty(f, data)
    <3>1. files'[f] = [size |-> 0, extents |-> <<>>] /\ OnlyFile(f)
      BY <2>1 DEF CreateEmpty, IInv, TypeOK, OnlyFile
    <3>2. ExtentsOf(f)' = {}
      BY <3>1 DEF ExtentsOf
    <3>. QED BY <3>1, <3>2, EmptyByFile
  <2>2. CASE CreateFull(f, data, n)
    <3>1. PICK x : files' = [files EXCEPT ![f] = [size |-> Len(data), extents |-> x]]
      BY <2>2 DEF CreateFull
    <3>2. files'[f] = [size |-> Len(data), extents |-> x] /\ OnlyFile(f)
      BY <3>1 DEF IInv, TypeOK, OnlyFile
    <3>3. Len(data) # 0
      <4>1. CeilDiv(0, BlockSize) = 0
        BY FileDataAssumption, Z3 DEF CeilDiv
      <4>. QED BY <2>2, <4>1 DEF CreateFull
    <3>4. files'[f].size # 0
      BY <3>2, <3>3
    <3>. QED BY <3>2, <3>4, EmptyByFile
  <2>3. CASE UNCHANGED files
    BY <1>1, <2>3
  <2>. QED BY <1>2, <2>1, <2>2, <2>3
           DEF CreateFile, CreateNoRoom, CreateUnencodable, Refuse
<1>3. ASSUME NEW f \in Files, Unlink(f) PROVE EmptyHoldsNone'
  <2>1. CASE files' = [files EXCEPT ![f] = Absent]
    <3>1. files'[f] = Absent /\ OnlyFile(f)
      BY <2>1 DEF IInv, TypeOK, OnlyFile
    <3>. QED BY <3>1, EmptyByFile
  <2>. QED BY <1>1, <1>3, <2>1 DEF Unlink, Refuse
<1>4. ASSUME NEW f \in Files, NEW n \in NewSizes, Truncate(f, n)
      PROVE  EmptyHoldsNone'
  <2>0. n \in Nat
    BY FileDataAssumption
  <2>1. CASE /\ files[f] # Absent /\ files[f].size < n
             /\ files' = [files EXCEPT ![f].size = n]
    <3>1. IsFile(files[f])
      BY <2>1, FileReads
    <3>2. files'[f] = [files[f] EXCEPT !.size = n] /\ OnlyFile(f)
      BY <2>1 DEF IInv, TypeOK, OnlyFile
    <3>3. files'[f].size # 0
      BY <2>0, <2>1, <3>1, <3>2 DEF IsFile
    <3>. QED BY <3>2, <3>3, EmptyByFile
  <2>2. CASE files[f] # Absent /\ Shrink(f, n)
    <3>. DEFINE left == Surviving(files[f].extents, Cutoff(n))
    <3>1. files' = [files EXCEPT ![f] = [size |-> n, extents |-> left]]
      BY <2>2 DEF Shrink
    <3>2. files'[f] = [size |-> n, extents |-> left] /\ OnlyFile(f)
      BY <3>1 DEF IInv, TypeOK, OnlyFile
    <3>3. ASSUME n = 0, NEW ext \in ExtentsOf(f)' PROVE HoldsNone(ext)
      <4>1. Cutoff(n) = 0
        BY <3>3, FileDataAssumption, Z3 DEF Cutoff, CeilDiv
      <4>2. PICK k \in DOMAIN left : ext = left[k]
        BY <3>2, <3>3 DEF ExtentsOf
      <4>3. /\ k \in DOMAIN files[f].extents
            /\ Survives(files[f].extents[k], 0)
            /\ ext = Shortened(files[f].extents[k], 0)
        BY <4>1, <4>2 DEF Surviving
      <4>4. files[f].extents[k] \in ExtentType
        BY <2>2, <4>3, FileReads DEF IsLeaf
      <4>5. ext = files[f].extents[k] /\ ext.len = 0
        BY <4>3, <4>4 DEF Survives, Shortened, ExtentType
      <4>6. BlocksOfExtent(ext) = {}
        BY <4>4, <4>5, FileDataAssumption, SMTT(30) DEF BlocksOfExtent, RunBits, ExtentType, Blocks
      <4>. QED BY <4>6 DEF HoldsNone
    <3>4. files'[f].size = n
      BY <3>2
    <3>. QED BY <3>2, <3>3, <3>4, EmptyByFile
  <2>. QED BY <1>1, <1>4, <2>1, <2>2 DEF Truncate, Grow, Refuse
<1>. QED BY <1>1, <1>2, <1>3, <1>4 DEF FileNext, fileVars

LEMMA MappedIs ==
  \A b : b \in Mapped <=> \E f \in Files : \E ext \in ExtentsOf(f) : b \in BlocksOfExtent(ext)
  BY DEF Mapped

LEMMA MappedIsNext ==
  \A b : b \in Mapped' <=> \E f \in Files : \E ext \in ExtentsOf(f)' : b \in BlocksOfExtent(ext)
  BY DEF Mapped

LostRight ==
  /\ Lost \subseteq Lost'
  /\ outcome' = "ok" => Lost' \ Lost \subseteq Uninitialized

(* A call that frees blocks of one file, and forgets none of the others    *)
(* that the file's extents mapped but those of uninitialized ones.         *)
LEMMA LostByFile ==
  ASSUME IInv, NEW f \in Files, OnlyFile(f), NEW freed,
         blockBitmap' = blockBitmap \ freed,
         \A b \in freed : \E ext \in ExtentsOf(f) : b \in BlocksOfExtent(ext),
         \A x \in ExtentsOf(f)' : \E ext \in ExtentsOf(f) :
           BlocksOfExtent(x) \subseteq BlocksOfExtent(ext),
         \A ext \in ExtentsOf(f) : \A b \in BlocksOfExtent(ext) :
           \/ ext.uninit \/ b \in freed
           \/ \E x \in ExtentsOf(f)' : b \in BlocksOfExtent(x)
  PROVE  LostRight
<1>1. \A g \in Files : g # f => ExtentsOf(g)' = ExtentsOf(g)
  BY DEF OnlyFile, ExtentsOf
<1>2. ASSUME NEW b \in Lost PROVE b \in Lost'
  <2>1. b \in blockBitmap /\ b # 0 /\ b \notin Mapped
    BY DEF Lost
  <2>2. b \notin freed
    BY <2>1, MappedIs
  <2>3. b \notin Mapped'
    BY <1>1, <2>1, MappedIs, MappedIsNext
  <2>. QED BY <2>1, <2>2, <2>3 DEF Lost
<1>3. ASSUME NEW b \in Lost' \ Lost PROVE b \in Uninitialized
  <2>1. b \in blockBitmap /\ b \notin freed /\ b # 0 /\ b \notin Mapped'
    BY DEF Lost
  <2>2. b \in Mapped
    BY <2>1 DEF Lost
  <2>3. PICK g \in Files : \E ext \in ExtentsOf(g) : b \in BlocksOfExtent(ext)
    BY <2>2, MappedIs
  <2>4. PICK ext \in ExtentsOf(g) : b \in BlocksOfExtent(ext)
    BY <2>3
  <2>5. g = f
    BY <1>1, <2>1, <2>3, MappedIsNext
  <2>6. ext.uninit
    BY <2>1, <2>4, <2>5, MappedIsNext
  <2>. QED BY <2>4, <2>6 DEF Uninitialized
<1>. QED BY <1>2, <1>3 DEF LostRight

LEMMA LostSame ==
  ASSUME blockBitmap' = blockBitmap, files' = files
  PROVE  LostRight
<1>1. \A g \in Files : ExtentsOf(g)' = ExtentsOf(g)
  BY DEF ExtentsOf
<1>2. \A b : b \in Mapped' <=> b \in Mapped
  BY <1>1, MappedIs, MappedIsNext
<1>. QED BY <1>2 DEF LostRight, Lost

LEMMA CreateLost ==
  ASSUME LengthsFit, IInv, NEW f \in Files, NEW data \in Payloads, CreateFile(f, data)
  PROVE  LostRight
<1>. DEFINE n == CeilDiv(Len(data), BlockSize)
<1>1. n \in Int
  BY CeilDivInt, FileDataAssumption
<1>. HIDE DEF n
<1>2. CASE UNCHANGED <<blockBitmap, files>>
  BY <1>2, LostSame
<1>3. CASE CreateUnencodable(n)
  <2>1. blockBitmap \subseteq blockBitmap' /\ files' = files /\ outcome' = "refused"
    BY <1>3 DEF CreateUnencodable
  <2>2. \A g \in Files : ExtentsOf(g)' = ExtentsOf(g)
    BY <2>1 DEF ExtentsOf
  <2>3. \A b : b \in Mapped' <=> b \in Mapped
    BY <2>2, MappedIs, MappedIsNext
  <2>. QED BY <2>1, <2>3 DEF LostRight, Lost
<1>4. CASE CreateEmpty(f, data) /\ files[f] = Absent
  <2>1. files'[f] = [size |-> 0, extents |-> <<>>] /\ OnlyFile(f)
        /\ blockBitmap' = blockBitmap
    BY <1>4 DEF CreateEmpty, IInv, TypeOK, OnlyFile
  <2>2. ExtentsOf(f)' = {} /\ ExtentsOf(f) = {}
    BY <1>4, <2>1 DEF ExtentsOf
  <2>3. blockBitmap' = blockBitmap \ {}
    BY <2>1
  <2>. QED BY <2>1, <2>2, <2>3, LostByFile
<1>5. CASE CreateFull(f, data, n) /\ files[f] = Absent
  <2>1. PICK s \in Blocks :
          /\ IsFirstFreeRun(blockBitmap, s, n, NumBlocks)
          /\ blockBitmap' = blockBitmap \cup RunBits(s, n)
          /\ files' = [files EXCEPT ![f] =
               [size |-> Len(data), extents |-> <<Extent(0, n % LenModulus, s, FALSE)>>]]
    BY <1>5 DEF CreateFull
  <2>2. n \in Nat \ {0} /\ Encodable(n)
    BY <1>1, <1>5 DEF CreateFull
  <2>3. n % LenModulus = n /\ RunBits(s, n) \cap blockBitmap = {}
    BY <2>1, <2>2, RunFits
  <2>. DEFINE e == Extent(0, n, s, FALSE)
  <2>4. files'[f] = [size |-> Len(data), extents |-> <<e>>] /\ OnlyFile(f)
    BY <2>1, <2>3 DEF IInv, TypeOK, OnlyFile
  <2>5. BlocksOfExtent(e) = RunBits(s, n)
    BY DEF BlocksOfExtent, Extent
  <2>6. e \in ExtentType
    BY <2>2, <2>3, FileDataAssumption DEF Encodable, Extent, ExtentType, Blocks
  <2>. HIDE DEF e
  <2>7. files'[f].extents = <<e>>
    BY <2>4
  <2>8. files'[f] # Absent
    <3>1. Len(data) \in Nat
      BY FileDataAssumption
    <3>2. IsFile([size |-> Len(data), extents |-> <<e>>])
      BY <2>6, <3>1, OneLeaf DEF IsFile
    <3>. QED BY <2>4, <3>2, FileIsThere
  <2>9. \A x : x \in ExtentsOf(f)' <=> x = e
    BY <2>6, <2>7, <2>8, OneLeaf DEF ExtentsOf
  <2>10. ExtentsOf(f) = {} /\ \A g \in Files : g # f => ExtentsOf(g)' = ExtentsOf(g)
    BY <1>5, <2>4 DEF OnlyFile, ExtentsOf
  <2>11. \A b : b \in Mapped' <=> b \in Mapped \/ b \in RunBits(s, n)
    BY <2>5, <2>9, <2>10, MappedIs, MappedIsNext
  <2>12. Lost' = Lost
    BY <2>1, <2>3, <2>11 DEF Lost, IInv
  <2>. QED BY <2>12 DEF LostRight
<1>. QED BY <1>2, <1>3, <1>4, <1>5 DEF CreateFile, CreateNoRoom, Refuse, n

LEMMA UnlinkLost ==
  ASSUME IInv, EmptyHoldsNone, NEW f \in Files, Unlink(f)
  PROVE  LostRight
<1>1. CASE files[f] = Absent
  BY <1>1, LostSame DEF Unlink, Refuse
<1>2. CASE files[f] # Absent
  <2>1. /\ blockBitmap' = blockBitmap \ Owned(files[f])
        /\ files'[f] = Absent /\ OnlyFile(f)
    BY <1>2 DEF Unlink, IInv, TypeOK, OnlyFile
  <2>2. ExtentsOf(f)' = {}
    BY <2>1 DEF ExtentsOf
  <2>3. \A b \in Owned(files[f]) : \E ext \in ExtentsOf(f) : b \in BlocksOfExtent(ext)
    BY <1>2 DEF Owned, ExtentsOf
  <2>4. ASSUME NEW ext \in ExtentsOf(f), NEW b \in BlocksOfExtent(ext), ~ ext.uninit
        PROVE  b \in Owned(files[f])
    <3>1. files[f].size # 0
      BY <1>2, <2>4 DEF EmptyHoldsNone, HoldsNone
    <3>2. PICK k \in DOMAIN files[f].extents : ext = files[f].extents[k]
      BY <1>2, <2>4 DEF ExtentsOf
    <3>. QED BY <2>4, <3>1, <3>2 DEF Owned
  <2>. QED BY <2>1, <2>2, <2>3, <2>4, LostByFile
<1>. QED BY <1>1, <1>2

LEMMA ShrinkLost ==
  ASSUME IInv, NEW f \in Files, NEW n \in NewSizes, files[f] # Absent, Shrink(f, n)
  PROVE  LostRight
<1>. DEFINE cut == Cutoff(n)
            old == files[f].extents
            left == Surviving(old, cut)
            freed == UNION {CutBlocks(ext, cut) : ext \in ExtentsOf(f)}
<1>1. cut \in Int
  BY CeilDivInt, FileDataAssumption DEF Cutoff
<1>2. IsLeaf(old)
  BY FileReads
<1>3. /\ blockBitmap' = blockBitmap \ freed
      /\ files'[f] = [size |-> n, extents |-> left] /\ OnlyFile(f)
  BY DEF Shrink, IInv, TypeOK, OnlyFile
<1>4. files'[f].extents = left
  BY <1>3
<1>5. \A ext \in ExtentsOf(f) :
        /\ ext \in ExtentType /\ CutBlocks(ext, cut) \subseteq BlocksOfExtent(ext)
        /\ \E k \in DOMAIN old : ext = old[k]
  BY <1>2 DEF ExtentsOf, IsLeaf, CutBlocks
<1>6. \A b \in freed : \E ext \in ExtentsOf(f) : b \in BlocksOfExtent(ext)
  BY <1>5
<1>7. ASSUME NEW x \in ExtentsOf(f)'
      PROVE  \E ext \in ExtentsOf(f) : BlocksOfExtent(x) \subseteq BlocksOfExtent(ext)
  <2>1. PICK k \in DOMAIN left : x = left[k]
    BY <1>4, <1>7 DEF ExtentsOf
  <2>2. /\ k \in DOMAIN old /\ Survives(old[k], cut)
        /\ x = Shortened(old[k], cut)
    BY <2>1 DEF Surviving
  <2>3. old[k] \in ExtentsOf(f) /\ old[k] \in ExtentType
    BY <1>2, <2>2 DEF ExtentsOf, IsLeaf
  <2>. HIDE DEF cut, old
  <2>. QED BY <1>1, <2>2, <2>3, ShortenedInside
<1>8. ASSUME NEW ext \in ExtentsOf(f), NEW b \in BlocksOfExtent(ext),
             ~ ext.uninit, b \notin freed
      PROVE  \E x \in ExtentsOf(f)' : b \in BlocksOfExtent(x)
  <2>1. PICK k \in DOMAIN old : ext = old[k] /\ ext \in ExtentType
    BY <1>5
  <2>2. b \notin CutBlocks(ext, cut)
    BY <1>8
  <2>. HIDE DEF cut
  <2>3. b \in Int /\ b >= ext.phys /\ b < ext.phys + ext.len
        /\ ext.phys \in Int /\ ext.len \in Int /\ ext.log \in Int
    BY <1>8, <2>1, FileDataAssumption DEF BlocksOfExtent, RunBits, ExtentType, Blocks
  <2>4. ext.log + (b - ext.phys) < cut
    BY <1>1, <1>8, <2>2, <2>3 DEF CutBlocks
  <2>5. Survives(ext, cut)
    BY <1>1, <2>3, <2>4 DEF Survives
  <2>6. b \in BlocksOfExtent(Shortened(ext, cut))
    <3>1. CASE ext.log + ext.len <= cut
      BY <1>8, <3>1 DEF Shortened
    <3>2. CASE ~ (ext.log + ext.len <= cut)
      <4>1. Shortened(ext, cut).phys = ext.phys /\ Shortened(ext, cut).len = cut - ext.log
        BY <2>1, <3>2 DEF Shortened, ExtentType
      <4>. QED BY <1>1, <2>3, <2>4, <4>1 DEF BlocksOfExtent, RunBits
    <3>. QED BY <3>1, <3>2
  <2>7. k \in DOMAIN left /\ left[k] = Shortened(ext, cut)
    BY <2>1, <2>5 DEF Surviving
  <2>8. files'[f] # Absent
    <3>1. \A j \in DOMAIN left : /\ j \in DOMAIN old /\ Survives(old[j], cut)
                                 /\ left[j] = Shortened(old[j], cut)
      BY DEF Surviving
    <3>2. \A j \in DOMAIN left : left[j] \in ExtentType
      BY <1>1, <1>2, <3>1, ShortenedInside DEF IsLeaf
    <3>3. left = [j \in DOMAIN left |-> left[j]]
      BY DEF Surviving
    <3>4. IsLeaf(left)
      BY <1>2, <3>1, <3>2, <3>3 DEF IsLeaf
    <3>. HIDE DEF left
    <3>5. IsFile([size |-> n, extents |-> left])
      BY <3>4, FileDataAssumption DEF IsFile
    <3>. QED BY <1>3, <3>5, FileIsThere
  <2>9. left[k] \in ExtentsOf(f)'
    <3>. HIDE DEF left
    <3>. QED BY <1>4, <2>7, <2>8 DEF ExtentsOf
  <2>. QED BY <2>6, <2>7, <2>9
<1>. HIDE DEF freed, cut, old, left
<1>. QED BY <1>3, <1>6, <1>7, <1>8, LostByFile

LEMMA StepLost ==
  LengthsFit /\ IInv /\ EmptyHoldsNone /\ [FileNext]_fileVars => LostRight
<1>. SUFFICES ASSUME LengthsFit, IInv, EmptyHoldsNone, [FileNext]_fileVars
     PROVE  LostRight
  OBVIOUS
<1>1. CASE UNCHANGED <<blockBitmap, files>>
  BY <1>1, LostSame
<1>2. ASSUME NEW f \in Files, NEW data \in Payloads, CreateFile(f, data)
      PROVE  LostRight
  BY <1>2, CreateLost
<1>3. ASSUME NEW f \in Files, Unlink(f) PROVE LostRight
  BY <1>3, UnlinkLost
<1>4. ASSUME NEW f \in Files, NEW n \in NewSizes, Truncate(f, n) PROVE LostRight
  <2>1. CASE files[f] # Absent /\ Shrink(f, n)
    BY <2>1, ShrinkLost
  <2>2. CASE /\ files[f] # Absent
             /\ files' = [files EXCEPT ![f].size = n] /\ blockBitmap' = blockBitmap
    <3>1. IsFile(files[f])
      BY <2>2, FileReads
    <3>2. files'[f] = [files[f] EXCEPT !.size = n] /\ OnlyFile(f)
      BY <2>2 DEF IInv, TypeOK, OnlyFile
    <3>3. files'[f].extents = files[f].extents
      BY <3>1, <3>2 DEF IsFile
    <3>4. files'[f] # Absent
      <4>1. IsFile(files'[f])
        BY <3>1, <3>2, FileDataAssumption DEF IsFile
      <4>. QED BY <4>1, FileIsThere
    <3>5. ExtentsOf(f)' = ExtentsOf(f)
      BY <2>2, <3>3, <3>4 DEF ExtentsOf
    <3>6. PICK freed : freed = {}
      OBVIOUS
    <3>7. /\ \A x \in ExtentsOf(f)' : \E ext \in ExtentsOf(f) :
               BlocksOfExtent(x) \subseteq BlocksOfExtent(ext)
          /\ \A ext \in ExtentsOf(f) : \A b \in BlocksOfExtent(ext) :
               \E x \in ExtentsOf(f)' : b \in BlocksOfExtent(x)
      BY <3>5, Zenon
    <3>8. /\ blockBitmap' = blockBitmap \ freed
          /\ \A b \in freed : \E ext \in ExtentsOf(f) : b \in BlocksOfExtent(ext)
      BY <2>2, <3>6
    <3>9. OnlyFile(f)
      BY <3>2
    <3>. QED BY <3>7, <3>8, <3>9, LostByFile
  <2>. QED BY <1>1, <1>4, <2>1, <2>2 DEF Truncate, Grow, Refuse
<1>. QED BY <1>1, <1>2, <1>3, <1>4 DEF FileNext, fileVars

(* What no file maps stays allocated for good, and a call that succeeds    *)
(* strands no block but those of uninitialized extents, which unlink and   *)
(* truncate pass over, if what the other writer left empty is empty.       *)
THEOREM StrandsOnlyUninit ==
  LengthsFit /\ ForeignEmptyHoldsNone => (FileSpec => OnlyUninitIsLost)
<1>. SUFFICES ASSUME LengthsFit, ForeignEmptyHoldsNone
     PROVE  FileSpec => OnlyUninitIsLost
  OBVIOUS
<1>1. FileInit => EmptyHoldsNone
  BY InitEmpty
<1>2. IInv /\ EmptyHoldsNone /\ [FileNext]_fileVars =>
        [/\ Lost \subseteq Lost'
         /\ outcome' = "ok" => Lost' \ Lost \subseteq Uninitialized]_fileVars
  BY StepLost DEF LostRight
<1>. QED BY InitIInv, StepIInv, StepEmpty, <1>1, <1>2, PTL
         DEF FileSpec, OnlyUninitIsLost

-----------------------------------------------------------------------------
(* What lies past the end of a file.                                       *)

(* A leaf maps no logical block twice. *)
Apart(x, y) ==
  \/ x.len = 0 \/ y.len = 0
  \/ x.log + x.len <= y.log \/ y.log + y.len <= x.log
LeafApart(extents) ==
  \A j \in DOMAIN extents : \A k \in DOMAIN extents \ {j} : Apart(extents[j], extents[k])
LeavesApart == \A f \in Files : files[f] # Absent => LeafApart(files[f].extents)
ForeignApart == \A rec \in ForeignFiles : LeafApart(rec.extents)

LEMMA InitApart == ForeignApart /\ FileInit => LeavesApart
<1>. SUFFICES ASSUME ForeignApart, FileInit, NEW f \in Files, files[f] # Absent
     PROVE  LeafApart(files[f].extents)
  BY DEF LeavesApart
<1>1. PICK g \in Files, rec \in ForeignFiles :
        files = [h \in Files |-> IF h = g THEN rec ELSE Absent]
  BY DEF FileInit
<1>2. files[f] = rec
  BY <1>1
<1>. QED BY <1>2, Zenon DEF ForeignApart

LEMMA CutApart ==
  ASSUME NEW extents, IsLeaf(extents), LeafApart(extents), NEW cut \in Int
  PROVE  /\ LeafApart(Surviving(extents, cut))
         /\ \A j \in DOMAIN Surviving(extents, cut) :
              LET ext == Surviving(extents, cut)[j] IN
              ext.log \in Nat /\ ext.len \in Nat /\ ext.log + ext.len <= cut
<1>. DEFINE left == Surviving(extents, cut)
<1>1. \A j \in DOMAIN left : /\ j \in DOMAIN extents
                             /\ Survives(extents[j], cut)
                             /\ left[j] = Shortened(extents[j], cut)
  BY DEF Surviving
<1>2. ASSUME NEW j \in DOMAIN left
      PROVE  /\ left[j].log = extents[j].log
             /\ left[j].len \in 0 .. extents[j].len
             /\ left[j].log + left[j].len <= cut
             /\ extents[j].log \in Nat /\ extents[j].len \in Nat
  <2>1. extents[j] \in ExtentType
    BY <1>1 DEF IsLeaf
  <2>2. extents[j].log \in Nat /\ extents[j].len \in Nat
    BY <2>1 DEF ExtentType
  <2>3. CASE extents[j].log + extents[j].len <= cut
    <3>1. left[j] = extents[j]
      BY <1>1, <2>3 DEF Shortened
    <3>. HIDE DEF left
    <3>. QED BY <2>2, <2>3, <3>1
  <2>4. CASE ~ (extents[j].log + extents[j].len <= cut)
    <3>1. extents[j].log < cut
      BY <1>1, <2>4 DEF Survives
    <3>2. left[j] = [extents[j] EXCEPT !.len = cut - extents[j].log]
      BY <1>1, <2>4 DEF Shortened
    <3>3. left[j].log = extents[j].log /\ left[j].len = cut - extents[j].log
      BY <2>1, <3>2 DEF ExtentType
    <3>. HIDE DEF left
    <3>. QED BY <2>2, <2>4, <3>1, <3>3
  <2>. QED BY <2>3, <2>4
<1>. HIDE DEF left
<1>3. LeafApart(left)
  <2>. SUFFICES ASSUME NEW j \in DOMAIN left, NEW k \in DOMAIN left \ {j}
       PROVE  Apart(left[j], left[k])
    BY DEF LeafApart
  <2>1. Apart(extents[j], extents[k])
    BY <1>1 DEF LeafApart
  <2>. QED BY <1>2, <2>1 DEF Apart
<1>. QED BY <1>2, <1>3 DEF left

LEMMA StepApart == IInv /\ LeavesApart /\ [FileNext]_fileVars => LeavesApart'
<1>. SUFFICES ASSUME IInv, LeavesApart, [FileNext]_fileVars PROVE LeavesApart'
  OBVIOUS
<1>1. CASE UNCHANGED files
  BY <1>1 DEF LeavesApart
<1>2. ASSUME NEW f \in Files, OnlyFile(f),
             files'[f] # Absent => LeafApart(files'[f].extents)
      PROVE  LeavesApart'
  BY <1>2 DEF LeavesApart, OnlyFile
<1>3. ASSUME NEW f \in Files, NEW data \in Payloads, CreateFile(f, data)
      PROVE  LeavesApart'
  <2>. DEFINE n == CeilDiv(Len(data), BlockSize)
  <2>1. CASE CreateEmpty(f, data)
    <3>1. files'[f] = [size |-> 0, extents |-> <<>>] /\ OnlyFile(f)
      BY <2>1 DEF CreateEmpty, IInv, TypeOK, OnlyFile
    <3>. QED BY <1>2, <3>1 DEF LeafApart
  <2>2. CASE CreateFull(f, data, n)
    <3>1. PICK e : files' = [files EXCEPT ![f] = [size |-> Len(data), extents |-> <<e>>]]
      BY <2>2 DEF CreateFull
    <3>2. files'[f] = [size |-> Len(data), extents |-> <<e>>] /\ OnlyFile(f)
      BY <3>1 DEF IInv, TypeOK, OnlyFile
    <3>. QED BY <1>2, <3>2 DEF LeafApart
  <2>3. CASE UNCHANGED files
    BY <1>1, <2>3
  <2>. QED BY <1>3, <2>1, <2>2, <2>3
           DEF CreateFile, CreateNoRoom, CreateUnencodable, Refuse
<1>4. ASSUME NEW f \in Files, Unlink(f) PROVE LeavesApart'
  <2>1. CASE files' = [files EXCEPT ![f] = Absent]
    <3>1. files'[f] = Absent /\ OnlyFile(f)
      BY <2>1 DEF IInv, TypeOK, OnlyFile
    <3>. QED BY <1>2, <3>1
  <2>. QED BY <1>1, <1>4, <2>1 DEF Unlink, Refuse
<1>5. ASSUME NEW f \in Files, NEW n \in NewSizes, Truncate(f, n) PROVE LeavesApart'
  <2>1. CASE files[f] # Absent /\ files' = [files EXCEPT ![f].size = n]
    <3>1. IsFile(files[f])
      BY <2>1, FileReads
    <3>2. files'[f] = [files[f] EXCEPT !.size = n] /\ OnlyFile(f)
      BY <2>1 DEF IInv, TypeOK, OnlyFile
    <3>3. files'[f].extents = files[f].extents
      BY <3>1, <3>2 DEF IsFile
    <3>. QED BY <1>2, <2>1, <3>2, <3>3 DEF LeavesApart
  <2>2. CASE files[f] # Absent /\ Shrink(f, n)
    <3>. DEFINE left == Surviving(files[f].extents, Cutoff(n))
    <3>1. files' = [files EXCEPT ![f] = [size |-> n, extents |-> left]]
      BY <2>2 DEF Shrink
    <3>2. files'[f] = [size |-> n, extents |-> left] /\ OnlyFile(f)
      BY <3>1 DEF IInv, TypeOK, OnlyFile
    <3>3. LeafApart(left)
      BY <2>2, CutApart, FileReads, CeilDivInt, FileDataAssumption DEF LeavesApart, Cutoff
    <3>. HIDE DEF left
    <3>. QED BY <1>2, <3>2, <3>3
  <2>. QED BY <1>1, <1>5, <2>1, <2>2 DEF Truncate, Grow, Refuse
<1>. QED BY <1>1, <1>3, <1>4, <1>5 DEF FileNext, fileVars

(* Four intervals below a bound, no two of them with a point in common,    *)
(* are together no longer than the bound.                                  *)
IntervalsApart(a, l, b, m) == l = 0 \/ m = 0 \/ a + l <= b \/ b + m <= a

SlotLog(extents, k) == IF k \in DOMAIN extents THEN extents[k].log ELSE 0

LEMMA LensNat ==
  ASSUME NEW extents, IsLeaf(extents)
  PROVE  /\ \A k \in 1 .. 4 : SlotLen(extents, k) \in Nat /\ SlotLog(extents, k) \in Nat
         /\ Lens(extents) \in Nat
<1>1. \A k \in 1 .. 4 : SlotLen(extents, k) \in Nat /\ SlotLog(extents, k) \in Nat
  BY DEF SlotLen, SlotLog, IsLeaf, ExtentType
<1>. QED BY <1>1 DEF Lens

(* What a cut leaves is no longer than the cutoff. *)
LEMMA CutLens ==
  ASSUME NEW extents, IsLeaf(extents), LeafApart(extents), NEW cut \in Nat,
         IsLeaf(Surviving(extents, cut))
  PROVE  Lens(Surviving(extents, cut)) <= cut
<1>. PICK left : left = Surviving(extents, cut)
  OBVIOUS
<1>. cut \in Int
  OBVIOUS
<1>1. IsLeaf(left) /\ LeafApart(left)
  BY CutApart
<1>2. \A j \in DOMAIN left : left[j].log + left[j].len <= cut
  <2>1. \A j \in DOMAIN Surviving(extents, cut) :
          Surviving(extents, cut)[j].log + Surviving(extents, cut)[j].len <= cut
    BY CutApart, Zenon
  <2>. QED BY <2>1, Zenon
<1>3. \A k \in 1 .. 4 : SlotLen(left, k) \in Nat /\ SlotLog(left, k) \in Nat
  BY <1>1, LensNat
<1>4. \A k \in 1 .. 4 : SlotLog(left, k) + SlotLen(left, k) <= cut
  BY <1>2 DEF SlotLog, SlotLen
<1>5. \A j, k \in 1 .. 4 : j # k =>
        IntervalsApart(SlotLog(left, j), SlotLen(left, j), SlotLog(left, k), SlotLen(left, k))
  BY <1>1 DEF LeafApart, Apart, IntervalsApart, SlotLog, SlotLen
<1>. PICK a1, a2, a3, a4, l1, l2, l3, l4 :
       /\ a1 = SlotLog(left, 1) /\ a2 = SlotLog(left, 2)
       /\ a3 = SlotLog(left, 3) /\ a4 = SlotLog(left, 4)
       /\ l1 = SlotLen(left, 1) /\ l2 = SlotLen(left, 2)
       /\ l3 = SlotLen(left, 3) /\ l4 = SlotLen(left, 4)
  OBVIOUS
<1>6. /\ a1 \in Nat /\ a2 \in Nat /\ a3 \in Nat /\ a4 \in Nat
      /\ l1 \in Nat /\ l2 \in Nat /\ l3 \in Nat /\ l4 \in Nat
      /\ a1 + l1 <= cut /\ a2 + l2 <= cut /\ a3 + l3 <= cut /\ a4 + l4 <= cut
  BY <1>3, <1>4
<1>7. /\ IntervalsApart(a1, l1, a2, l2) /\ IntervalsApart(a1, l1, a3, l3)
      /\ IntervalsApart(a1, l1, a4, l4) /\ IntervalsApart(a2, l2, a3, l3)
      /\ IntervalsApart(a2, l2, a4, l4) /\ IntervalsApart(a3, l3, a4, l4)
  BY <1>5
<1>8. l1 + l2 + l3 + l4 <= cut
  BY <1>6, <1>7, SMTT(60) DEF IntervalsApart
<1>. QED BY <1>8 DEF Lens

-----------------------------------------------------------------------------
(* No call writes an allocated block. *)
LEMMA StepKeepsBytes ==
  ASSUME IInv, [FileNext]_fileVars
  PROVE  \A b \in blockBitmap : bytes'[b] = bytes[b]
<1>1. CASE bytes' = bytes
  BY <1>1
<1>2. ASSUME NEW data \in Payloads, NEW n, NEW s \in Blocks, n \in Int, n > 0,
             IsFirstFreeRun(blockBitmap, s, n, NumBlocks), bytes' = Filled(data, s, n)
      PROVE  \A b \in blockBitmap : bytes'[b] = bytes[b]
  BY <1>2 DEF Filled, IInv, TypeOK, IsFirstFreeRun, IsFreeRun
<1>3. ASSUME NEW f \in Files, NEW data \in Payloads, CreateFile(f, data)
      PROVE  \A b \in blockBitmap : bytes'[b] = bytes[b]
  <2>1. CeilDiv(Len(data), BlockSize) \in Int
    BY CeilDivInt, FileDataAssumption
  <2>. QED BY <1>1, <1>2, <1>3, <2>1
           DEF CreateFile, CreateFull, CreateEmpty, CreateNoRoom, CreateUnencodable, Refuse
<1>. QED BY <1>1, <1>3 DEF FileNext, Unlink, Truncate, Grow, Shrink, Refuse, fileVars

LEMMA PastLength ==
  ASSUME NEW n \in Nat, NEW pos \in 1 .. (n * BlockSize)
  PROVE  (pos - 1) \div BlockSize < n
<1>. DEFINE q == (pos - 1) \div BlockSize
<1>1. n * BlockSize \in Nat
  BY FileDataAssumption
<1>2. q \in Nat /\ q * BlockSize <= pos - 1
  BY <1>1, PositionSplit, FileDataAssumption
<1>. HIDE DEF q
<1>3. n <= q => n * BlockSize <= q * BlockSize
  BY <1>2, FileDataAssumption, Z3
<1>4. q * BlockSize \in Int
  BY <1>2, FileDataAssumption
<1>5. q < n
  BY <1>1, <1>2, <1>3, <1>4
<1>. QED BY <1>5 DEF q

(* A file that stays keeps the bytes of the blocks that stay with it. *)
LEMMA KeepsUnlessCut ==
  ASSUME IInv, NEW f \in Files, files[f] # Absent,
         files'[f].extents = files[f].extents,
         \A b \in blockBitmap : bytes'[b] = bytes[b]
  PROVE  KeepsItsBytes(f)
<1>1. IsLeaf(files[f].extents) /\ Reads(files[f].extents) \subseteq blockBitmap
  BY FileReads
<1>2. Capacity(files[f]) \in Nat
  <2>1. Lens(files[f].extents) \in Nat
    BY <1>1, LensNat
  <2>. QED BY <2>1, FileDataAssumption DEF Capacity
<1>. SUFFICES ASSUME NEW pos \in 1 .. Capacity(files[f])
     PROVE  ByteAt(files[f].extents, pos)' = ByteAt(files[f].extents, pos)
  BY DEF KeepsItsBytes
<1>. PICK leaf : leaf = files[f].extents
  OBVIOUS
<1>3. ByteAt(leaf, pos)' = ByteAt(leaf, pos)
  BY <1>1, <1>2, SameBytes
<1>4. ByteAt(files[f].extents, pos)' = ByteAt(leaf, pos)'
  BY Zenon DEF ByteAt
<1>. QED BY <1>3, <1>4

LEMMA KeepsWhenCut ==
  ASSUME IInv, IInv', LeavesApart, NEW f \in Files, NEW n \in NewSizes,
         files[f] # Absent, files'[f] # Absent, Shrink(f, n)
  PROVE  KeepsItsBytes(f)
<1>. PICK leaf, cut : leaf = files[f].extents /\ cut = Cutoff(n)
  OBVIOUS
<1>. PICK left : left = Surviving(leaf, cut)
  OBVIOUS
<1>1. /\ IsLeaf(leaf) /\ Reads(leaf) \subseteq blockBitmap /\ LeafApart(leaf)
      /\ Lens(leaf) \in Nat
  BY FileReads, LensNat DEF LeavesApart
<1>2. cut \in Nat
  BY FileDataAssumption, Z3 DEF Cutoff, CeilDiv
<1>3. bytes' = bytes /\ files'[f] = [size |-> n, extents |-> left]
  BY DEF Shrink, IInv, TypeOK
<1>4. files'[f].size = n /\ files'[f].extents = left
  BY <1>3
<1>5. IsLeaf(left)
  <2>1. IsFile(files'[f])
    BY DEF IInv, TypeOK
  <2>. QED BY <1>4, <2>1 DEF IsFile
<1>6. Lens(left) \in Nat /\ Lens(left) <= cut
  BY <1>1, <1>2, <1>5, CutLens, LensNat
<1>7. Capacity(files[f]) \in Nat /\ Capacity(files[f]) <= Lens(leaf) * BlockSize
  BY <1>1, FileDataAssumption DEF Capacity
<1>8. Capacity(files[f])' \in Nat /\ Capacity(files[f])' <= Lens(left) * BlockSize
  BY <1>4, <1>6, FileDataAssumption DEF Capacity
<1>. SUFFICES ASSUME NEW pos \in 1 .. Capacity(files[f]), pos <= Capacity(files[f])'
     PROVE  ByteAt(files[f].extents, pos)' = ByteAt(files[f].extents, pos)
  BY DEF KeepsItsBytes
<1>9. pos \in Nat \ {0} /\ pos \in 1 .. (Lens(left) * BlockSize)
  BY <1>6, <1>7, <1>8, FileDataAssumption
<1>10. (pos - 1) \div BlockSize < cut /\ (pos - 1) \div BlockSize \in Int
  BY <1>2, <1>6, <1>9, PastLength, PositionSplit
<1>11. Resolve(left, (pos - 1) \div BlockSize) = Resolve(leaf, (pos - 1) \div BlockSize)
  BY <1>1, <1>2, <1>10, CutKeepsBelow
<1>12. ByteAt(left, pos)' = ByteAt(leaf, pos)
  BY <1>3, <1>11, Zenon DEF ByteAt
<1>13. ByteAt(files[f].extents, pos)' = ByteAt(left, pos)'
  BY <1>4, Zenon DEF ByteAt
<1>. QED BY <1>12, <1>13

-----------------------------------------------------------------------------
(* A file begins with zeros past its end. *)
LEMMA EmptySlack ==
  ASSUME NEW f \in Files, files'[f] = [size |-> 0, extents |-> <<>>]
  PROVE  SlackIsZero(f)'
<1>1. files'[f].size = 0
  OBVIOUS
<1>2. Capacity(files[f])' = 0
  BY <1>1 DEF Capacity
<1>3. (files[f].size + 1)' .. Capacity(files[f])' = {}
  BY <1>1, <1>2
<1>. QED BY <1>1, <1>2, <1>3 DEF SlackIsZero, SlackBytes

LEMMA OneLens ==
  ASSUME NEW leaf, DOMAIN leaf = {1}, NEW n \in Nat, leaf[1].len = n
  PROVE  Lens(leaf) = n
  BY DEF Lens, SlotLen

LEMMA FullSlack ==
  ASSUME LengthsFit, IInv, NEW f \in Files, NEW data \in Payloads,
         NEW n \in Int, n = CeilDiv(Len(data), BlockSize), CreateFull(f, data, n)
  PROVE  SlackIsZero(f)'
<1>1. Len(data) \in Nat /\ n \in Nat \ {0} /\ Encodable(n)
  BY FileDataAssumption DEF CreateFull
<1>2. PICK s \in Blocks :
        /\ IsFirstFreeRun(blockBitmap, s, n, NumBlocks)
        /\ bytes' = Filled(data, s, n)
        /\ files' = [files EXCEPT ![f] =
             [size |-> Len(data), extents |-> <<Extent(0, n % LenModulus, s, FALSE)>>]]
  BY DEF CreateFull
<1>3. n % LenModulus = n /\ RunBits(s, n) \subseteq Blocks
  BY <1>1, <1>2, RunFits
<1>. PICK e : e = Extent(0, n, s, FALSE)
  OBVIOUS
<1>. PICK leaf : leaf = <<e>>
  OBVIOUS
<1>4. files' = [files EXCEPT ![f] = [size |-> Len(data), extents |-> leaf]]
  BY <1>2, <1>3
<1>5. files'[f].size = Len(data) /\ files'[f].extents = leaf
  BY <1>4 DEF IInv, TypeOK
<1>6. Lens(leaf) = n
  <2>1. DOMAIN leaf = {1} /\ leaf[1] = e /\ e.len = n
    <3>1. DOMAIN <<e>> = {1} /\ <<e>>[1] = e
      OBVIOUS
    <3>2. Extent(0, n, s, FALSE).len = n
      BY DEF Extent
    <3>. QED BY <3>1, <3>2, Zenon
  <2>2. leaf[1].len = n
    BY <2>1, Zenon
  <2>. QED BY <1>1, <2>1, <2>2, OneLens
<1>. PICK room : room = n * BlockSize
  OBVIOUS
<1>7. room \in Nat /\ Capacity(files[f])' \in 0 .. room
  BY <1>1, <1>5, <1>6, FileDataAssumption DEF Capacity
<1>8. ASSUME NEW pos \in (Len(data) + 1) .. Capacity(files[f])'
      PROVE  ByteAt(files[f].extents, pos)' = 0
  <2>1. pos \in 1 .. room /\ pos \in Nat \ {0} /\ ~ (pos <= Len(data))
    BY <1>1, <1>7
  <2>2. (pos - 1) \div BlockSize < n
    BY <1>1, <2>1, PastLength
  <2>3. ByteAt(<<Extent(0, n, s, FALSE)>>, pos)' =
          IF pos <= Len(data) THEN data[pos] ELSE 0
    BY <1>1, <1>2, <1>3, <2>1, <2>2, FilledReads
  <2>4. ByteAt(leaf, pos)' = 0
    BY <2>1, <2>3
  <2>5. ByteAt(files[f].extents, pos)' = ByteAt(leaf, pos)'
    BY <1>5, Zenon DEF ByteAt
  <2>. QED BY <2>4, <2>5
<1>9. SlackBytes(files[f])' \subseteq {0}
  BY <1>5, <1>8, Zenon DEF SlackBytes
<1>. QED BY <1>9 DEF SlackIsZero

LEMMA AbsentSlack ==
  ASSUME NEW f \in Files, files'[f] = Absent
  PROVE  SlackIsZero(f)'
  BY DEF SlackIsZero

(* What SlackIsOwn says of one file. *)
SlackRight(f) ==
  IF files[f] = Absent THEN SlackIsZero(f)'
  ELSE files'[f] # Absent => KeepsItsBytes(f)

LEMMA UntouchedSlack ==
  ASSUME IInv, NEW f \in Files, files'[f] = files[f],
         \A b \in blockBitmap : bytes'[b] = bytes[b]
  PROVE  SlackRight(f)
<1>1. CASE files[f] = Absent
  BY <1>1, AbsentSlack DEF SlackRight
<1>2. CASE files[f] # Absent
  <2>1. KeepsItsBytes(f)
    BY <1>2, KeepsUnlessCut
  <2>. QED BY <1>2, <2>1 DEF SlackRight
<1>. QED BY <1>1, <1>2

LEMMA StepSlack ==
  ASSUME LengthsFit, IInv, IInv', LeavesApart, [FileNext]_fileVars
  PROVE  \A f \in Files : SlackRight(f)
<1>0. \A b \in blockBitmap : bytes'[b] = bytes[b]
  BY StepKeepsBytes
<1>1. CASE UNCHANGED files
  BY <1>0, <1>1, UntouchedSlack
<1>2. ASSUME NEW f \in Files, OnlyFile(f), SlackRight(f)
      PROVE  \A g \in Files : SlackRight(g)
  BY <1>0, <1>2, UntouchedSlack DEF OnlyFile
<1>3. ASSUME NEW f \in Files, NEW data \in Payloads, CreateFile(f, data)
      PROVE  \A g \in Files : SlackRight(g)
  <2>. PICK n : n = CeilDiv(Len(data), BlockSize)
    OBVIOUS
  <2>1. n \in Int
    BY CeilDivInt, FileDataAssumption
  <2>2. CASE CreateEmpty(f, data) /\ files[f] = Absent
    <3>1. files'[f] = [size |-> 0, extents |-> <<>>] /\ OnlyFile(f)
      BY <2>2 DEF CreateEmpty, IInv, TypeOK, OnlyFile
    <3>. QED BY <1>2, <2>2, <3>1, EmptySlack DEF SlackRight
  <2>3. CASE CreateFull(f, data, n) /\ files[f] = Absent
    <3>1. PICK rec : files' = [files EXCEPT ![f] = rec]
      BY <2>3 DEF CreateFull
    <3>2. OnlyFile(f)
      BY <3>1 DEF IInv, TypeOK, OnlyFile
    <3>3. SlackIsZero(f)'
      BY <2>1, <2>3, FullSlack
    <3>. QED BY <1>2, <2>3, <3>2, <3>3 DEF SlackRight
  <2>. QED BY <1>1, <1>3, <2>2, <2>3
           DEF CreateFile, CreateNoRoom, CreateUnencodable, Refuse
<1>4. ASSUME NEW f \in Files, Unlink(f) PROVE \A g \in Files : SlackRight(g)
  <2>1. CASE files[f] # Absent /\ files' = [files EXCEPT ![f] = Absent]
    <3>1. files'[f] = Absent /\ OnlyFile(f)
      BY <2>1 DEF IInv, TypeOK, OnlyFile
    <3>. QED BY <1>2, <2>1, <3>1 DEF SlackRight
  <2>. QED BY <1>1, <1>4, <2>1 DEF Unlink, Refuse
<1>5. ASSUME NEW f \in Files, NEW n \in NewSizes, Truncate(f, n)
      PROVE  \A g \in Files : SlackRight(g)
  <2>1. CASE files[f] # Absent /\ files' = [files EXCEPT ![f].size = n]
    <3>1. IsFile(files[f])
      BY <2>1, FileReads
    <3>2. files'[f] = [files[f] EXCEPT !.size = n] /\ OnlyFile(f)
      BY <2>1 DEF IInv, TypeOK, OnlyFile
    <3>3. files'[f].extents = files[f].extents
      BY <3>1, <3>2 DEF IsFile
    <3>4. KeepsItsBytes(f)
      BY <1>0, <2>1, <3>3, KeepsUnlessCut
    <3>. QED BY <1>2, <2>1, <3>2, <3>4 DEF SlackRight
  <2>2. CASE files[f] # Absent /\ Shrink(f, n)
    <3>. DEFINE rec == [size |-> n, extents |-> Surviving(files[f].extents, Cutoff(n))]
    <3>1. files' = [files EXCEPT ![f] = rec]
      BY <2>2 DEF Shrink
    <3>2. OnlyFile(f)
      BY <3>1 DEF IInv, TypeOK, OnlyFile
    <3>3. files'[f] # Absent => KeepsItsBytes(f)
      BY <2>2, KeepsWhenCut
    <3>. QED BY <1>2, <2>2, <3>2, <3>3 DEF SlackRight
  <2>. QED BY <1>1, <1>5, <2>1, <2>2 DEF Truncate, Grow, Refuse
<1>. QED BY <1>1, <1>3, <1>4, <1>5 DEF FileNext, fileVars

(* Past its end a new file holds zeros, and no call changes a byte of a    *)
(* file's blocks: what a later grow shows is zeros or the file's own.  For *)
(* images of at most 65536 blocks, on which create_file's 16-bit length is *)
(* the number of blocks, and foreign leaves that map no logical block      *)
(* twice.                                                                  *)
THEOREM SlackStaysOwn ==
  LengthsFit /\ ForeignApart => (FileSpec => SlackIsOwn)
<1>. SUFFICES ASSUME LengthsFit, ForeignApart PROVE FileSpec => SlackIsOwn
  OBVIOUS
<1>1. FileInit => LeavesApart
  BY InitApart
<1>2. IInv /\ LeavesApart /\ IInv' /\ [FileNext]_fileVars =>
        [\A f \in Files :
           IF files[f] = Absent THEN SlackIsZero(f)'
           ELSE files'[f] # Absent => KeepsItsBytes(f)]_fileVars
  BY StepSlack DEF SlackRight
<1>. QED BY InitIInv, StepIInv, StepApart, <1>1, <1>2, PTL
         DEF FileSpec, SlackIsOwn
=============================================================================
