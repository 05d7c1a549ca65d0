---------------------------- MODULE Mkfs_proofs -----------------------------
(***************************************************************************)
(* A formatted image keeps its layout and its counts, for every Regular    *)
(* configuration (blocks of more than 1 KiB, an image and an inode table   *)
(* of one group, free counts of 16 bits) and every sequence of calls.      *)
(*                                                                         *)
(* First the codecs, then slots put over slots, the layout, and last one   *)
(* lemma per action.                                                       *)
(***************************************************************************)
EXTENDS Mkfs, FiniteSetTheorems, TLAPS

-----------------------------------------------------------------------------
(* The codecs: what was encoded is decoded, as long as it fits the fields. *)
LEMMA HalvesJoin ==
  ASSUME NEW v \in Nat, v < Word * Word
  PROVE  Lo(v) + Word * Hi(v) = v
<1>. DEFINE q == v \div Word
<1>0. Word \in Nat /\ Word > 0
  BY MkfsAssumption
<1>1. v = Word * q + (v % Word) /\ v % Word \in 0 .. (Word - 1) /\ q \in Nat
  BY <1>0
<1>2. q < Word
  BY <1>0, <1>1
<1>3. q % Word = q
  BY <1>0, <1>1, <1>2
<1>. QED
  BY <1>0, <1>1, <1>3 DEF Lo, Hi

LEMMA WordHolds ==
  ASSUME NEW v \in Nat, v < Word
  PROVE  Lo(v) = v
BY MkfsAssumption DEF Lo

SizeOf(k) == 32 * 2 ^ k

LEMMA SizesAre ==
  /\ SizeOf(0) = 32 /\ SizeOf(1) = 64 /\ SizeOf(2) = 128 /\ SizeOf(3) = 256
  /\ SizeOf(4) = 512 /\ SizeOf(5) = 1024 /\ SizeOf(6) = 2048
BY DEF SizeOf

LEMMA LogIs ==
  ASSUME NEW bs \in {64, 128, 2048}
  PROVE  Log(bs) \in {1, 2, 6} /\ 32 * 2 ^ Log(bs) = bs
<1>. DEFINE k == Log(bs)
<1>1. \E j \in 0 .. 6 : SizeOf(j) = bs
  BY SizesAre
<1>2. k \in 0 .. 6 /\ SizeOf(k) = bs
  BY <1>1 DEF Log, SizeOf
<1>. HIDE DEF k
<1>3. k \in {1, 2, 6}
  BY <1>2, SizesAre
<1>. QED
  BY <1>2, <1>3 DEF k, SizeOf

(* What the superblock has room for. *)
SbFields ==
  [blockSize : {64, 128, 2048}, inodesCount : Nat, blocksCount : Nat,
   freeBlocks : Nat, freeInodes : Nat, firstDataBlock : {0},
   blocksPerGroup : Nat, inodesPerGroup : Nat]

SbRoom(s) ==
  /\ s \in SbFields
  /\ s.inodesCount < Word * Word /\ s.blocksCount < Word * Word
  /\ s.freeBlocks < Word * Word /\ s.freeInodes < Word * Word
  /\ s.blocksPerGroup < Word * Word /\ s.inodesPerGroup < Word * Word

GdFields ==
  [blockBitmap : {2}, inodeBitmap : {3}, inodeTable : {4},
   freeBlocks : Nat, freeInodes : Nat, usedDirs : {1}]

GdRoom(g) == g \in GdFields /\ g.freeBlocks < Word /\ g.freeInodes < Word

LEMMA SbLength ==
  ASSUME NEW s PROVE Len(EncodeSb(s)) = 32
BY DEF EncodeSb

LEMMA SbDecodes ==
  ASSUME NEW s, SbRoom(s)
  PROVE  LET w == EncodeSb(s)[1].val
             v == EncodeSb(s)[2].val
         IN  /\ EncodeSb(s)[1].kind = "words" /\ EncodeSb(s)[2].kind = "words"
             /\ DecodeSb(w, v) = s
             /\ At(v, 24) = Magic /\ At32(w, 24) \in {0, 1, 2, 6}
<1>. DEFINE log == Log(s.blockSize)
            w == <<Lo(s.inodesCount), Hi(s.inodesCount),
                   Lo(s.blocksCount), Hi(s.blocksCount), 0, 0,
                   Lo(s.freeBlocks), Hi(s.freeBlocks),
                   Lo(s.freeInodes), Hi(s.freeInodes),
                   Lo(s.firstDataBlock), Hi(s.firstDataBlock), log, 0, log, 0>>
            v == <<Lo(s.blocksPerGroup), Hi(s.blocksPerGroup),
                   Lo(s.blocksPerGroup), Hi(s.blocksPerGroup),
                   Lo(s.inodesPerGroup), Hi(s.inodesPerGroup),
                   0, 0, 0, 0, 0, 0, Magic, 0, 0, 0>>
<1>1. EncodeSb(s)[1] = Slot("words", w) /\ EncodeSb(s)[2] = Slot("words", v)
  BY DEF EncodeSb
<1>2. log \in {1, 2, 6} /\ 32 * 2 ^ log = s.blockSize
  BY LogIs DEF SbRoom, SbFields
<1>3. Word \in Nat /\ Word > 0
  BY MkfsAssumption
<1>4. /\ At32(w, 0) = s.inodesCount /\ At32(w, 4) = s.blocksCount
      /\ At32(w, 12) = s.freeBlocks /\ At32(w, 16) = s.freeInodes
  BY HalvesJoin DEF SbRoom, SbFields, At32, At
<1>5. At32(w, 20) = 0
  <2>1. s.firstDataBlock = 0 /\ 0 < Word * Word
    BY <1>3 DEF SbRoom, SbFields
  <2>. QED
    BY <2>1, HalvesJoin DEF At32, At
<1>6. At32(w, 24) = log
  BY <1>2, <1>3 DEF At32, At
<1>7. At32(v, 0) = s.blocksPerGroup /\ At32(v, 8) = s.inodesPerGroup
  BY HalvesJoin DEF SbRoom, SbFields, At32, At
<1>8. At(v, 24) = Magic
  BY DEF At
<1>. HIDE DEF w, v, log
<1>9. DecodeSb(w, v) = s
  BY <1>2, <1>4, <1>5, <1>6, <1>7 DEF DecodeSb, SbRoom, SbFields
<1>. QED
  BY <1>1, <1>2, <1>6, <1>8, <1>9 DEF Slot

LEMMA GdDecodes ==
  ASSUME NEW g, GdRoom(g), 4 < Word * Word
  PROVE  /\ Len(EncodeGd(g)) = 1 /\ EncodeGd(g)[1].kind = "words"
         /\ DecodeGd(EncodeGd(g)[1].val) = g
<1>. DEFINE w == << Lo(g.blockBitmap), Hi(g.blockBitmap),
                    Lo(g.inodeBitmap), Hi(g.inodeBitmap),
                    Lo(g.inodeTable), Hi(g.inodeTable),
                    Lo(g.freeBlocks), Lo(g.freeInodes), Lo(g.usedDirs),
                    0, 0, 0, 0, 0, 0, 0>>
<1>1. Len(EncodeGd(g)) = 1 /\ EncodeGd(g)[1] = Slot("words", w)
  BY DEF EncodeGd
<1>2. Word \in Nat /\ Word >= 2
  BY MkfsAssumption
<1>3. /\ At32(w, 0) = g.blockBitmap /\ At32(w, 4) = g.inodeBitmap
      /\ At32(w, 8) = g.inodeTable
  <2>1. /\ g.blockBitmap \in Nat /\ g.blockBitmap < Word * Word
        /\ g.inodeBitmap \in Nat /\ g.inodeBitmap < Word * Word
        /\ g.inodeTable \in Nat /\ g.inodeTable < Word * Word
    BY <1>2 DEF GdRoom, GdFields
  <2>. QED
    BY <2>1, HalvesJoin DEF At32, At
<1>4. /\ At(w, 12) = g.freeBlocks /\ At(w, 14) = g.freeInodes
      /\ At(w, 16) = g.usedDirs
  BY <1>2, WordHolds DEF GdRoom, GdFields, At
<1>. HIDE DEF w
<1>5. DecodeGd(w) = g
  BY <1>3, <1>4 DEF DecodeGd, GdRoom, GdFields
<1>. QED
  BY <1>1, <1>5 DEF Slot

-----------------------------------------------------------------------------
(* Slots that were put somewhere and are there still.                      *)
Holds(d, at, slots) ==
  \A k \in 1 .. Len(slots) : at + k - 1 \in DOMAIN d /\ d[at + k - 1] = slots[k]

LEMMA OverlayHolds ==
  ASSUME NEW d, NEW at \in Nat, NEW slots, Len(slots) \in Nat
  PROVE  Holds(Overlay(d, at, slots), at, slots)
BY DEF Holds, Overlay

LEMMA OverlayKeeps ==
  ASSUME NEW d, NEW at \in Nat, NEW slots, Len(slots) \in Nat,
         NEW a \in Nat, NEW s, Len(s) \in Nat, Holds(d, a, s),
         a + Len(s) <= at \/ at + Len(slots) <= a
  PROVE  Holds(Overlay(d, at, slots), a, s)
<1>. DEFINE new == at .. (at + Len(slots) - 1)
            o   == Overlay(d, at, slots)
<1>1. \A k \in 1 .. Len(s) : a + k - 1 \notin new
  OBVIOUS
<1>2. \A k \in 1 .. Len(s) : a + k - 1 \in DOMAIN d /\ d[a + k - 1] = s[k]
  BY DEF Holds
<1>3. \A k \in DOMAIN d \ new : k \in DOMAIN o /\ o[k] = d[k]
  BY DEF Overlay
<1>. QED
  BY <1>1, <1>2, <1>3 DEF Holds

(* Every bit is in one slot of its bitmap. *)
LEMMA BitsDivide ==
  ASSUME NEW n \in Nat, NEW b \in 0 .. (n * BitsPerSlot - 1)
  PROVE  /\ b \div BitsPerSlot \in 0 .. (n - 1)
         /\ b \in RunBits((b \div BitsPerSlot) * BitsPerSlot, BitsPerSlot)
<1>. DEFINE w == BitsPerSlot
            q == b \div w
<1>0. w \in Nat /\ w > 0 /\ n * w \in Nat /\ b \in Nat
  BY MkfsAssumption
<1>. HIDE DEF w
<1>1. b = w * q + (b % w) /\ b % w \in 0 .. (w - 1) /\ q \in Nat
  BY <1>0
<1>2. b < n * w
  BY <1>0 DEF w
<1>3. q < n
  BY <1>0, <1>1, <1>2
<1>4. b \in q * w .. (q * w + w - 1)
  BY <1>0, <1>1
<1>. QED
  BY <1>1, <1>3, <1>4 DEF w, RunBits

LEMMA BitsRead ==
  ASSUME NEW block \in Nat, NEW bs \in Nat, NEW used \in SUBSET (0 .. (bs * BitsPerSlot - 1)),
         Holds(disk, block * bs, BitmapSlots(used, bs))
  PROVE  UsedBits(block, bs) = used
<1>. DEFINE at == block * bs
            S == {t \in RunBits(at, bs) : t \in DOMAIN disk /\ disk[t].kind = "bits"}
            part(k) == used \cap RunBits((k - 1) * BitsPerSlot, BitsPerSlot)
<1>0. at \in Nat
  OBVIOUS
<1>. HIDE DEF at
<1>1. ASSUME NEW k \in 1 .. bs
      PROVE  /\ at + k - 1 \in DOMAIN disk
             /\ disk[at + k - 1].kind = "bits" /\ disk[at + k - 1].val = part(k)
  <2>. DEFINE slots == BitmapSlots(used, bs)
  <2>1. Len(slots) = bs /\ slots[k] = [kind |-> "bits", val |-> part(k)]
    BY DEF BitmapSlots, Slot
  <2>. HIDE DEF slots
  <2>2. at + k - 1 \in DOMAIN disk /\ disk[at + k - 1] = slots[k]
    BY <2>1 DEF Holds, slots, at
  <2>. QED
    BY <2>1, <2>2
<1>2. ASSUME NEW k \in 1 .. bs
      PROVE  at + k - 1 \in S /\ disk[at + k - 1].val = part(k)
  <2>1. at + k - 1 \in RunBits(at, bs)
    BY <1>0 DEF RunBits
  <2>. QED
    BY <1>1, <2>1
<1>3. \A t \in S : disk[t].val \subseteq used
  <2>1. ASSUME NEW t \in S PROVE \E k \in 1 .. bs : t = at + k - 1
    <3>1. t \in at .. (at + bs - 1)
      BY DEF RunBits
    <3>2. t - at + 1 \in 1 .. bs /\ t = at + (t - at + 1) - 1
      BY <1>0, <3>1
    <3>. QED
      BY <3>2
  <2>. QED
    BY <1>2, <2>1
<1>4. ASSUME NEW b \in used PROVE \E t \in S : b \in disk[t].val
  <2>. DEFINE k == b \div BitsPerSlot + 1
  <2>1. k \in 1 .. bs /\ b \in RunBits((k - 1) * BitsPerSlot, BitsPerSlot)
    BY BitsDivide
  <2>. HIDE DEF k
  <2>2. b \in part(k)
    BY <2>1
  <2>. QED
    BY <1>2, <2>1, <2>2
<1>. HIDE DEF S
<1>5. UNION {disk[t].val : t \in S} = used
  BY <1>3, <1>4
<1>. QED
  BY <1>5 DEF UsedBits, S, at

-----------------------------------------------------------------------------
(* The layout: where format puts each of its structures and how long each  *)
(* is, in the order of its writes.                                         *)
Places(c) ==
  <<SbSlot, c.blockSize, 4 * c.blockSize + InodeSlots, RootDirBlock(c) * c.blockSize,
    2 * c.blockSize, 3 * c.blockSize>>

Lengths(c) == <<32, 1, InodeSlots, c.blockSize, c.blockSize, c.blockSize>>

Apart(a, n, b, m) == a + n <= b \/ b + m <= a

(* What the rest needs to know of a configuration. *)
Layout(c) ==
  /\ c.blockSize \in {64, 128, 2048} /\ c.inodesPerGroup \in Nat /\ c.sizeBlocks \in Nat
  /\ BlocksPerGroup(c) \in Nat /\ BlocksPerGroup(c) >= 64
  /\ c.inodesPerGroup >= 11 /\ c.inodesPerGroup <= BlocksPerGroup(c)
  /\ RootDirBlock(c) \in Nat /\ RootDirBlock(c) >= 5
  /\ MetadataBlocks(c) = RootDirBlock(c) + 1
  /\ MetadataBlocks(c) <= c.sizeBlocks /\ c.sizeBlocks <= BlocksPerGroup(c)
  /\ 4 * c.blockSize + c.inodesPerGroup * InodeSlots <= RootDirBlock(c) * c.blockSize
  /\ BlocksPerGroup(c) < Word * Word
  /\ FreeBlocks(c) < Word /\ FreeInodes(c) < Word

LEMMA LayoutOf ==
  ASSUME NEW c \in Configs, Fits(c), Regular(c)
  PROVE  Layout(c)
<1>. DEFINE bs == c.blockSize
            ipg == c.inodesPerGroup
            t == InodeTableBlocks(c)
<1>1. bs \in {64, 128, 2048} /\ ipg \in Nat /\ ipg >= 11 /\ c.sizeBlocks \in Nat
  BY MkfsAssumption DEF Fits, Regular, OneGroup
<1>2. t \in Nat /\ t >= 1 /\ t * bs >= ipg * InodeSlots
  <2>. DEFINE x == ipg * 8
  <2>0. x \in Nat /\ x >= 88 /\ t = (x + bs - 1) \div bs
    BY <1>1 DEF InodeTableBlocks, InodeSlots
  <2>. HIDE DEF x
  <2>1. CASE bs = 64
    BY <2>0, <2>1 DEF InodeSlots, x
  <2>2. CASE bs = 128
    <3>1. t = (x + 127) \div 128
      BY <2>0, <2>2
    <3>2. t \in Nat /\ t >= 1 /\ t * 128 >= x
      BY <2>0, <3>1
    <3>. QED
      BY <2>2, <3>2 DEF InodeSlots, x
  <2>3. CASE bs = 2048
    <3>1. t = (x + 2047) \div 2048
      BY <2>0, <2>3
    <3>2. t \in Nat /\ t >= 1 /\ t * 2048 >= x
      BY <2>0, <3>1
    <3>. QED
      BY <2>3, <3>2 DEF InodeSlots, x
  <2>. QED
    BY <1>1, <2>1, <2>2, <2>3
<1>3. BlocksPerGroup(c) \in Nat /\ BlocksPerGroup(c) >= 64
  <2>1. BitsPerSlot \in Nat /\ BitsPerSlot >= 1
    BY MkfsAssumption
  <2>. QED
    BY <1>1, <2>1 DEF BlocksPerGroup
<1>. HIDE DEF t
<1>4. RootDirBlock(c) = 4 + t
  BY DEF RootDirBlock, t
<1>5. 4 * bs + ipg * InodeSlots <= RootDirBlock(c) * bs
  <2>1. (4 + t) * bs = 4 * bs + t * bs /\ ipg * InodeSlots \in Nat /\ t * bs \in Nat
    BY <1>1, <1>2 DEF InodeSlots
  <2>. QED
    BY <1>1, <1>2, <1>4, <2>1
<1>6. BlocksPerGroup(c) < Word * Word
  <2>. DEFINE x == BlocksPerGroup(c)
              q == x \div Word
  <2>0. x \in Nat /\ Word \in Nat /\ Word > 0 /\ q < Word
    BY <1>1, <1>3, MkfsAssumption DEF BlocksPerGroup
  <2>. HIDE DEF x
  <2>1. x = Word * q + (x % Word) /\ x % Word \in 0 .. (Word - 1) /\ q \in Nat
    BY <2>0
  <2>. HIDE DEF q
  <2>2. q + 1 <= Word /\ Word * q + Word = Word * (q + 1)
    BY <2>0, <2>1
  <2>3. Word * (q + 1) <= Word * Word
    BY <2>0, <2>1, <2>2
  <2>. QED
    BY <2>0, <2>1, <2>2, <2>3 DEF x
<1>. QED
  BY <1>1, <1>2, <1>3, <1>4, <1>5, <1>6 DEF Layout, Fits, Regular, OneGroup, FitsDescriptor, MetadataBlocks

LEMMA PlacesApart ==
  ASSUME NEW c, Layout(c)
  PROVE  /\ \A k \in 1 .. 6 : Places(c)[k] \in Nat /\ Lengths(c)[k] \in Nat
         /\ \A j, k \in 1 .. 6 : j # k =>
              Apart(Places(c)[j], Lengths(c)[j], Places(c)[k], Lengths(c)[k])
<1>. DEFINE bs == c.blockSize
            rb == RootDirBlock(c) * bs
<1>1. bs \in Nat /\ bs >= 64 /\ rb \in Nat /\ rb >= 4 * bs + 88
  <2>1. bs \in Nat /\ bs >= 64 /\ RootDirBlock(c) \in Nat
    BY DEF Layout
  <2>2. c.inodesPerGroup * InodeSlots >= 88 /\ c.inodesPerGroup * InodeSlots \in Nat
    BY DEF Layout, InodeSlots
  <2>3. rb \in Nat
    BY <2>1
  <2>4. 4 * bs + c.inodesPerGroup * InodeSlots <= rb
    BY DEF Layout
  <2>. QED
    BY <2>1, <2>2, <2>3, <2>4
<1>. HIDE DEF bs, rb
<1>2. /\ Places(c) = <<32, bs, 4 * bs + 8, rb, 2 * bs, 3 * bs>>
      /\ Lengths(c) = <<32, 1, 8, bs, bs, bs>>
  BY DEF Places, Lengths, SbSlot, InodeSlots, bs, rb
<1>3. \A k \in 1 .. 6 : k = 1 \/ k = 2 \/ k = 3 \/ k = 4 \/ k = 5 \/ k = 6
  OBVIOUS
<1>4. \A k \in 1 .. 6 : Places(c)[k] \in Nat /\ Lengths(c)[k] \in Nat
  BY <1>1, <1>2, <1>3
<1>5. ASSUME NEW j \in 1 .. 6, NEW k \in 1 .. 6, j # k
      PROVE  Apart(Places(c)[j], Lengths(c)[j], Places(c)[k], Lengths(c)[k])
  BY <1>1, <1>2, <1>3, <1>5 DEF Apart
<1>. QED
  BY <1>4, <1>5

LEMMA WritesAre ==
  ASSUME NEW c, Layout(c)
  PROVE  /\ Len(Writes(c)) = 6
         /\ \A k \in 1 .. 6 : /\ Writes(c)[k].at = Places(c)[k]
                              /\ Len(Writes(c)[k].slots) = Lengths(c)[k]
<1>1. InodeAt(4, c.blockSize, 2, c.inodesPerGroup) = 4 * c.blockSize + InodeSlots
  <2>1. 1 % c.inodesPerGroup = 1
    BY DEF Layout
  <2>. QED
    BY <2>1 DEF InodeAt, InodeSlots, Layout
<1>2. c.blockSize \in Nat
  BY DEF Layout
<1>3. /\ Len(EncodeSb(SbOf(c))) = 32 /\ Len(EncodeGd(GdOf(c))) = 1
      /\ Len(InodeRecord(2)) = InodeSlots /\ Len(DirSlots(c.blockSize)) = c.blockSize
      /\ \A used : Len(BitmapSlots(used, c.blockSize)) = c.blockSize
  BY <1>2, SbLength DEF EncodeGd, InodeRecord, InodeSlots, DirSlots, BitmapSlots
<1>4. \A k \in 1 .. 6 : k = 1 \/ k = 2 \/ k = 3 \/ k = 4 \/ k = 5 \/ k = 6
  OBVIOUS
<1>. QED
  BY <1>1, <1>3, <1>4 DEF Writes, Places, Lengths, GdtSlot

-----------------------------------------------------------------------------
(* The invariant.  What the allocators handed out tells what each bitmap   *)
(* holds, and the bitmaps tell the counts; so the content of every region  *)
(* is known, but for the counts on disk of a handle with something to      *)
(* flush.                                                                  *)
RunOf(run) == RunBits(run.start, run.count)
UsedBlocks == BlockBits(config) \cup UNION {RunOf(run) : run \in runs}
UsedInodes == InodeBits(config) \cup {n - 1 : n \in inodes}

ClearBlocks == BlocksPerGroup(config) - Cardinality(UsedBlocks)
ClearInodes == BlocksPerGroup(config) - Cardinality(UsedInodes)

SbWith(c, blocks, nodes) ==
  [blockSize |-> c.blockSize, inodesCount |-> c.inodesPerGroup,
   blocksCount |-> c.sizeBlocks, freeBlocks |-> blocks, freeInodes |-> nodes,
   firstDataBlock |-> 0, blocksPerGroup |-> BlocksPerGroup(c),
   inodesPerGroup |-> c.inodesPerGroup]

GdWith(blocks, nodes) ==
  [blockBitmap |-> 2, inodeBitmap |-> 3, inodeTable |-> 4,
   freeBlocks |-> blocks, freeInodes |-> nodes, usedDirs |-> 1]

SbNow == SbWith(config, ClearBlocks, ClearInodes)
GdNow == GdWith(ClearBlocks, ClearInodes)

(* What each region holds, in the order of Places. *)
Content ==
  <<EncodeSb(SbNow), EncodeGd(GdNow), InodeRecord(2), DirSlots(config.blockSize),
    BitmapSlots(UsedBlocks, config.blockSize), BitmapSlots(UsedInodes, config.blockSize)>>

Stands(d, c, content, S) == \A k \in S : Holds(d, Places(c)[k], content[k])

RunsApart ==
  /\ \A run \in runs :
       /\ run = [start |-> run.start, count |-> run.count]
       /\ run.start \in Nat /\ run.count \in Nat \ {0}
       /\ run.start >= MetadataBlocks(config) /\ run.start + run.count <= config.sizeBlocks
  /\ \A r1, r2 \in runs : r1 # r2 => RunOf(r1) \cap RunOf(r2) = {}

HandedOut == RunsApart /\ inodes \subseteq 11 .. config.inodesPerGroup

MkfsIInv ==
  /\ config \in Configs
  /\ phase \in {"start", "refused", "writing", "image", "open"}
  /\ phase \in {"writing", "image", "open"} => Fits(config)
  /\ phase # "open" => runs = {} /\ inodes = {} /\ flushed
  /\ phase = "start" => written = 0
  /\ phase = "writing" => /\ written \in 0 .. 6
                        /\ Stands(disk, config, Content, 1 .. written)
  /\ phase \in {"image", "open"} =>
       Stands(disk, config, Content, IF flushed THEN 1 .. 6 ELSE 3 .. 6)
  /\ phase = "open" => HandedOut /\ sb = SbNow /\ gd = GdNow

-----------------------------------------------------------------------------
(* The bitmaps and the counts. *)
LEMMA RunSize ==
  ASSUME NEW a \in Nat, NEW n \in Nat
  PROVE  IsFiniteSet(RunBits(a, n)) /\ Cardinality(RunBits(a, n)) = n
<1>1. a \in Int /\ a + n - 1 \in Int
  OBVIOUS
<1>. QED
  BY <1>1, FS_Interval DEF RunBits

(* A bitmap with both ends set has the middle clear. *)
Ends(m, s, g) == (0 .. (m - 1)) \cup (s .. (g - 1))

LEMMA EndsCount ==
  ASSUME NEW m \in Nat, NEW s \in Nat, NEW g \in Nat, m <= s, s <= g
  PROVE  /\ Ends(m, s, g) \subseteq 0 .. (g - 1)
         /\ IsFiniteSet(Ends(m, s, g))
         /\ g - Cardinality(Ends(m, s, g)) = s - m
<1>. DEFINE low == 0 .. (m - 1)
            high == s .. (g - 1)
<1>1. IsFiniteSet(low) /\ Cardinality(low) = m
  <2>1. 0 \in Int /\ m - 1 \in Int
    OBVIOUS
  <2>2. IsFiniteSet(low) /\ Cardinality(low) = IF 0 > m - 1 THEN 0 ELSE (m - 1) - 0 + 1
    BY <2>1, FS_Interval
  <2>. QED
    BY <2>2
<1>2. IsFiniteSet(high) /\ Cardinality(high) = g - s
  <2>1. s \in Int /\ g - 1 \in Int
    OBVIOUS
  <2>2. IsFiniteSet(high) /\ Cardinality(high) = IF s > g - 1 THEN 0 ELSE (g - 1) - s + 1
    BY <2>1, FS_Interval
  <2>. QED
    BY <2>2
<1>3. low \cap high = {} /\ Ends(m, s, g) \subseteq 0 .. (g - 1)
  BY DEF Ends
<1>4. Cardinality(low \cap high) = 0
  BY <1>3, FS_EmptySet
<1>. HIDE DEF low, high
<1>5. /\ IsFiniteSet(low \cup high)
      /\ Cardinality(low \cup high) = Cardinality(low) + Cardinality(high) - Cardinality(low \cap high)
  BY <1>1, <1>2, FS_Union
<1>6. Cardinality(low \cup high) = m + (g - s)
  BY <1>1, <1>2, <1>4, <1>5
<1>7. Ends(m, s, g) = low \cup high
  BY DEF low, high, Ends
<1>8. IsFiniteSet(Ends(m, s, g)) /\ Cardinality(Ends(m, s, g)) = m + (g - s)
  BY <1>5, <1>6, <1>7, Zenon
<1>. QED
  BY <1>3, <1>8

LEMMA BlockBitsCount ==
  ASSUME Layout(config)
  PROVE  /\ BlockBits(config) \subseteq 0 .. (BlocksPerGroup(config) - 1)
         /\ IsFiniteSet(BlockBits(config))
         /\ BlocksPerGroup(config) - Cardinality(BlockBits(config)) = FreeBlocks(config)
<1>1. /\ MetadataBlocks(config) \in Nat /\ config.sizeBlocks \in Nat
      /\ BlocksPerGroup(config) \in Nat
      /\ MetadataBlocks(config) <= config.sizeBlocks
      /\ config.sizeBlocks <= BlocksPerGroup(config)
  BY DEF Layout
<1>2. BlockBits(config) = Ends(MetadataBlocks(config), config.sizeBlocks, BlocksPerGroup(config))
  BY DEF BlockBits, Ends
<1>3. FreeBlocks(config) = config.sizeBlocks - MetadataBlocks(config)
  BY DEF FreeBlocks
<1>. QED
  BY <1>1, <1>2, <1>3, EndsCount, ZenonT(60)

LEMMA InodeBitsCount ==
  ASSUME Layout(config)
  PROVE  /\ InodeBits(config) \subseteq 0 .. (BlocksPerGroup(config) - 1)
         /\ IsFiniteSet(InodeBits(config))
         /\ BlocksPerGroup(config) - Cardinality(InodeBits(config)) = FreeInodes(config)
<1>1. /\ 10 \in Nat /\ 10 - 1 = 9 /\ config.inodesPerGroup \in Nat
      /\ BlocksPerGroup(config) \in Nat
      /\ 10 <= config.inodesPerGroup
      /\ config.inodesPerGroup <= BlocksPerGroup(config)
  BY DEF Layout
<1>2. InodeBits(config) = Ends(10, config.inodesPerGroup, BlocksPerGroup(config))
  BY <1>1 DEF InodeBits, Ends
<1>. DEFINE E == Ends(10, config.inodesPerGroup, BlocksPerGroup(config))
<1>3. /\ E \subseteq 0 .. (BlocksPerGroup(config) - 1) /\ IsFiniteSet(E)
      /\ BlocksPerGroup(config) - Cardinality(E) = FreeInodes(config)
  BY <1>1, EndsCount DEF FreeInodes
<1>. QED
  BY <1>2, <1>3, Zenon

LEMMA CountsChange ==
  ASSUME NEW c, NEW x, NEW y, NEW z
  PROVE  /\ SbOf(c) = SbWith(c, FreeBlocks(c), FreeInodes(c))
         /\ GdOf(c) = GdWith(FreeBlocks(c), FreeInodes(c))
         /\ [SbWith(c, x, y) EXCEPT !.freeBlocks = z] = SbWith(c, z, y)
         /\ [SbWith(c, x, y) EXCEPT !.freeInodes = z] = SbWith(c, x, z)
         /\ [GdWith(x, y) EXCEPT !.freeBlocks = z] = GdWith(z, y)
         /\ [GdWith(x, y) EXCEPT !.freeInodes = z] = GdWith(x, z)
BY DEF SbOf, GdOf, SbWith, GdWith

Counted ==
  /\ UsedBlocks \subseteq 0 .. (BlocksPerGroup(config) - 1)
  /\ UsedInodes \subseteq 0 .. (BlocksPerGroup(config) - 1)
  /\ IsFiniteSet(UsedBlocks) /\ IsFiniteSet(UsedInodes)
  /\ ClearBlocks \in Nat /\ ClearBlocks <= FreeBlocks(config)
  /\ ClearInodes \in Nat /\ ClearInodes <= FreeInodes(config)

LEMMA CountsFit ==
  Layout(config) /\ HandedOut => Counted
<1>. SUFFICES ASSUME Layout(config), HandedOut PROVE Counted
  OBVIOUS
<1>. DEFINE g == BlocksPerGroup(config)
<1>0. g \in Nat /\ g >= 64
  BY DEF Layout
<1>1. UsedBlocks \subseteq 0 .. (g - 1)
  <2>1. \A run \in runs : RunOf(run) \subseteq 0 .. (g - 1)
    BY DEF HandedOut, RunsApart, RunOf, RunBits, Layout
  <2>. QED
    BY <2>1, BlockBitsCount DEF UsedBlocks
<1>2. UsedInodes \subseteq 0 .. (g - 1)
  <2>1. \A n \in inodes : n - 1 \in 0 .. (g - 1)
    BY DEF HandedOut, Layout
  <2>. QED
    BY <2>1, InodeBitsCount DEF UsedInodes
<1>3. BlockBits(config) \subseteq UsedBlocks /\ InodeBits(config) \subseteq UsedInodes
  BY DEF UsedBlocks, UsedInodes
<1>. HIDE DEF g
<1>4. IsFiniteSet(0 .. (g - 1)) /\ Cardinality(0 .. (g - 1)) = g
  <2>1. 0 \in Int /\ g - 1 \in Int
    BY <1>0
  <2>2. /\ IsFiniteSet(0 .. (g - 1))
        /\ Cardinality(0 .. (g - 1)) = IF 0 > g - 1 THEN 0 ELSE (g - 1) - 0 + 1
    BY <2>1, FS_Interval
  <2>. QED
    BY <1>0, <2>2
<1>5. ASSUME NEW S \in SUBSET (0 .. (g - 1)), NEW T \in SUBSET S
      PROVE  /\ IsFiniteSet(S) /\ g - Cardinality(S) \in Nat
             /\ g - Cardinality(S) <= g - Cardinality(T)
  <2>1. IsFiniteSet(S) /\ Cardinality(S) <= g
    BY <1>4, FS_Subset, ZenonT(60)
  <2>2. IsFiniteSet(T) /\ Cardinality(T) <= Cardinality(S)
    BY <2>1, FS_Subset
  <2>3. Cardinality(S) \in Nat /\ Cardinality(T) \in Nat
    BY <2>1, <2>2, FS_CardinalityType
  <2>. QED
    BY <1>0, <2>1, <2>2, <2>3
<1>6. /\ IsFiniteSet(UsedBlocks) /\ g - Cardinality(UsedBlocks) \in Nat
      /\ g - Cardinality(UsedBlocks) <= g - Cardinality(BlockBits(config))
  BY <1>1, <1>3, <1>5
<1>7. /\ IsFiniteSet(UsedInodes) /\ g - Cardinality(UsedInodes) \in Nat
      /\ g - Cardinality(UsedInodes) <= g - Cardinality(InodeBits(config))
  BY <1>2, <1>3, <1>5
<1>. QED
  BY <1>1, <1>2, <1>6, <1>7, BlockBitsCount, InodeBitsCount
     DEF Counted, ClearBlocks, ClearInodes, g

LEMMA FieldsFit ==
  ASSUME Layout(config), HandedOut
  PROVE  SbRoom(SbNow) /\ GdRoom(GdNow) /\ 4 < Word * Word
<1>1. Word \in Nat /\ Word > 0 /\ Word <= Word * Word
  BY MkfsAssumption
<1>2. /\ ClearBlocks \in Nat /\ ClearBlocks < Word
      /\ ClearInodes \in Nat /\ ClearInodes < Word
  <2>1. FreeBlocks(config) \in Int /\ FreeInodes(config) \in Int
    BY DEF Layout, FreeBlocks, FreeInodes
  <2>. QED
    BY <1>1, <2>1, CountsFit DEF Counted, Layout
<1>3. SbNow \in SbFields
  BY <1>2 DEF SbNow, SbWith, SbFields, Layout
<1>4. /\ SbNow.inodesCount = config.inodesPerGroup /\ SbNow.blocksCount = config.sizeBlocks
      /\ SbNow.freeBlocks = ClearBlocks /\ SbNow.freeInodes = ClearInodes
      /\ SbNow.blocksPerGroup = BlocksPerGroup(config)
      /\ SbNow.inodesPerGroup = config.inodesPerGroup
  BY DEF SbNow, SbWith
<1>. HIDE DEF SbNow
<1>5. config.inodesPerGroup < Word * Word /\ config.sizeBlocks < Word * Word
  BY <1>1 DEF Layout
<1>6. SbRoom(SbNow)
  BY <1>1, <1>2, <1>3, <1>4, <1>5 DEF SbRoom, Layout
<1>7. GdNow \in GdFields /\ GdNow.freeBlocks = ClearBlocks /\ GdNow.freeInodes = ClearInodes
  BY <1>2 DEF GdNow, GdWith, GdFields
<1>8. 4 < Word * Word
  BY <1>1 DEF Layout
<1>. QED
  BY <1>2, <1>6, <1>7, <1>8 DEF GdRoom

LEMMA ContentLengths ==
  Layout(config) => \A k \in 1 .. 6 : Len(Content[k]) = Lengths(config)[k]
<1>. SUFFICES ASSUME Layout(config)
     PROVE  \A k \in 1 .. 6 : Len(Content[k]) = Lengths(config)[k]
  OBVIOUS
<1>1. config.blockSize \in Nat
  BY DEF Layout
<1>2. /\ Len(EncodeSb(SbNow)) = 32 /\ Len(EncodeGd(GdNow)) = 1
      /\ Len(InodeRecord(2)) = InodeSlots
      /\ Len(DirSlots(config.blockSize)) = config.blockSize
      /\ \A used : Len(BitmapSlots(used, config.blockSize)) = config.blockSize
  BY <1>1, SbLength DEF EncodeGd, InodeRecord, InodeSlots, DirSlots, BitmapSlots
<1>. DEFINE bits1 == BitmapSlots(UsedBlocks, config.blockSize)
            bits2 == BitmapSlots(UsedInodes, config.blockSize)
            c == <<EncodeSb(SbNow), EncodeGd(GdNow), InodeRecord(2),
                   DirSlots(config.blockSize), bits1, bits2>>
<1>3. Content = c
  BY DEF Content
<1>4. Len(bits1) = config.blockSize /\ Len(bits2) = config.blockSize
  BY <1>2
<1>. HIDE DEF bits1, bits2
<1>5. /\ Len(c[1]) = 32 /\ Len(c[2]) = 1 /\ Len(c[3]) = InodeSlots
      /\ Len(c[4]) = config.blockSize
      /\ Len(c[5]) = config.blockSize /\ Len(c[6]) = config.blockSize
  BY <1>2, <1>4
<1>. DEFINE l == Lengths(config)
<1>6. /\ l[1] = 32 /\ l[2] = 1 /\ l[3] = InodeSlots
      /\ l[4] = config.blockSize /\ l[5] = config.blockSize /\ l[6] = config.blockSize
  BY DEF Lengths
<1>. HIDE DEF c, l
<1>7. ASSUME NEW k \in 1 .. 6 PROVE Len(c[k]) = l[k]
  <2>1. k = 1 \/ k = 2 \/ k = 3 \/ k = 4 \/ k = 5 \/ k = 6
    OBVIOUS
  <2>. QED
    BY <1>5, <1>6, <2>1, Zenon
<1>. QED
  BY <1>3, <1>7, Zenon DEF l

(* open reads the superblock and the descriptor that were written last. *)
LEMMA OpenFinds ==
  ASSUME Layout(config), HandedOut, Stands(disk, config, Content, 1 .. 6)
  PROVE  Found.ok /\ Found.sb = SbNow /\ Found.gd = GdNow
<1>. DEFINE w == EncodeSb(SbNow)[1].val
            v == EncodeSb(SbNow)[2].val
            x == EncodeGd(GdNow)[1].val
<1>1. SbRoom(SbNow) /\ GdRoom(GdNow) /\ 4 < Word * Word
  BY FieldsFit
<1>2. Holds(disk, 32, EncodeSb(SbNow)) /\ Holds(disk, config.blockSize, EncodeGd(GdNow))
  <2>1. /\ Holds(disk, Places(config)[1], Content[1])
        /\ Holds(disk, Places(config)[2], Content[2])
    BY DEF Stands
  <2>2. /\ Places(config)[1] = 32 /\ Content[1] = EncodeSb(SbNow)
        /\ Places(config)[2] = config.blockSize /\ Content[2] = EncodeGd(GdNow)
    BY DEF Places, SbSlot, Content
  <2>. QED
    BY <2>1, <2>2
<1>3. WordsAt(SbSlot) = w /\ WordsAt(SbSlot + 1) = v
  <2>1. /\ 32 \in DOMAIN disk /\ disk[32] = EncodeSb(SbNow)[1]
        /\ 33 \in DOMAIN disk /\ disk[33] = EncodeSb(SbNow)[2]
    BY <1>2, SbLength DEF Holds
  <2>2. EncodeSb(SbNow)[1].kind = "words" /\ EncodeSb(SbNow)[2].kind = "words"
    BY <1>1, SbDecodes
  <2>. QED
    BY <2>1, <2>2 DEF WordsAt, SbSlot
<1>4. WordsAt(config.blockSize) = x
  <2>1. Len(EncodeGd(GdNow)) = 1 /\ EncodeGd(GdNow)[1].kind = "words"
    BY <1>1, GdDecodes
  <2>2. config.blockSize \in Nat
    BY DEF Layout
  <2>3. config.blockSize \in DOMAIN disk /\ disk[config.blockSize] = EncodeGd(GdNow)[1]
    BY <1>2, <2>1, <2>2 DEF Holds
  <2>. QED
    BY <2>1, <2>3 DEF WordsAt
<1>5. DecodeSb(w, v) = SbNow /\ At(v, 24) = Magic /\ At32(w, 24) \in {0, 1, 2, 6}
  BY <1>1, SbDecodes
<1>6. DecodeGd(x) = GdNow
  BY <1>1, GdDecodes
<1>7. /\ SbNow.blockSize = config.blockSize /\ SbNow.firstDataBlock = 0
      /\ SbNow.blocksPerGroup > 0 /\ SbNow.inodesPerGroup > 0
      /\ (SbNow.firstDataBlock + 1) * SbNow.blockSize = config.blockSize
  BY DEF SbNow, SbWith, Layout
<1>. HIDE DEF w, v, x
<1>. QED
  BY <1>3, <1>4, <1>5, <1>6, <1>7, Zenon DEF Found

-----------------------------------------------------------------------------
(* What a write leaves standing. *)
Sized(c, content) == \A j \in 1 .. 6 : Len(content[j]) = Lengths(c)[j]
Same(old, new, K) == \A j \in K : new[j] = old[j]

LEMMA Rewritten ==
  ASSUME NEW c, Layout(c), NEW d, NEW old, NEW new, NEW K \in SUBSET (1 .. 6),
         Stands(d, c, old, K), NEW k \in 1 .. 6,
         Sized(c, old), Sized(c, new), Same(old, new, K \ {k})
  PROVE  Stands(Overlay(d, Places(c)[k], new[k]), c, new, K \cup {k})
<1>. DEFINE p == Places(c)
            l == Lengths(c)
            o == Overlay(d, p[k], new[k])
<1>1. /\ \A j \in 1 .. 6 : p[j] \in Nat /\ l[j] \in Nat
      /\ \A i, j \in 1 .. 6 : i # j => Apart(p[i], l[i], p[j], l[j])
  BY PlacesApart
<1>. HIDE DEF p, l
<1>2. \A j \in 1 .. 6 : Len(old[j]) = l[j] /\ Len(new[j]) = l[j]
  BY DEF l, Sized
<1>3. Holds(o, p[k], new[k])
  BY <1>1, <1>2, OverlayHolds
<1>4. ASSUME NEW j \in K \ {k} PROVE Holds(o, p[j], new[j])
  <2>1. Holds(d, p[j], old[j])
    BY DEF Stands, p
  <2>2. p[j] + Len(old[j]) <= p[k] \/ p[k] + Len(new[k]) <= p[j]
    BY <1>1, <1>2, <1>4 DEF Apart
  <2>3. /\ p[j] \in Nat /\ p[k] \in Nat /\ Len(old[j]) \in Nat /\ Len(new[k]) \in Nat
    BY <1>1, <1>2
  <2>4. Holds(o, p[j], old[j])
    BY <2>1, <2>2, <2>3, OverlayKeeps
  <2>. QED
    BY <2>4 DEF Same
<1>. QED
  BY <1>3, <1>4 DEF Stands, p

LEMMA Elsewhere ==
  ASSUME NEW c, Layout(c), NEW d, NEW content, NEW K \in SUBSET (1 .. 6),
         Stands(d, c, content, K),
         \A j \in 1 .. 6 : Len(content[j]) = Lengths(c)[j],
         NEW at \in Nat, NEW slots, Len(slots) \in Nat,
         \A j \in 1 .. 6 : Apart(Places(c)[j], Lengths(c)[j], at, Len(slots))
  PROVE  Stands(Overlay(d, at, slots), c, content, K)
<1>1. \A j \in 1 .. 6 : Places(c)[j] \in Nat /\ Lengths(c)[j] \in Nat
  BY PlacesApart
<1>2. ASSUME NEW j \in K PROVE Holds(Overlay(d, at, slots), Places(c)[j], content[j])
  <2>1. Holds(d, Places(c)[j], content[j])
    BY DEF Stands
  <2>2. /\ Places(c)[j] \in Nat /\ Len(content[j]) \in Nat
        /\ \/ Places(c)[j] + Len(content[j]) <= at
           \/ at + Len(slots) <= Places(c)[j]
    BY <1>1 DEF Apart
  <2>. QED
    BY <2>1, <2>2, OverlayKeeps
<1>. QED
  BY <1>2 DEF Stands

(* The handle finds the bits of what it handed out. *)
LEMMA BitmapsRead ==
  ASSUME Layout(config), HandedOut, Stands(disk, config, Content, 3 .. 6)
  PROVE  /\ UsedBits(2, config.blockSize) = UsedBlocks
         /\ UsedBits(3, config.blockSize) = UsedInodes
<1>. DEFINE bs == config.blockSize
<1>1. /\ Holds(disk, Places(config)[5], Content[5])
      /\ Holds(disk, Places(config)[6], Content[6])
  BY DEF Stands
<1>2. /\ Places(config)[5] = 2 * bs /\ Content[5] = BitmapSlots(UsedBlocks, bs)
      /\ Places(config)[6] = 3 * bs /\ Content[6] = BitmapSlots(UsedInodes, bs)
  BY DEF Places, Content
<1>3. /\ bs \in Nat
      /\ UsedBlocks \in SUBSET (0 .. (bs * BitsPerSlot - 1))
      /\ UsedInodes \in SUBSET (0 .. (bs * BitsPerSlot - 1))
  BY CountsFit DEF Counted, Layout, BlocksPerGroup
<1>4. /\ Holds(disk, 2 * bs, BitmapSlots(UsedBlocks, bs))
      /\ Holds(disk, 3 * bs, BitmapSlots(UsedInodes, bs))
  BY <1>1, <1>2, Zenon
<1>. HIDE DEF bs
<1>5. UsedBits(2, bs) = UsedBlocks
  BY <1>3, <1>4, BitsRead
<1>6. UsedBits(3, bs) = UsedInodes
  BY <1>3, <1>4, BitsRead
<1>. QED
  BY <1>5, <1>6 DEF bs

-----------------------------------------------------------------------------
(* What is handed out and given back, and the counts with it. *)
LEMMA BlocksHandedOut ==
  ASSUME Layout(config), HandedOut, UNCHANGED <<config, inodes>>,
         NEW start, NEW count \in Nat \ {0},
         IsFreeRun(UsedBlocks, start, count, config.sizeBlocks),
         runs' = runs \cup {[start |-> start, count |-> count]}
  PROVE  /\ HandedOut'
         /\ UsedBlocks' = UsedBlocks \cup RunBits(start, count)
         /\ UsedInodes' = UsedInodes
         /\ ClearBlocks' = Below(ClearBlocks, count) /\ ClearInodes' = ClearInodes
<1>. DEFINE new == [start |-> start, count |-> count]
            bits == RunBits(start, count)
<1>1. /\ start \in Nat /\ start + count <= config.sizeBlocks /\ bits \cap UsedBlocks = {}
  BY DEF IsFreeRun
<1>2. RunOf(new) = bits
  BY DEF RunOf
<1>3. start >= MetadataBlocks(config)
  <2>1. 0 .. (MetadataBlocks(config) - 1) \subseteq UsedBlocks
    BY DEF UsedBlocks, BlockBits
  <2>2. start \in bits
    BY <1>1 DEF RunBits
  <2>3. start \notin 0 .. (MetadataBlocks(config) - 1)
    BY <1>1, <2>1, <2>2
  <2>. QED
    BY <1>1, <2>3 DEF Layout
<1>4. \A run \in runs : RunOf(run) \cap bits = {}
  BY <1>1 DEF UsedBlocks
<1>5. RunsApart'
  BY <1>1, <1>2, <1>3, <1>4 DEF HandedOut, RunsApart
<1>6. UsedBlocks' = UsedBlocks \cup bits
  BY <1>2 DEF UsedBlocks
<1>7. UsedInodes' = UsedInodes
  BY DEF UsedInodes
<1>8. Cardinality(UsedBlocks \cup bits) = Cardinality(UsedBlocks) + count
  <2>1. IsFiniteSet(UsedBlocks) /\ IsFiniteSet(bits) /\ Cardinality(bits) = count
    BY <1>1, CountsFit, RunSize DEF Counted
  <2>2. Cardinality(UsedBlocks \cap bits) = 0
    <3>1. UsedBlocks \cap bits = {}
      BY <1>1
    <3>. QED
      BY <3>1, FS_EmptySet
  <2>. HIDE DEF bits
  <2>3. Cardinality(UsedBlocks \cup bits)
          = Cardinality(UsedBlocks) + Cardinality(bits) - Cardinality(UsedBlocks \cap bits)
    BY <2>1, FS_Union
  <2>4. Cardinality(UsedBlocks) \in Nat
    BY <2>1, FS_CardinalityType
  <2>. QED
    BY <2>1, <2>2, <2>3, <2>4
<1>9. HandedOut'
  BY <1>5 DEF HandedOut
<1>10. ClearBlocks' = ClearBlocks - count /\ ClearBlocks' \in Nat
  <2>1. Layout(config)'
    OBVIOUS
  <2>2. Cardinality(UsedBlocks') = Cardinality(UsedBlocks) + count
    BY <1>6, <1>8, Zenon
  <2>3. ClearBlocks' \in Nat
    <3>1. (Layout(config) /\ HandedOut => Counted)'
      BY CountsFit, PTL
    <3>. QED
      BY <1>9, <2>1, <3>1 DEF Counted
  <2>4. Cardinality(UsedBlocks) \in Nat
    BY CountsFit, FS_CardinalityType DEF Counted
  <2>. QED
    BY <2>2, <2>3, <2>4 DEF ClearBlocks, Layout
<1>11. ClearBlocks' = Below(ClearBlocks, count)
  <2>1. ClearBlocks \in Nat
    BY CountsFit DEF Counted
  <2>. QED
    BY <1>10, <2>1 DEF Below
<1>12. ClearInodes' = ClearInodes
  BY <1>7, Zenon DEF ClearInodes
<1>. QED
  BY <1>6, <1>7, <1>9, <1>11, <1>12

LEMMA BlocksGivenBack ==
  ASSUME Layout(config), HandedOut, UNCHANGED <<config, inodes>>,
         NEW run \in runs, runs' = runs \ {run}
  PROVE  /\ HandedOut'
         /\ UsedBlocks' = UsedBlocks \ RunOf(run)
         /\ UsedInodes' = UsedInodes
         /\ ClearBlocks' = ClearBlocks + run.count /\ ClearInodes' = ClearInodes
<1>. DEFINE bits == RunOf(run)
<1>1. /\ run.start \in Nat /\ run.count \in Nat /\ run.start >= MetadataBlocks(config)
      /\ run.start + run.count <= config.sizeBlocks
  BY DEF HandedOut, RunsApart
<1>2. HandedOut'
  BY DEF HandedOut, RunsApart
<1>3. bits \cap BlockBits(config) = {}
  BY <1>1 DEF BlockBits, RunOf, RunBits, Layout
<1>4. \A r \in runs \ {run} : RunOf(r) \cap bits = {}
  BY DEF HandedOut, RunsApart
<1>5. bits \subseteq UsedBlocks
  BY DEF UsedBlocks
<1>. HIDE DEF bits
<1>6. UsedBlocks' = UsedBlocks \ bits
  BY <1>3, <1>4 DEF UsedBlocks, bits
<1>7. UsedInodes' = UsedInodes
  BY DEF UsedInodes
<1>8. Cardinality(UsedBlocks \ bits) = Cardinality(UsedBlocks) - run.count
  <2>1. IsFiniteSet(UsedBlocks) /\ Cardinality(bits) = run.count
    BY <1>1, CountsFit, RunSize DEF Counted, RunOf, bits
  <2>2. UsedBlocks \cap bits = bits
    BY <1>5
  <2>3. Cardinality(UsedBlocks \ bits) = Cardinality(UsedBlocks) - Cardinality(UsedBlocks \cap bits)
    BY <2>1, FS_Difference
  <2>. QED
    BY <2>1, <2>2, <2>3, Zenon
<1>9. ClearBlocks' = ClearBlocks + run.count
  <2>1. Cardinality(UsedBlocks') = Cardinality(UsedBlocks) - run.count
    BY <1>6, <1>8, Zenon
  <2>2. Cardinality(UsedBlocks) \in Nat
    BY CountsFit, FS_CardinalityType DEF Counted
  <2>. QED
    BY <1>1, <2>1, <2>2 DEF ClearBlocks, Layout
<1>10. ClearInodes' = ClearInodes
  BY <1>7, Zenon DEF ClearInodes
<1>. QED
  BY <1>2, <1>6, <1>7, <1>9, <1>10 DEF bits

LEMMA InodeHandedOut ==
  ASSUME Layout(config), HandedOut, UNCHANGED <<config, runs>>,
         NEW bit \in 0 .. (config.inodesPerGroup - 1), bit \notin UsedInodes,
         inodes' = inodes \cup {bit + 1}
  PROVE  /\ HandedOut'
         /\ UsedInodes' = UsedInodes \cup {bit}
         /\ UsedBlocks' = UsedBlocks
         /\ ClearInodes' = Below(ClearInodes, 1) /\ ClearBlocks' = ClearBlocks
<1>0. config.inodesPerGroup \in Nat
  BY DEF Layout
<1>1. bit \in Nat /\ bit + 1 \in 11 .. config.inodesPerGroup /\ (bit + 1) - 1 = bit
  <2>1. 0 .. 9 \subseteq UsedInodes
    BY DEF UsedInodes, InodeBits
  <2>. QED
    BY <1>0, <2>1
<1>2. HandedOut'
  BY <1>1 DEF HandedOut, RunsApart
<1>3. UsedInodes' = UsedInodes \cup {bit}
  BY <1>1 DEF UsedInodes
<1>4. UsedBlocks' = UsedBlocks
  BY DEF UsedBlocks
<1>5. /\ Cardinality(UsedInodes) \in Nat
      /\ Cardinality(UsedInodes \cup {bit}) = Cardinality(UsedInodes) + 1
  BY CountsFit, FS_CardinalityType, FS_AddElement DEF Counted
<1>6. ClearInodes' = ClearInodes - 1 /\ ClearInodes' \in Nat
  <2>1. (Layout(config) /\ HandedOut => Counted)'
    BY CountsFit, PTL
  <2>2. Cardinality(UsedInodes') = Cardinality(UsedInodes) + 1
    BY <1>3, <1>5, Zenon
  <2>3. ClearInodes' \in Nat
    BY <1>2, <2>1 DEF Counted
  <2>. QED
    BY <1>5, <2>2, <2>3 DEF ClearInodes, Layout
<1>7. ClearInodes' = Below(ClearInodes, 1)
  <2>1. ClearInodes \in Nat
    BY CountsFit DEF Counted
  <2>. QED
    BY <1>6, <2>1 DEF Below
<1>8. ClearBlocks' = ClearBlocks
  BY <1>4, Zenon DEF ClearBlocks
<1>. QED
  BY <1>2, <1>3, <1>4, <1>7, <1>8

LEMMA InodeGivenBack ==
  ASSUME Layout(config), HandedOut, UNCHANGED <<config, runs>>,
         NEW n \in inodes, inodes' = inodes \ {n}
  PROVE  /\ HandedOut'
         /\ UsedInodes' = UsedInodes \ {n - 1}
         /\ UsedBlocks' = UsedBlocks
         /\ ClearInodes' = ClearInodes + 1 /\ ClearBlocks' = ClearBlocks
<1>0. config.inodesPerGroup \in Nat
  BY DEF Layout
<1>1. \A m \in inodes : m \in Nat /\ m >= 11 /\ m <= config.inodesPerGroup
  BY <1>0 DEF HandedOut
<1>2. HandedOut'
  BY DEF HandedOut, RunsApart
<1>3. n - 1 \notin InodeBits(config) /\ n - 1 \in UsedInodes
  BY <1>0, <1>1 DEF InodeBits, UsedInodes, Layout
<1>4. UsedInodes' = UsedInodes \ {n - 1}
  BY <1>1, <1>3 DEF UsedInodes
<1>5. UsedBlocks' = UsedBlocks
  BY DEF UsedBlocks
<1>6. /\ Cardinality(UsedInodes) \in Nat
      /\ Cardinality(UsedInodes \ {n - 1}) = Cardinality(UsedInodes) - 1
  BY <1>3, CountsFit, FS_CardinalityType, FS_RemoveElement DEF Counted
<1>7. ClearInodes' = ClearInodes + 1
  <2>1. Cardinality(UsedInodes') = Cardinality(UsedInodes) - 1
    BY <1>4, <1>6, Zenon
  <2>. QED
    BY <1>6, <2>1 DEF ClearInodes, Layout
<1>8. ClearBlocks' = ClearBlocks
  BY <1>5, Zenon DEF ClearBlocks
<1>. QED
  BY <1>2, <1>4, <1>5, <1>7, <1>8

-----------------------------------------------------------------------------
(* format: what it writes is what nothing handed out amounts to. *)
LEMMA ConfigLayout ==
  ASSUME Regular(config), config \in Configs, Fits(config)
  PROVE  Layout(config)
BY LayoutOf

LEMMA FreshContent ==
  ASSUME Layout(config), runs = {}, inodes = {}
  PROVE  /\ HandedOut /\ SbNow = SbOf(config) /\ GdNow = GdOf(config)
         /\ \A k \in 1 .. 6 : Content[k] = Writes(config)[k].slots
<1>1. HandedOut
  BY DEF HandedOut, RunsApart
<1>2. UsedBlocks = BlockBits(config) /\ UsedInodes = InodeBits(config)
  BY DEF UsedBlocks, UsedInodes
<1>3. ClearBlocks = FreeBlocks(config) /\ ClearInodes = FreeInodes(config)
  BY <1>2, BlockBitsCount, InodeBitsCount, Zenon DEF ClearBlocks, ClearInodes
<1>4. SbNow = SbOf(config) /\ GdNow = GdOf(config)
  BY <1>3, CountsChange, Zenon DEF SbNow, GdNow
<1>. DEFINE c == config
            bits1 == BitmapSlots(BlockBits(c), c.blockSize)
            bits2 == BitmapSlots(InodeBits(c), c.blockSize)
<1>5. Content = <<EncodeSb(SbOf(c)), EncodeGd(GdOf(c)), InodeRecord(2),
                  DirSlots(c.blockSize), bits1, bits2>>
  BY <1>2, <1>4, Zenon DEF Content
<1>. HIDE DEF bits1, bits2
<1>6. /\ Writes(c)[1].slots = EncodeSb(SbOf(c)) /\ Writes(c)[2].slots = EncodeGd(GdOf(c))
      /\ Writes(c)[3].slots = InodeRecord(2) /\ Writes(c)[4].slots = DirSlots(c.blockSize)
      /\ Writes(c)[5].slots = bits1 /\ Writes(c)[6].slots = bits2
  BY DEF Writes, bits1, bits2
<1>7. /\ Content[1] = EncodeSb(SbOf(c)) /\ Content[2] = EncodeGd(GdOf(c))
      /\ Content[3] = InodeRecord(2) /\ Content[4] = DirSlots(c.blockSize)
      /\ Content[5] = bits1 /\ Content[6] = bits2
  BY <1>5
<1>8. ASSUME NEW k \in 1 .. 6 PROVE Content[k] = Writes(c)[k].slots
  <2>1. k = 1 \/ k = 2 \/ k = 3 \/ k = 4 \/ k = 5 \/ k = 6
    OBVIOUS
  <2>. QED
    BY <1>6, <1>7, <2>1, Zenon
<1>. QED
  BY <1>1, <1>4, <1>8

LEMMA InitMkfs ==
  ASSUME Init PROVE MkfsIInv
BY DEF Init, MkfsIInv

LEMMA StartStep ==
  ASSUME MkfsIInv, FormatStart PROVE MkfsIInv'
<1>1. /\ phase = "start" /\ written' = 0 /\ config' = config
      /\ runs' = {} /\ inodes' = {} /\ flushed'
      /\ phase' = IF Fits(config) THEN "writing" ELSE "refused"
  BY DEF FormatStart, handed, handle, MkfsIInv
<1>2. Stands(disk', config', Content', 1 .. 0)
  BY DEF Stands
<1>. QED
  BY <1>1, <1>2 DEF MkfsIInv

LEMMA WriteStep ==
  ASSUME Regular(config), MkfsIInv, FormatWrite PROVE MkfsIInv'
<1>. DEFINE k == written + 1
<1>0. /\ phase = "writing" /\ Layout(config) /\ runs = {} /\ inodes = {} /\ flushed
      /\ written \in 0 .. 6 /\ Stands(disk, config, Content, 1 .. written)
  BY ConfigLayout DEF FormatWrite, MkfsIInv
<1>1. written < 6 /\ k \in 1 .. 6 /\ 1 .. k = (1 .. written) \cup {k}
  BY <1>0, WritesAre DEF FormatWrite
<1>2. /\ disk' = Overlay(disk, Writes(config)[k].at, Writes(config)[k].slots)
      /\ written' = k /\ phase' = "writing"
      /\ UNCHANGED <<config, handed, flushed>>
  BY <1>0 DEF FormatWrite, Layout
<1>. HIDE DEF k
<1>3. Content' = Content
  BY <1>2 DEF handed, Content, SbNow, GdNow, ClearBlocks, ClearInodes, UsedBlocks, UsedInodes
<1>4. disk' = Overlay(disk, Places(config)[k], Content[k])
  BY <1>0, <1>1, <1>2, FreshContent, WritesAre
<1>5. \A j \in 1 .. 6 : Len(Content[j]) = Lengths(config)[j]
  BY <1>0, ContentLengths
<1>6. 1 .. written \in SUBSET (1 .. 6)
  BY <1>0
<1>7. Stands(Overlay(disk, Places(config)[k], Content[k]), config, Content, (1 .. written) \cup {k})
  <2>1. Sized(config, Content) /\ Same(Content, Content, (1 .. written) \ {k})
    BY <1>5 DEF Sized, Same
  <2>. QED
    BY <1>0, <1>1, <1>6, <2>1, Rewritten
<1>8. Stands(disk', config', Content', 1 .. written')
  BY <1>1, <1>2, <1>3, <1>4, <1>7, Zenon
<1>9. written' \in 0 .. 6
  BY <1>1, <1>2
<1>. QED
  BY <1>0, <1>2, <1>8, <1>9 DEF MkfsIInv, handed

LEMMA EndStep ==
  ASSUME Regular(config), MkfsIInv, FormatEnd PROVE MkfsIInv'
<1>0. /\ phase = "writing" /\ Layout(config) /\ runs = {} /\ inodes = {} /\ flushed
      /\ Stands(disk, config, Content, 1 .. written)
  BY ConfigLayout DEF FormatEnd, MkfsIInv
<1>1. written = 6
  BY <1>0, WritesAre DEF FormatEnd
<1>2. phase' = "image" /\ UNCHANGED <<config, disk, handed, flushed>>
  BY DEF FormatEnd
<1>3. Content' = Content
  BY <1>2 DEF handed, Content, SbNow, GdNow, ClearBlocks, ClearInodes, UsedBlocks, UsedInodes
<1>4. Stands(disk', config', Content', 1 .. 6)
  BY <1>0, <1>1, <1>2, <1>3, Zenon
<1>. QED
  BY <1>0, <1>2, <1>4 DEF MkfsIInv, handed

LEMMA OpenStep ==
  ASSUME Regular(config), MkfsIInv, Open PROVE MkfsIInv'
<1>0. /\ phase \in {"image", "open"} /\ flushed /\ flushed' = flushed
      /\ UNCHANGED <<config, disk, handed>>
  BY DEF Open
<1>1. Layout(config) /\ HandedOut
  <2>1. Layout(config)
    BY <1>0, ConfigLayout DEF MkfsIInv
  <2>2. phase = "image" => runs = {} /\ inodes = {}
    BY DEF MkfsIInv
  <2>. QED
    BY <1>0, <2>1, <2>2, FreshContent DEF MkfsIInv
<1>2. Stands(disk, config, Content, 1 .. 6)
  BY <1>0 DEF MkfsIInv
<1>3. Found.ok /\ Found.sb = SbNow /\ Found.gd = GdNow
  BY <1>1, <1>2, OpenFinds
<1>4. phase' = "open" /\ sb' = SbNow /\ gd' = GdNow
  BY <1>3 DEF Open
<1>5. Content' = Content /\ SbNow' = SbNow /\ GdNow' = GdNow
  BY <1>0 DEF handed, Content, SbNow, GdNow, ClearBlocks, ClearInodes, UsedBlocks, UsedInodes
<1>6. HandedOut'
  BY <1>0, <1>1 DEF handed, HandedOut, RunsApart
<1>7. Stands(disk', config', Content', 1 .. 6)
  BY <1>0, <1>2, <1>5, Zenon
<1>. QED
  BY <1>0, <1>4, <1>5, <1>6, <1>7 DEF MkfsIInv, handed

-----------------------------------------------------------------------------
(* The open handle. *)
LEMMA OpenState ==
  ASSUME Regular(config), MkfsIInv, phase = "open"
  PROVE  /\ Layout(config) /\ HandedOut /\ sb = SbNow /\ gd = GdNow
         /\ Stands(disk, config, Content, 3 .. 6)
         /\ sb.blockSize = config.blockSize /\ sb.blocksCount = config.sizeBlocks
         /\ sb.inodesPerGroup = config.inodesPerGroup /\ sb.firstDataBlock = 0
         /\ sb.freeBlocks = ClearBlocks /\ sb.freeInodes = ClearInodes
         /\ gd.blockBitmap = 2 /\ gd.inodeBitmap = 3 /\ gd.inodeTable = 4
         /\ gd.freeBlocks = ClearBlocks /\ gd.freeInodes = ClearInodes
         /\ UsedBits(2, config.blockSize) = UsedBlocks
         /\ UsedBits(3, config.blockSize) = UsedInodes
<1>1. Layout(config) /\ HandedOut /\ sb = SbNow /\ gd = GdNow
  BY ConfigLayout DEF MkfsIInv
<1>2. Stands(disk, config, Content, 3 .. 6)
  <2>1. Stands(disk, config, Content, IF flushed THEN 1 .. 6 ELSE 3 .. 6)
    BY DEF MkfsIInv
  <2>2. 3 .. 6 \subseteq IF flushed THEN 1 .. 6 ELSE 3 .. 6
    OBVIOUS
  <2>. QED
    BY <2>1, <2>2 DEF Stands
<1>3. /\ sb.blockSize = config.blockSize /\ sb.blocksCount = config.sizeBlocks
      /\ sb.inodesPerGroup = config.inodesPerGroup /\ sb.firstDataBlock = 0
      /\ sb.freeBlocks = ClearBlocks /\ sb.freeInodes = ClearInodes
  BY <1>1 DEF SbNow, SbWith
<1>4. /\ gd.blockBitmap = 2 /\ gd.inodeBitmap = 3 /\ gd.inodeTable = 4
      /\ gd.freeBlocks = ClearBlocks /\ gd.freeInodes = ClearInodes
  BY <1>1 DEF GdNow, GdWith
<1>5. /\ UsedBits(2, config.blockSize) = UsedBlocks
      /\ UsedBits(3, config.blockSize) = UsedInodes
  BY <1>1, <1>2, BitmapsRead
<1>. QED
  BY <1>1, <1>2, <1>3, <1>4, <1>5

LEMMA ContentSized == Layout(config) => Sized(config, Content)
BY ContentLengths DEF Sized

(* A bitmap rewritten with the counts that go with it. *)
LEMMA BitmapRewritten ==
  ASSUME Regular(config), MkfsIInv, phase = "open", UNCHANGED <<phase, config>>,
         HandedOut', sb' = SbNow', gd' = GdNow', flushed' = FALSE,
         NEW k \in {5, 6}, disk' = Overlay(disk, Places(config)[k], Content'[k]),
         \A j \in (3 .. 6) \ {k} : Content'[j] = Content[j]
  PROVE  MkfsIInv'
<1>1. Layout(config) /\ Layout(config') /\ Stands(disk, config, Content, 3 .. 6)
  BY OpenState
<1>2. Sized(config, Content)
  BY <1>1, ContentSized
<1>3. Sized(config, Content')
  <2>1. (Layout(config) => Sized(config, Content))'
    BY ContentSized, PTL
  <2>. QED
    BY <1>1, <2>1
<1>. DEFINE K == 3 .. 6
<1>4. K \in SUBSET (1 .. 6) /\ k \in 1 .. 6
  OBVIOUS
<1>5. Stands(disk, config, Content, K) /\ \A j \in K \ {k} : Content'[j] = Content[j]
  BY <1>1
<1>. DEFINE old == Content
            new == Content'
<1>6. Stands(Overlay(disk, Places(config)[k], new[k]), config, new, K \cup {k})
  <2>1. /\ Sized(config, old) /\ Sized(config, new) /\ Same(old, new, K \ {k})
        /\ Stands(disk, config, old, K)
    BY <1>2, <1>3, <1>5 DEF Sized, Same
  <2>. HIDE DEF old, new, K
  <2>. QED
    BY <1>1, <1>4, <2>1, Rewritten
<1>7. Stands(disk', config', Content', 3 .. 6)
  <2>1. K \cup {k} = 3 .. 6
    OBVIOUS
  <2>. QED
    BY <1>6, <2>1, Zenon DEF new
<1>8. config' \in Configs /\ Fits(config') /\ phase' = "open"
  BY DEF MkfsIInv
<1>9. Stands(disk', config', Content', IF flushed' THEN 1 .. 6 ELSE 3 .. 6)
  <2>1. (IF flushed' THEN 1 .. 6 ELSE 3 .. 6) = 3 .. 6
    OBVIOUS
  <2>. QED
    BY <1>7, <2>1, Zenon
<1>. QED
  BY <1>8, <1>9, Zenon DEF MkfsIInv

LEMMA ContentFive ==
  /\ Content[5] = BitmapSlots(UsedBlocks, config.blockSize)
  /\ Content[6] = BitmapSlots(UsedInodes, config.blockSize)
BY DEF Content

LEMMA PlacesFive ==
  /\ Places(config)[5] = 2 * config.blockSize
  /\ Places(config)[6] = 3 * config.blockSize
BY DEF Places

(* Blocks change, the inodes' bitmap does not. *)
LEMMA BlockBitmapStep ==
  ASSUME Regular(config), MkfsIInv, phase = "open", UNCHANGED <<phase, config>>,
         HandedOut', flushed' = FALSE,
         disk' = Overlay(disk, 2 * config.blockSize,
                         BitmapSlots(UsedBlocks', config.blockSize)),
         UsedInodes' = UsedInodes, ClearInodes' = ClearInodes,
         gd' = [gd EXCEPT !.freeBlocks = ClearBlocks'],
         sb' = [sb EXCEPT !.freeBlocks = ClearBlocks']
  PROVE  MkfsIInv'
<1>1. sb' = SbNow' /\ gd' = GdNow'
  <2>1. /\ sb = SbWith(config, ClearBlocks, ClearInodes)
        /\ gd = GdWith(ClearBlocks, ClearInodes)
    BY OpenState DEF SbNow, GdNow
  <2>2. /\ sb' = SbWith(config, ClearBlocks', ClearInodes)
        /\ gd' = GdWith(ClearBlocks', ClearInodes)
    <3>1. /\ [SbWith(config, ClearBlocks, ClearInodes) EXCEPT !.freeBlocks = ClearBlocks']
               = SbWith(config, ClearBlocks', ClearInodes)
          /\ [GdWith(ClearBlocks, ClearInodes) EXCEPT !.freeBlocks = ClearBlocks']
               = GdWith(ClearBlocks', ClearInodes)
      BY DEF SbWith, GdWith
    <3>. QED
      BY <2>1, <3>1, Zenon
  <2>3. /\ SbNow' = SbWith(config', ClearBlocks', ClearInodes')
        /\ GdNow' = GdWith(ClearBlocks', ClearInodes')
    BY DEF SbNow, GdNow
  <2>. QED
    BY <2>2, <2>3, Zenon
<1>2. disk' = Overlay(disk, Places(config)[5], Content'[5])
  <2>1. Content'[5] = BitmapSlots(UsedBlocks', config.blockSize)
    BY DEF Content
  <2>. QED
    BY <2>1, PlacesFive, Zenon
<1>3. \A j \in (3 .. 6) \ {5} : Content'[j] = Content[j]
  <2>1. /\ Content'[3] = Content[3] /\ Content'[4] = Content[4]
    BY DEF Content
  <2>2. Content'[6] = Content[6]
    <3>1. Content'[6] = BitmapSlots(UsedInodes', config'.blockSize)
      BY DEF Content
    <3>. QED
      BY <3>1, ContentFive, Zenon
  <2>3. \A j \in (3 .. 6) \ {5} : j = 3 \/ j = 4 \/ j = 6
    OBVIOUS
  <2>. QED
    BY <2>1, <2>2, <2>3, Zenon
<1>4. 5 \in {5, 6}
  OBVIOUS
<1>. QED
  BY <1>1, <1>2, <1>3, <1>4, BitmapRewritten, Zenon

(* And the other way round. *)
LEMMA InodeBitmapStep ==
  ASSUME Regular(config), MkfsIInv, phase = "open", UNCHANGED <<phase, config>>,
         HandedOut', flushed' = FALSE,
         disk' = Overlay(disk, 3 * config.blockSize,
                         BitmapSlots(UsedInodes', config.blockSize)),
         UsedBlocks' = UsedBlocks, ClearBlocks' = ClearBlocks,
         gd' = [gd EXCEPT !.freeInodes = ClearInodes'],
         sb' = [sb EXCEPT !.freeInodes = ClearInodes']
  PROVE  MkfsIInv'
<1>1. sb' = SbNow' /\ gd' = GdNow'
  <2>1. /\ sb = SbWith(config, ClearBlocks, ClearInodes)
        /\ gd = GdWith(ClearBlocks, ClearInodes)
    BY OpenState DEF SbNow, GdNow
  <2>2. /\ sb' = SbWith(config, ClearBlocks, ClearInodes')
        /\ gd' = GdWith(ClearBlocks, ClearInodes')
    <3>1. /\ [SbWith(config, ClearBlocks, ClearInodes) EXCEPT !.freeInodes = ClearInodes']
               = SbWith(config, ClearBlocks, ClearInodes')
          /\ [GdWith(ClearBlocks, ClearInodes) EXCEPT !.freeInodes = ClearInodes']
               = GdWith(ClearBlocks, ClearInodes')
      BY DEF SbWith, GdWith
    <3>. QED
      BY <2>1, <3>1, Zenon
  <2>3. /\ SbNow' = SbWith(config', ClearBlocks', ClearInodes')
        /\ GdNow' = GdWith(ClearBlocks', ClearInodes')
    BY DEF SbNow, GdNow
  <2>. QED
    BY <2>2, <2>3, Zenon
<1>2. disk' = Overlay(disk, Places(config)[6], Content'[6])
  <2>1. Content'[6] = BitmapSlots(UsedInodes', config.blockSize)
    BY DEF Content
  <2>. QED
    BY <2>1, PlacesFive, Zenon
<1>3. \A j \in (3 .. 6) \ {6} : Content'[j] = Content[j]
  <2>1. /\ Content'[3] = Content[3] /\ Content'[4] = Content[4]
    BY DEF Content
  <2>2. Content'[5] = Content[5]
    <3>1. Content'[5] = BitmapSlots(UsedBlocks', config'.blockSize)
      BY DEF Content
    <3>. QED
      BY <3>1, ContentFive, Zenon
  <2>3. \A j \in (3 .. 6) \ {6} : j = 3 \/ j = 4 \/ j = 5
    OBVIOUS
  <2>. QED
    BY <2>1, <2>2, <2>3, Zenon
<1>4. 6 \in {5, 6}
  OBVIOUS
<1>. QED
  BY <1>1, <1>2, <1>3, <1>4, BitmapRewritten, Zenon

LEMMA AllocateInodeStep ==
  ASSUME Regular(config), MkfsIInv, AllocateInode PROVE MkfsIInv'
<1>0. phase = "open" /\ UNCHANGED <<phase, config, runs>>
  BY DEF AllocateInode, Call
<1>1. Layout(config) /\ HandedOut
  BY <1>0, OpenState
<1>2. PICK bit \in 0 .. (config.inodesPerGroup - 1) :
        /\ bit \notin UsedInodes /\ inodes' = inodes \cup {bit + 1}
        /\ disk' = Overlay(disk, 3 * config.blockSize,
                           BitmapSlots(UsedInodes \cup {bit}, config.blockSize))
  BY <1>0, OpenState DEF AllocateInode, IsFirstZero
<1>3. /\ HandedOut' /\ UsedInodes' = UsedInodes \cup {bit} /\ UsedBlocks' = UsedBlocks
      /\ ClearInodes' = Below(ClearInodes, 1) /\ ClearBlocks' = ClearBlocks
  BY <1>0, <1>1, <1>2, InodeHandedOut
<1>4. /\ gd' = [gd EXCEPT !.freeInodes = Below(ClearInodes, 1)]
      /\ sb' = [sb EXCEPT !.freeInodes = Below(ClearInodes, 1)]
      /\ flushed' = FALSE
  BY <1>0, OpenState DEF AllocateInode
<1>5. disk' = Overlay(disk, 3 * config.blockSize, BitmapSlots(UsedInodes', config.blockSize))
  BY <1>2, <1>3, Zenon
<1>6. /\ gd' = [gd EXCEPT !.freeInodes = ClearInodes']
      /\ sb' = [sb EXCEPT !.freeInodes = ClearInodes']
  BY <1>3, <1>4, Zenon
<1>. QED
  BY <1>0, <1>3, <1>4, <1>5, <1>6, InodeBitmapStep, Zenon

LEMMA FreeInodeStep ==
  ASSUME Regular(config), MkfsIInv, NEW n \in inodes, FreeInode(n) PROVE MkfsIInv'
<1>0. phase = "open" /\ UNCHANGED <<phase, config, runs>>
  BY DEF FreeInode, Call
<1>1. Layout(config) /\ HandedOut
  BY <1>0, OpenState
<1>2. /\ inodes' = inodes \ {n} /\ flushed' = FALSE
      /\ disk' = Overlay(disk, 3 * config.blockSize,
                         BitmapSlots(UsedInodes \ {n - 1}, config.blockSize))
      /\ gd' = [gd EXCEPT !.freeInodes = ClearInodes + 1]
      /\ sb' = [sb EXCEPT !.freeInodes = ClearInodes + 1]
  BY <1>0, OpenState DEF FreeInode
<1>3. /\ HandedOut' /\ UsedInodes' = UsedInodes \ {n - 1} /\ UsedBlocks' = UsedBlocks
      /\ ClearInodes' = ClearInodes + 1 /\ ClearBlocks' = ClearBlocks
  BY <1>0, <1>1, <1>2, InodeGivenBack
<1>4. disk' = Overlay(disk, 3 * config.blockSize, BitmapSlots(UsedInodes', config.blockSize))
  BY <1>2, <1>3, Zenon
<1>5. /\ gd' = [gd EXCEPT !.freeInodes = ClearInodes']
      /\ sb' = [sb EXCEPT !.freeInodes = ClearInodes']
  BY <1>2, <1>3, Zenon
<1>. QED
  BY <1>0, <1>2, <1>3, <1>4, <1>5, InodeBitmapStep, Zenon

LEMMA AllocateBlocksStep ==
  ASSUME Regular(config), MkfsIInv, NEW count \in Counts, AllocateBlocks(count)
  PROVE  MkfsIInv'
<1>0. phase = "open" /\ UNCHANGED <<config, inodes>> /\ count \in Nat \ {0}
  BY MkfsAssumption DEF AllocateBlocks, Call
<1>1. Layout(config) /\ HandedOut
  BY <1>0, OpenState
<1>. DEFINE cap == config.blockSize * BitsPerSlot
<1>2. PICK start \in 0 .. config.sizeBlocks :
        /\ IsFirstFreeRun(UsedBlocks, start, count, config.sizeBlocks)
        /\ IF start + count > cap
           THEN phase' = "aborted" /\ UNCHANGED <<disk, runs, handle, flushed>>
           ELSE /\ disk' = Overlay(disk, 2 * config.blockSize,
                      BitmapSlots(UsedBlocks \cup RunBits(start, count), config.blockSize))
                /\ runs' = runs \cup {[start |-> start, count |-> count]}
                /\ gd' = [gd EXCEPT !.freeBlocks = Below(ClearBlocks, count)]
                /\ sb' = [sb EXCEPT !.freeBlocks = Below(ClearBlocks, count)]
                /\ flushed' = FALSE /\ UNCHANGED phase
  <2>1. BlockLimit(sb) = config.sizeBlocks
    BY <1>0, OpenState DEF BlockLimit
  <2>. HIDE DEF cap
  <2>2. sb.blockSize * BitsPerSlot = cap
    BY <1>0, OpenState DEF cap
  <2>3. /\ sb.blockSize = config.blockSize /\ gd.blockBitmap = 2
        /\ UsedBits(gd.blockBitmap, sb.blockSize) = UsedBlocks
        /\ gd.freeBlocks = ClearBlocks /\ sb.freeBlocks = ClearBlocks
    BY <1>0, OpenState
  <2>. QED
    BY <2>1, <2>2, <2>3 DEF AllocateBlocks
<1>3. IsFreeRun(UsedBlocks, start, count, config.sizeBlocks)
  BY <1>2 DEF IsFirstFreeRun
<1>4. ~ (start + count > cap)
  <2>1. start \in Nat /\ start + count <= config.sizeBlocks
    BY <1>3 DEF IsFreeRun
  <2>2. cap = BlocksPerGroup(config) /\ cap \in Nat /\ config.sizeBlocks <= cap
    BY <1>1 DEF BlocksPerGroup, Layout
  <2>. HIDE DEF cap
  <2>. QED
    BY <1>0, <1>1, <2>1, <2>2 DEF Layout
<1>. HIDE DEF cap
<1>5. /\ runs' = runs \cup {[start |-> start, count |-> count]}
      /\ flushed' = FALSE /\ UNCHANGED phase
      /\ disk' = Overlay(disk, 2 * config.blockSize,
                         BitmapSlots(UsedBlocks \cup RunBits(start, count), config.blockSize))
      /\ gd' = [gd EXCEPT !.freeBlocks = Below(ClearBlocks, count)]
      /\ sb' = [sb EXCEPT !.freeBlocks = Below(ClearBlocks, count)]
  BY <1>2, <1>4, Zenon
<1>6. /\ HandedOut' /\ UsedBlocks' = UsedBlocks \cup RunBits(start, count)
      /\ UsedInodes' = UsedInodes
      /\ ClearBlocks' = Below(ClearBlocks, count) /\ ClearInodes' = ClearInodes
  BY <1>0, <1>1, <1>3, <1>5, BlocksHandedOut
<1>7. disk' = Overlay(disk, 2 * config.blockSize, BitmapSlots(UsedBlocks', config.blockSize))
  BY <1>5, <1>6, Zenon
<1>8. /\ gd' = [gd EXCEPT !.freeBlocks = ClearBlocks']
      /\ sb' = [sb EXCEPT !.freeBlocks = ClearBlocks']
  BY <1>5, <1>6, Zenon
<1>. QED
  BY <1>0, <1>5, <1>6, <1>7, <1>8, BlockBitmapStep, Zenon

LEMMA FreeRunStep ==
  ASSUME Regular(config), MkfsIInv, NEW run \in runs, FreeRun(run) PROVE MkfsIInv'
<1>0. phase = "open" /\ UNCHANGED <<phase, config, inodes>>
  BY DEF FreeRun, Call
<1>1. Layout(config) /\ HandedOut
  BY <1>0, OpenState
<1>2. /\ runs' = runs \ {run} /\ flushed' = FALSE
      /\ disk' = Overlay(disk, 2 * config.blockSize,
                         BitmapSlots(UsedBlocks \ RunOf(run), config.blockSize))
      /\ gd' = [gd EXCEPT !.freeBlocks = ClearBlocks + run.count]
      /\ sb' = [sb EXCEPT !.freeBlocks = ClearBlocks + run.count]
  <2>1. /\ sb.blockSize = config.blockSize /\ gd.blockBitmap = 2
        /\ UsedBits(2, config.blockSize) = UsedBlocks
        /\ gd.freeBlocks = ClearBlocks /\ sb.freeBlocks = ClearBlocks
    BY <1>0, OpenState
  <2>. QED
    BY <2>1, Zenon DEF FreeRun, RunOf
<1>3. /\ HandedOut' /\ UsedBlocks' = UsedBlocks \ RunOf(run) /\ UsedInodes' = UsedInodes
      /\ ClearBlocks' = ClearBlocks + run.count /\ ClearInodes' = ClearInodes
  BY <1>0, <1>1, <1>2, BlocksGivenBack
<1>4. disk' = Overlay(disk, 2 * config.blockSize, BitmapSlots(UsedBlocks', config.blockSize))
  BY <1>2, <1>3, Zenon
<1>5. /\ gd' = [gd EXCEPT !.freeBlocks = ClearBlocks']
      /\ sb' = [sb EXCEPT !.freeBlocks = ClearBlocks']
  BY <1>2, <1>3, Zenon
<1>. QED
  BY <1>0, <1>2, <1>3, <1>4, <1>5, BlockBitmapStep, Zenon

-----------------------------------------------------------------------------
(* Writes of inodes and of blocks that were handed out hit no structure.   *)
LEMMA ElsewhereStep ==
  ASSUME Regular(config), MkfsIInv, phase = "open",
         UNCHANGED <<phase, config, handed, handle, flushed>>,
         NEW at \in Nat, NEW slots, Len(slots) \in Nat,
         \A j \in 1 .. 6 : Apart(Places(config)[j], Lengths(config)[j], at, Len(slots)),
         disk' = Overlay(disk, at, slots)
  PROVE  MkfsIInv'
<1>. DEFINE K == IF flushed THEN 1 .. 6 ELSE 3 .. 6
<1>1. Layout(config) /\ HandedOut /\ sb = SbNow /\ gd = GdNow
  BY OpenState
<1>2. Stands(disk, config, Content, K) /\ K \in SUBSET (1 .. 6)
  BY DEF MkfsIInv
<1>. HIDE DEF K
<1>3. Stands(Overlay(disk, at, slots), config, Content, K)
  <2>1. \A j \in 1 .. 6 : Len(Content[j]) = Lengths(config)[j]
    BY <1>1, ContentLengths
  <2>. QED
    BY <1>1, <1>2, <2>1, Elsewhere
<1>4. Content' = Content /\ SbNow' = SbNow /\ GdNow' = GdNow /\ K' = K
  BY DEF handed, Content, SbNow, GdNow, ClearBlocks, ClearInodes, UsedBlocks, UsedInodes, K
<1>5. Stands(disk', config', Content', K')
  BY <1>3, <1>4, Zenon
<1>6. HandedOut' /\ sb' = SbNow' /\ gd' = GdNow'
  BY <1>1, <1>4 DEF handed, handle, HandedOut, RunsApart
<1>7. config' \in Configs /\ Fits(config') /\ phase' = "open"
  BY DEF MkfsIInv
<1>. QED
  BY <1>5, <1>6, <1>7, Zenon DEF MkfsIInv, K

(* What lies in the inode table past the root's inode, or past the root's  *)
(* block, is apart from what format wrote.                                 *)
LEMMA PastRoot ==
  ASSUME NEW c, Layout(c), NEW at \in Nat, NEW n \in Nat,
         \/ /\ 4 * c.blockSize + 2 * InodeSlots <= at
            /\ at + n <= RootDirBlock(c) * c.blockSize
         \/ RootDirBlock(c) * c.blockSize + c.blockSize <= at
  PROVE  \A j \in 1 .. 6 : Apart(Places(c)[j], Lengths(c)[j], at, n)
<1>. DEFINE bs == c.blockSize
            rb == RootDirBlock(c) * bs
<1>1. bs \in Nat /\ bs >= 64 /\ rb \in Nat /\ rb >= 4 * bs + 88
  <2>1. bs \in Nat /\ bs >= 64 /\ RootDirBlock(c) \in Nat
    BY DEF Layout
  <2>2. c.inodesPerGroup * InodeSlots >= 88 /\ c.inodesPerGroup * InodeSlots \in Nat
    BY DEF Layout, InodeSlots
  <2>3. rb \in Nat
    BY <2>1
  <2>4. 4 * bs + c.inodesPerGroup * InodeSlots <= rb
    BY DEF Layout
  <2>. QED
    BY <2>1, <2>2, <2>3, <2>4
<1>2. \/ 4 * bs + 16 <= at /\ at + n <= rb
      \/ rb + bs <= at
  BY DEF InodeSlots
<1>. HIDE DEF bs, rb
<1>3. /\ Places(c) = <<32, bs, 4 * bs + 8, rb, 2 * bs, 3 * bs>>
      /\ Lengths(c) = <<32, 1, 8, bs, bs, bs>>
  BY DEF Places, Lengths, SbSlot, InodeSlots, bs, rb
<1>4. ASSUME NEW j \in 1 .. 6
      PROVE  Apart(Places(c)[j], Lengths(c)[j], at, n)
  <2>1. j = 1 \/ j = 2 \/ j = 3 \/ j = 4 \/ j = 5 \/ j = 6
    OBVIOUS
  <2>. QED
    BY <1>1, <1>2, <1>3, <2>1 DEF Apart
<1>. QED
  BY <1>4

LEMMA WriteInodeStep ==
  ASSUME Regular(config), MkfsIInv, NEW n \in inodes, WriteInode(n) PROVE MkfsIInv'
<1>0. phase = "open" /\ UNCHANGED <<phase, config, handed, handle, flushed>>
  BY DEF WriteInode, Call
<1>1. Layout(config) /\ HandedOut
  BY <1>0, OpenState
<1>. DEFINE at == 4 * config.blockSize + (n - 1) * InodeSlots
<1>2. /\ config.inodesPerGroup \in Nat /\ n \in Nat /\ n >= 11 /\ n <= config.inodesPerGroup
      /\ config.blockSize \in Nat
  BY <1>1 DEF Layout, HandedOut
<1>3. InodeAt(4, config.blockSize, n, config.inodesPerGroup) = at
  <2>1. (n - 1) % config.inodesPerGroup = n - 1
    BY <1>2
  <2>. QED
    BY <2>1, Zenon DEF InodeAt
<1>4. disk' = Overlay(disk, at, InodeRecord(n))
  <2>1. disk' = Overlay(disk, InodeAt(4, config.blockSize, n, config.inodesPerGroup),
                        InodeRecord(n))
    BY <1>0, OpenState, Zenon DEF WriteInode
  <2>. QED
    BY <1>3, <2>1, Zenon
<1>5. Len(InodeRecord(n)) = InodeSlots /\ Len(InodeRecord(n)) \in Nat
  BY DEF InodeRecord, InodeSlots
<1>6. /\ at \in Nat /\ 4 * config.blockSize + 2 * InodeSlots <= at
      /\ at + InodeSlots <= RootDirBlock(config) * config.blockSize
  <2>1. 4 * config.blockSize + config.inodesPerGroup * InodeSlots
           <= RootDirBlock(config) * config.blockSize
    BY <1>1 DEF Layout
  <2>2. RootDirBlock(config) * config.blockSize \in Nat
    BY <1>1, <1>2 DEF Layout
  <2>. QED
    BY <1>2, <2>1, <2>2 DEF InodeSlots
<1>. HIDE DEF at
<1>7. \A j \in 1 .. 6 :
        Apart(Places(config)[j], Lengths(config)[j], at, Len(InodeRecord(n)))
  BY <1>1, <1>5, <1>6, PastRoot
<1>. QED
  BY <1>0, <1>4, <1>5, <1>6, <1>7, ElsewhereStep

(* A run begins past the root's block. *)
LEMMA RunPastRoot ==
  ASSUME Layout(config), HandedOut, NEW run \in runs
  PROVE  /\ run.start * config.blockSize \in Nat
         /\ RootDirBlock(config) * config.blockSize + config.blockSize
              <= run.start * config.blockSize
         /\ run.count * config.blockSize \in Nat
<1>. DEFINE r == RootDirBlock(config)
            a == run.start
<1>1. /\ r \in Nat /\ a \in Nat /\ a >= r + 1 /\ run.count \in Nat
      /\ config.blockSize \in {64, 128, 2048}
  BY DEF HandedOut, RunsApart, Layout
<1>. HIDE DEF r, a
<1>2. a * config.blockSize \in Nat /\ run.count * config.blockSize \in Nat
  BY <1>1
<1>3. r * config.blockSize + config.blockSize <= a * config.blockSize
  <2>1. CASE config.blockSize = 64
    BY <1>1, <2>1
  <2>2. CASE config.blockSize = 128
    BY <1>1, <2>2
  <2>3. CASE config.blockSize = 2048
    BY <1>1, <2>3
  <2>. QED
    BY <1>1, <2>1, <2>2, <2>3
<1>. QED
  BY <1>2, <1>3 DEF r, a

LEMMA WriteRunStep ==
  ASSUME Regular(config), MkfsIInv, NEW run \in runs, WriteFile(run) \/ WriteDir(run)
  PROVE  MkfsIInv'
<1>. DEFINE data == [k \in 1 .. run.count * sb.blockSize |-> Slot("data", {})]
            at == run.start * config.blockSize
<1>0. phase = "open" /\ UNCHANGED <<phase, config, handed, handle, flushed>>
  BY DEF WriteFile, WriteDir, Call
<1>1. Layout(config) /\ HandedOut /\ sb.blockSize = config.blockSize
  BY <1>0, OpenState
<1>2. /\ at \in Nat /\ RootDirBlock(config) * config.blockSize + config.blockSize <= at
      /\ run.count * config.blockSize \in Nat
  BY <1>1, RunPastRoot
<1>3. PICK slots : disk' = Overlay(disk, at, slots) /\ Len(slots) \in Nat
  <2>1. CASE WriteFile(run)
    <3>1. disk' = Overlay(disk, at, data)
      BY <1>1, <2>1 DEF WriteFile
    <3>2. Len(data) \in Nat
      BY <1>1, <1>2
    <3>. QED
      BY <3>1, <3>2
  <2>2. CASE WriteDir(run)
    <3>1. disk' = Overlay(disk, at, DirSlots(config.blockSize))
      BY <1>1, <2>2 DEF WriteDir
    <3>2. Len(DirSlots(config.blockSize)) \in Nat
      BY <1>1 DEF DirSlots, Layout
    <3>. QED
      BY <3>1, <3>2
  <2>. QED
    BY <2>1, <2>2
<1>. HIDE DEF at, data
<1>4. \A j \in 1 .. 6 : Apart(Places(config)[j], Lengths(config)[j], at, Len(slots))
  BY <1>1, <1>2, <1>3, PastRoot
<1>. QED
  BY <1>0, <1>2, <1>3, <1>4, ElsewhereStep

(* flush_metadata writes the superblock, then the descriptor. *)
LEMMA FlushStep ==
  ASSUME Regular(config), MkfsIInv, FlushMetadata PROVE MkfsIInv'
<1>0. /\ phase = "open" /\ UNCHANGED <<phase, config, handed, handle>> /\ flushed' = TRUE
  BY DEF FlushMetadata, Call
<1>1. /\ Layout(config) /\ HandedOut /\ sb = SbNow /\ gd = GdNow
      /\ Stands(disk, config, Content, 3 .. 6)
      /\ sb.firstDataBlock = 0 /\ sb.blockSize = config.blockSize
  BY <1>0, OpenState
<1>2. Sized(config, Content)
  BY <1>1, ContentSized
<1>. DEFINE d1 == Overlay(disk, Places(config)[1], Content[1])
            d2 == Overlay(d1, Places(config)[2], Content[2])
<1>3. disk' = d2
  <2>1. /\ Places(config)[1] = SbSlot /\ Content[1] = EncodeSb(sb)
        /\ Places(config)[2] = config.blockSize /\ Content[2] = EncodeGd(gd)
    BY <1>1 DEF Places, Content
  <2>2. (sb.firstDataBlock + 1) * sb.blockSize = config.blockSize
    BY <1>1 DEF Layout
  <2>. QED
    BY <2>1, <2>2, Zenon DEF FlushMetadata
<1>. HIDE DEF d2
<1>4. Stands(d1, config, Content, (3 .. 6) \cup {1})
  <2>. DEFINE K == 3 .. 6
  <2>1. K \in SUBSET (1 .. 6) /\ 1 \in 1 .. 6 /\ Same(Content, Content, K \ {1})
    BY DEF Same
  <2>2. Stands(disk, config, Content, K)
    BY <1>1
  <2>. HIDE DEF K, d1
  <2>3. Stands(d1, config, Content, K \cup {1})
    BY <1>1, <1>2, <2>1, <2>2, Rewritten DEF d1
  <2>. QED
    BY <2>3 DEF K
<1>. HIDE DEF d1
<1>5. Stands(d2, config, Content, 1 .. 6)
  <2>. DEFINE K == (3 .. 6) \cup {1}
  <2>1. K \in SUBSET (1 .. 6) /\ 2 \in 1 .. 6 /\ Same(Content, Content, K \ {2})
    BY DEF Same
  <2>2. Stands(d1, config, Content, K)
    BY <1>4
  <2>. HIDE DEF K
  <2>3. Stands(d2, config, Content, K \cup {2})
    BY <1>1, <1>2, <2>1, <2>2, Rewritten DEF d2
  <2>4. K \cup {2} = 1 .. 6
    BY DEF K
  <2>. QED
    BY <2>3, <2>4, Zenon
<1>6. Content' = Content /\ SbNow' = SbNow /\ GdNow' = GdNow
  BY <1>0 DEF handed, Content, SbNow, GdNow, ClearBlocks, ClearInodes, UsedBlocks, UsedInodes
<1>7. Stands(disk', config', Content', IF flushed' THEN 1 .. 6 ELSE 3 .. 6)
  <2>1. (IF flushed' THEN 1 .. 6 ELSE 3 .. 6) = 1 .. 6 /\ config' = config
    BY <1>0
  <2>. QED
    BY <1>3, <1>5, <1>6, <2>1, Zenon
<1>8. HandedOut' /\ sb' = SbNow' /\ gd' = GdNow'
  BY <1>0, <1>1, <1>6 DEF handed, handle, HandedOut, RunsApart
<1>9. config' \in Configs /\ Fits(config') /\ phase' = "open"
  BY <1>0 DEF MkfsIInv
<1>. QED
  BY <1>7, <1>8, <1>9, Zenon DEF MkfsIInv

LEMMA NextMkfs ==
  ASSUME Regular(config), MkfsIInv, [Next]_vars PROVE MkfsIInv'
<1>1. CASE UNCHANGED vars
  <2>1. /\ UNCHANGED <<config, phase, written, disk, sb, gd, inodes, runs, flushed>>
    BY <1>1 DEF vars
  <2>2. Content' = Content /\ SbNow' = SbNow /\ GdNow' = GdNow
    BY <2>1 DEF Content, SbNow, GdNow, ClearBlocks, ClearInodes, UsedBlocks, UsedInodes
  <2>. QED
    BY <2>1, <2>2 DEF MkfsIInv, HandedOut, RunsApart
<1>2. CASE FormatStart
  BY <1>2, StartStep
<1>3. CASE FormatWrite
  BY <1>3, WriteStep
<1>4. CASE FormatEnd
  BY <1>4, EndStep
<1>5. CASE Open
  BY <1>5, OpenStep
<1>6. CASE AllocateInode
  BY <1>6, AllocateInodeStep
<1>7. CASE FlushMetadata
  BY <1>7, FlushStep
<1>8. CASE \E count \in Counts : AllocateBlocks(count)
  BY <1>8, AllocateBlocksStep
<1>9. CASE \E n \in inodes : FreeInode(n) \/ WriteInode(n)
  BY <1>9, FreeInodeStep, WriteInodeStep
<1>10. CASE \E run \in runs : FreeRun(run) \/ WriteFile(run) \/ WriteDir(run)
  BY <1>10, FreeRunStep, WriteRunStep
<1>. QED
  BY <1>1, <1>2, <1>3, <1>4, <1>5, <1>6, <1>7, <1>8, <1>9, <1>10 DEF Next

-----------------------------------------------------------------------------
(* The theorems. *)
LEMMA HandedOutIs ==
  ASSUME Regular(config), MkfsIInv PROVE HandedOutExists
<1>1. CASE phase # "open"
  <2>1. runs = {} /\ inodes = {}
    BY <1>1 DEF MkfsIInv
  <2>. QED
    BY <2>1 DEF HandedOutExists
<1>2. CASE phase = "open"
  <2>1. Layout(config) /\ HandedOut
    BY <1>2, OpenState
  <2>2. ASSUME NEW run \in runs
        PROVE  /\ run.start > RootDirBlock(config)
               /\ run.start + run.count <= config.sizeBlocks
               /\ \A other \in runs \ {run} :
                    RunBits(run.start, run.count) \cap RunBits(other.start, other.count) = {}
    <3>1. run.start > RootDirBlock(config) /\ run.start + run.count <= config.sizeBlocks
      BY <2>1 DEF HandedOut, RunsApart, Layout
    <3>2. \A other \in runs \ {run} : RunOf(run) \cap RunOf(other) = {}
      BY <2>1 DEF HandedOut, RunsApart
    <3>. QED
      BY <3>1, <3>2 DEF RunOf
  <2>3. ASSUME NEW n \in inodes
        PROVE  n > 10 /\ 4 * config.blockSize + n * InodeSlots
                            <= RootDirBlock(config) * config.blockSize
    <3>1. /\ config.inodesPerGroup \in Nat /\ n \in Nat /\ n >= 11
          /\ n <= config.inodesPerGroup /\ config.blockSize \in Nat
          /\ RootDirBlock(config) * config.blockSize \in Nat
      BY <2>1 DEF Layout, HandedOut
    <3>2. 4 * config.blockSize + config.inodesPerGroup * InodeSlots
            <= RootDirBlock(config) * config.blockSize
      BY <2>1 DEF Layout
    <3>. QED
      BY <3>1, <3>2 DEF InodeSlots
  <2>. QED
    BY <2>2, <2>3 DEF HandedOutExists
<1>. QED
  BY <1>1, <1>2

(* A formatted image, open or not, holds what was handed out. *)
LEMMA ImageState ==
  ASSUME Regular(config), MkfsIInv, Imaged
  PROVE  /\ Layout(config) /\ HandedOut
         /\ Stands(disk, config, Content, 3 .. 6)
         /\ flushed => Stands(disk, config, Content, 1 .. 6)
<1>0. phase \in {"image", "open"}
  BY DEF Imaged, MkfsIInv
<1>1. Layout(config) /\ HandedOut
  <2>1. Layout(config)
    BY <1>0, ConfigLayout DEF MkfsIInv
  <2>2. phase # "open" => runs = {} /\ inodes = {}
    BY DEF MkfsIInv
  <2>. QED
    BY <1>0, <2>1, <2>2, FreshContent DEF MkfsIInv
<1>2. Stands(disk, config, Content, IF flushed THEN 1 .. 6 ELSE 3 .. 6)
  BY <1>0 DEF MkfsIInv
<1>3. 3 .. 6 \subseteq IF flushed THEN 1 .. 6 ELSE 3 .. 6
  OBVIOUS
<1>4. flushed => (IF flushed THEN 1 .. 6 ELSE 3 .. 6) = 1 .. 6
  OBVIOUS
<1>5. Stands(disk, config, Content, 3 .. 6)
  BY <1>2, <1>3 DEF Stands
<1>6. flushed => Stands(disk, config, Content, 1 .. 6)
  BY <1>2, <1>4, Zenon
<1>. QED
  BY <1>1, <1>5, <1>6

LEMMA ReadsBackIs ==
  ASSUME Regular(config), MkfsIInv PROVE ReadsBack
<1>. SUFFICES ASSUME Imaged, flushed
     PROVE  /\ Found.ok
            /\ Found.sb = IF phase = "open" THEN sb ELSE SbOf(config)
            /\ Found.gd = LowHalves(IF phase = "open" THEN gd ELSE GdOf(config))
            /\ [Found.sb EXCEPT !.freeBlocks = 0, !.freeInodes = 0]
                 = [SbOf(config) EXCEPT !.freeBlocks = 0, !.freeInodes = 0]
  BY DEF ReadsBack
<1>1. Layout(config) /\ HandedOut /\ Stands(disk, config, Content, 1 .. 6)
  BY ImageState
<1>2. Found.ok /\ Found.sb = SbNow /\ Found.gd = GdNow
  BY <1>1, OpenFinds
<1>3. /\ SbNow = IF phase = "open" THEN sb ELSE SbOf(config)
      /\ GdNow = IF phase = "open" THEN gd ELSE GdOf(config)
  <2>1. phase = "open" => sb = SbNow /\ gd = GdNow
    BY DEF MkfsIInv
  <2>2. phase # "open" => SbNow = SbOf(config) /\ GdNow = GdOf(config)
    <3>1. phase # "open" => runs = {} /\ inodes = {}
      BY DEF MkfsIInv
    <3>. QED
      BY <1>1, <3>1, FreshContent
  <2>. QED
    BY <2>1, <2>2, Zenon
<1>4. [SbNow EXCEPT !.freeBlocks = 0, !.freeInodes = 0]
        = [SbOf(config) EXCEPT !.freeBlocks = 0, !.freeInodes = 0]
  <2>1. ASSUME NEW x, NEW y
        PROVE  [SbWith(config, x, y) EXCEPT !.freeBlocks = 0, !.freeInodes = 0]
                 = SbWith(config, 0, 0)
    <3>. DEFINE r == SbWith(config, x, y)
    <3>1. [r EXCEPT !.freeBlocks = 0, !.freeInodes = 0]
            = [[r EXCEPT !.freeBlocks = 0] EXCEPT !.freeInodes = 0]
      BY DEF SbWith
    <3>2. /\ [r EXCEPT !.freeBlocks = 0] = SbWith(config, 0, y)
          /\ [SbWith(config, 0, y) EXCEPT !.freeInodes = 0] = SbWith(config, 0, 0)
      BY CountsChange
    <3>. QED
      BY <3>1, <3>2, Zenon
  <2>2. SbOf(config) = SbWith(config, FreeBlocks(config), FreeInodes(config))
    BY CountsChange
  <2>3. [SbNow EXCEPT !.freeBlocks = 0, !.freeInodes = 0] = SbWith(config, 0, 0)
    BY <2>1 DEF SbNow
  <2>4. [SbOf(config) EXCEPT !.freeBlocks = 0, !.freeInodes = 0] = SbWith(config, 0, 0)
    <3>1. [SbWith(config, FreeBlocks(config), FreeInodes(config))
             EXCEPT !.freeBlocks = 0, !.freeInodes = 0] = SbWith(config, 0, 0)
      BY <2>1, Zenon
    <3>. QED
      BY <2>2, <3>1, Zenon
  <2>. QED
    BY <2>3, <2>4, Zenon
<1>5. LowHalves(GdNow) = GdNow
  <2>1. GdNow \in GdFields /\ GdNow.freeBlocks < Word /\ GdNow.freeInodes < Word
    BY <1>1, FieldsFit DEF GdRoom
  <2>2. Lo(GdNow.freeBlocks) = GdNow.freeBlocks /\ Lo(GdNow.freeInodes) = GdNow.freeInodes
    BY <2>1, WordHolds DEF GdFields
  <2>. QED
    BY <2>1, <2>2 DEF LowHalves, GdFields
<1>. QED
  BY <1>2, <1>3, <1>4, <1>5, Zenon

LEMMA CountsMatchIs ==
  ASSUME Regular(config), MkfsIInv PROVE CountsMatchBitmaps
<1>. SUFFICES ASSUME Imaged, flushed
     PROVE  /\ Found.sb.freeBlocks = ClearBits(2) /\ Found.gd.freeBlocks = ClearBits(2)
            /\ Found.sb.freeInodes = ClearBits(3) /\ Found.gd.freeInodes = ClearBits(3)
  BY DEF CountsMatchBitmaps
<1>1. /\ Layout(config) /\ HandedOut /\ Stands(disk, config, Content, 1 .. 6)
      /\ Stands(disk, config, Content, 3 .. 6)
  BY ImageState
<1>2. Found.sb = SbNow /\ Found.gd = GdNow
  BY <1>1, OpenFinds
<1>3. /\ UsedBits(2, config.blockSize) = UsedBlocks
      /\ UsedBits(3, config.blockSize) = UsedInodes
  BY <1>1, BitmapsRead
<1>4. ClearBits(2) = ClearBlocks /\ ClearBits(3) = ClearInodes
  BY <1>3, Zenon DEF ClearBits, ClearBlocks, ClearInodes
<1>5. /\ SbNow.freeBlocks = ClearBlocks /\ GdNow.freeBlocks = ClearBlocks
      /\ SbNow.freeInodes = ClearInodes /\ GdNow.freeInodes = ClearInodes
  BY DEF SbNow, SbWith, GdNow, GdWith
<1>. QED
  BY <1>2, <1>4, <1>5, Zenon

LEMMA RootStandsIs ==
  ASSUME Regular(config), MkfsIInv PROVE RootStands
<1>. DEFINE bs == config.blockSize
            rb == RootDirBlock(config) * bs
            at == InodeAt(4, bs, 2, config.inodesPerGroup)
<1>. SUFFICES ASSUME Imaged
     PROVE  /\ \A k \in 1 .. InodeSlots : disk[at + k - 1] = Slot("inode", <<2, k>>)
            /\ \A s \in RunBits(rb, bs) : disk[s].kind = "dir"
            /\ 12 + disk[rb].val = bs * 32
  BY DEF RootStands
<1>1. Layout(config) /\ Stands(disk, config, Content, 3 .. 6)
  BY ImageState
<1>2. bs \in {64, 128, 2048} /\ RootDirBlock(config) \in Nat /\ rb \in Nat
  BY <1>1 DEF Layout
<1>3. Holds(disk, at, InodeRecord(2))
  <2>1. Holds(disk, Places(config)[3], Content[3])
    BY <1>1 DEF Stands
  <2>2. Content[3] = InodeRecord(2)
    BY DEF Content
  <2>3. Places(config)[3] = at
    <3>1. Writes(config)[3].at = Places(config)[3]
      BY <1>1, WritesAre
    <3>. QED
      BY <3>1 DEF Writes
  <2>. QED
    BY <2>1, <2>2, <2>3, Zenon
<1>4. Holds(disk, rb, DirSlots(bs))
  <2>1. Holds(disk, Places(config)[4], Content[4])
    BY <1>1 DEF Stands
  <2>2. Content[4] = DirSlots(bs)
    BY DEF Content
  <2>3. Places(config)[4] = rb
    BY DEF Places
  <2>. QED
    BY <2>1, <2>2, <2>3, Zenon
<1>. HIDE DEF at, rb
<1>5. \A k \in 1 .. InodeSlots : disk[at + k - 1] = Slot("inode", <<2, k>>)
  <2>1. /\ Len(InodeRecord(2)) = InodeSlots
        /\ \A k \in 1 .. InodeSlots : InodeRecord(2)[k] = Slot("inode", <<2, k>>)
    BY DEF InodeRecord, InodeSlots
  <2>. QED
    BY <1>3, <2>1, Zenon DEF Holds
<1>6. \A k \in 1 .. bs : disk[rb + k - 1] = DirSlots(bs)[k]
  <2>1. Len(DirSlots(bs)) = bs
    BY <1>2 DEF DirSlots
  <2>. QED
    BY <1>4, <2>1 DEF Holds
<1>7. /\ \A k \in 1 .. bs : DirSlots(bs)[k].kind = "dir"
      /\ DirSlots(bs)[1].val = (bs * 32 - 12) % 65536
  BY <1>2 DEF DirSlots, Slot
<1>. HIDE DEF bs
<1>8. ASSUME NEW s \in RunBits(rb, bs) PROVE disk[s].kind = "dir"
  <2>. DEFINE k == s - rb + 1
  <2>1. k \in 1 .. bs /\ rb + k - 1 = s
    BY <1>2 DEF RunBits
  <2>. HIDE DEF k
  <2>2. disk[s] = DirSlots(bs)[k]
    BY <1>6, <2>1
  <2>. QED
    <3>1. DirSlots(bs)[k].kind = "dir"
      BY <1>7, <2>1
    <3>. QED
      BY <2>2, <3>1
<1>9. 12 + disk[rb].val = bs * 32
  <2>1. 1 \in 1 .. bs /\ rb + 1 - 1 = rb
    BY <1>2
  <2>2. disk[rb] = DirSlots(bs)[1]
    BY <1>6, <2>1
  <2>3. disk[rb].val = (bs * 32 - 12) % 65536
    BY <1>7, <2>2
  <2>. QED
    BY <1>2, <2>3
<1>. QED
  BY <1>5, <1>8, <1>9

(* The layout, the bitmaps and the counts go together in every state, for  *)
(* an image whose configuration is regular.                                *)
LEMMA ConfigStays == [Next]_vars => config' = config
BY DEF Next, vars, FormatStart, FormatWrite, FormatEnd, Open, Call, AllocateInode,
       FlushMetadata, AllocateBlocks, FreeInode, WriteInode, FreeRun, WriteFile, WriteDir

RegularIInv == Regular(config) => MkfsIInv

THEOREM ImageInvariant == Spec => []RegularIInv
<1>1. Init => RegularIInv
  BY InitMkfs DEF RegularIInv
<1>2. RegularIInv /\ [Next]_vars => RegularIInv'
  BY ConfigStays, NextMkfs DEF RegularIInv
<1>. QED
  BY <1>1, <1>2, PTL DEF Spec

(* Blocks of more than 1 KiB, an image and an inode table of one group,    *)
(* free counts of 16 bits: whatever a handle of such an image was asked    *)
(* and flushed, the next open finds the layout that format was asked for   *)
(* and the counts of the handle that flushed.                              *)
THEOREM ImageReadsBack == Spec => [](Regular(config) => ReadsBack)
<1>1. RegularIInv => (Regular(config) => ReadsBack)
  BY ReadsBackIs DEF RegularIInv
<1>. QED
  BY <1>1, ImageInvariant, PTL

(* Once flushed, the free counts on the device of such an image, the       *)
(* superblock's and the descriptor's, are those of its bitmaps.            *)
THEOREM ImageCountsExact == Spec => [](Regular(config) => CountsMatchBitmaps)
<1>1. RegularIInv => (Regular(config) => CountsMatchBitmaps)
  BY CountsMatchIs DEF RegularIInv
<1>. QED
  BY <1>1, ImageInvariant, PTL

(* The allocators of such an image hand out only what the layout has, and  *)
(* nothing twice.                                                          *)
THEOREM OnlyRoomIsHandedOut == Spec => [](Regular(config) => HandedOutExists)
<1>1. RegularIInv => (Regular(config) => HandedOutExists)
  BY HandedOutIs DEF RegularIInv
<1>. QED
  BY <1>1, ImageInvariant, PTL

(* The root directory that format wrote on such an image is there in every *)
(* later state.                                                            *)
THEOREM RootKept == Spec => [](Regular(config) => RootStands)
<1>1. RegularIInv => (Regular(config) => RootStands)
  BY RootStandsIs DEF RegularIInv
<1>. QED
  BY <1>1, ImageInvariant, PTL
=============================================================================
