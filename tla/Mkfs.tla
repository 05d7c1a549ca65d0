-------------------------------- MODULE Mkfs --------------------------------
(***************************************************************************)
(* format of ext4/src/mkfs.rs, one action per write, Filesystem::open on   *)
(* what it wrote, and the helpers of the handle that go by the layout they *)
(* found.  The unit of storage is a slot of 32 bytes, the size of a group  *)
(* descriptor: of what a slot holds, the two structures that open decodes  *)
(* are words of 16 bits, so that a structure written over another is read  *)
(* the way the code reads it.                                              *)
(***************************************************************************)
EXTENDS Integers, Sequences, FiniteSets, Bitmap

CONSTANTS Configs,       \* what format is called with, block_size in slots
          BitsPerSlot,   \* 256 in the code
          Word,          \* 2^16 in the code
          Counts,        \* lengths of the runs asked for
          MaxOps         \* bound on the calls of helpers

ASSUME MkfsAssumption ==
  /\ Configs \subseteq [blockSize : Nat, sizeBlocks : Nat, inodesPerGroup : Nat]
  /\ BitsPerSlot \in Nat \ {0} /\ Word \in Nat \ {0, 1} /\ MaxOps \in Nat
  /\ Counts \subseteq Nat \ {0}
  /\ \A bs \in {32, 64, 128, 2048} : (bs * BitsPerSlot) \div Word < Word

VARIABLES config,
          phase,         \* "start", "writing", "image", "open" and three ends
          written,       \* how many of its writes format has done
          disk,          \* the slots written so far
          size,          \* the image's length in blocks, 0 until format sets it
          sb, gd,        \* the handle: superblock, first descriptor
          inodes, runs,  \* what the allocators handed out and did not get back
          flushed,       \* has the handle nothing to flush?
          ops

vars == <<config, phase, written, disk, size, sb, gd, inodes, runs, flushed, ops>>
handle == <<sb, gd>>
handed == <<inodes, runs>>

-----------------------------------------------------------------------------
(* Layout::from_config: blocks 0 to 3, the inode table, the root's block.  *)
InodeSlots == 8
SbSlot == 32

(* Mutant: a table that ends inside a block loses its end. *)
InodeTableBlocksFloor(c) == (c.inodesPerGroup * InodeSlots) \div c.blockSize

InodeTableBlocks(c) ==
  (c.inodesPerGroup * InodeSlots + c.blockSize - 1) \div c.blockSize
RootDirBlock(c) == 4 + InodeTableBlocks(c)

(* Mutant: the root's block is not counted. *)
MetadataBlocksShort(c) == RootDirBlock(c)

MetadataBlocks(c) == RootDirBlock(c) + 1

Fits(c) ==
  /\ c.blockSize \in {32, 64, 128, 2048}
  /\ c.inodesPerGroup >= 11
  /\ c.sizeBlocks >= MetadataBlocks(c)

Log(bs) == CHOOSE k \in 0 .. 6 : 32 * 2 ^ k = bs
BlocksPerGroup(c) == c.blockSize * BitsPerSlot   \* block_size * 8, in bytes

FreeInodes(c) == c.inodesPerGroup - 10
FreeBlocks(c) == c.sizeBlocks - MetadataBlocks(c)

(* What format does not ask of a configuration, and what the properties    *)
(* below need where they say so: an image and an inode table of one group  *)
(* (and the descriptor in a block that is not the superblock's, as it is   *)
(* with blocks of 1 KiB), and free counts that fit the 16 bits that a      *)
(* descriptor of 32 bytes has for them.                                    *)
OneGroup(c) ==
  /\ c.blockSize # 32
  /\ c.sizeBlocks <= BlocksPerGroup(c) /\ c.inodesPerGroup <= BlocksPerGroup(c)

FitsDescriptor(c) == FreeBlocks(c) < Word /\ FreeInodes(c) < Word

Regular(c) == OneGroup(c) /\ FitsDescriptor(c)

(* The descriptors of all groups lie in the block of the first: open reads *)
(* and flush_metadata writes no other block for them.                      *)
ASSUME DescriptorsInBlock ==
  \A c \in Configs : c.sizeBlocks <= c.blockSize * BlocksPerGroup(c)

-----------------------------------------------------------------------------
(* The codecs.  Words at an even place and the next hold 32 bits.          *)
Lo(v) == v % Word
Hi(v) == (v \div Word) % Word
At(w, byte) == w[byte \div 2 + 1]
At32(w, byte) == At(w, byte) + Word * At(w, byte + 2)

Zeros == [k \in 1 .. 16 |-> 0]
Magic == 1
Slot(kind, val) == [kind |-> kind, val |-> val]

(* Superblock: its first two slots, and 30 that open only copies.          *)
EncodeSb(s) ==
  LET log == Log(s.blockSize) IN
  << Slot("words", <<Lo(s.inodesCount), Hi(s.inodesCount),
                     Lo(s.blocksCount), Hi(s.blocksCount), 0, 0,
                     Lo(s.freeBlocks), Hi(s.freeBlocks),
                     Lo(s.freeInodes), Hi(s.freeInodes),
                     Lo(s.firstDataBlock), Hi(s.firstDataBlock), log, 0, log, 0>>),
     Slot("words", <<Lo(s.blocksPerGroup), Hi(s.blocksPerGroup),
                     Lo(s.blocksPerGroup), Hi(s.blocksPerGroup),
                     Lo(s.inodesPerGroup), Hi(s.inodesPerGroup),
                     0, 0, 0, 0, 0, 0, Magic, 0, 0, 0>>) >>
  \o [k \in 1 .. 30 |-> Slot("rest", {})]

(* A descriptor of 32 bytes keeps the low halves of the counts.            *)
EncodeGd(g) ==
  << Slot("words", <<Lo(g.blockBitmap), Hi(g.blockBitmap),
                     Lo(g.inodeBitmap), Hi(g.inodeBitmap),
                     Lo(g.inodeTable), Hi(g.inodeTable),
                     Lo(g.freeBlocks), Lo(g.freeInodes), Lo(g.usedDirs),
                     0, 0, 0, 0, 0, 0, 0>>) >>

DecodeSb(w, v) ==
  [blockSize |-> 32 * 2 ^ At32(w, 24), inodesCount |-> At32(w, 0),
   blocksCount |-> At32(w, 4), freeBlocks |-> At32(w, 12), freeInodes |-> At32(w, 16),
   firstDataBlock |-> At32(w, 20), blocksPerGroup |-> At32(v, 0), inodesPerGroup |-> At32(v, 8)]

DecodeGd(w) ==
  [blockBitmap |-> At32(w, 0), inodeBitmap |-> At32(w, 4), inodeTable |-> At32(w, 8),
   freeBlocks |-> At(w, 12), freeInodes |-> At(w, 14), usedDirs |-> At(w, 16)]

SbOf(c) ==
  [blockSize |-> c.blockSize, inodesCount |-> c.inodesPerGroup,
   blocksCount |-> c.sizeBlocks, freeBlocks |-> FreeBlocks(c),
   freeInodes |-> FreeInodes(c), firstDataBlock |-> 0,
   blocksPerGroup |-> BlocksPerGroup(c), inodesPerGroup |-> c.inodesPerGroup]

GdOf(c) ==
  [blockBitmap |-> 2, inodeBitmap |-> 3, inodeTable |-> 4,
   freeBlocks |-> FreeBlocks(c), freeInodes |-> FreeInodes(c), usedDirs |-> 1]

-----------------------------------------------------------------------------
(* Slots put at a place, over what is there.                               *)
Overlay(d, at, slots) ==
  LET new == at .. (at + Len(slots) - 1) IN
  [s \in DOMAIN d \cup new |-> IF s \in new THEN slots[s - at + 1] ELSE d[s]]

WordsAt(s) ==
  IF s \in DOMAIN disk /\ disk[s].kind = "words" THEN disk[s].val ELSE Zeros

(* A bitmap fills a block, BitsPerSlot bits a slot.                        *)
BitmapSlots(used, bs) ==
  [k \in 1 .. bs |->
     Slot("bits", used \cap RunBits((k - 1) * BitsPerSlot, BitsPerSlot))]
UsedBits(block, bs) ==
  UNION {disk[s].val : s \in {t \in RunBits(block * bs, bs) :
                                t \in DOMAIN disk /\ disk[t].kind = "bits"}}

InodeRecord(n) == [k \in 1 .. InodeSlots |-> Slot("inode", <<n, k>>)]
InodeAt(table, bs, n, perGroup) == table * bs + ((n - 1) % perGroup) * InodeSlots

(* "." and "..", the second with the rest of the block, cut to 16 bits.    *)
DirSlots(bs) ==
  [k \in 1 .. bs |-> Slot("dir", IF k = 1 THEN (bs * 32 - 12) % 65536 ELSE 0)]

-----------------------------------------------------------------------------
(* Mutant: the descriptor comes right after the superblock. *)
GdtSlotNext(c) == SbSlot + 32

(* The first descriptor is put at block 1, whatever the block size.        *)
GdtSlot(c) == c.blockSize

BlockBits(c) ==
  (0 .. (MetadataBlocks(c) - 1)) \cup (c.sizeBlocks .. (BlocksPerGroup(c) - 1))

(* Mutant: the tail of the bitmap is left clear. *)
InodeBitsUnpadded(c) == 0 .. 9

InodeBits(c) == (0 .. 9) \cup (c.inodesPerGroup .. (BlocksPerGroup(c) - 1))

(* The writes of format, in its order, but for the last byte.              *)
Writes(c) ==
  << [at |-> SbSlot,                             slots |-> EncodeSb(SbOf(c))],
     [at |-> GdtSlot(c),                         slots |-> EncodeGd(GdOf(c))],
     [at |-> InodeAt(4, c.blockSize, 2, c.inodesPerGroup), slots |-> InodeRecord(2)],
     [at |-> RootDirBlock(c) * c.blockSize,      slots |-> DirSlots(c.blockSize)],
     [at |-> 2 * c.blockSize, slots |-> BitmapSlots(BlockBits(c), c.blockSize)],
     [at |-> 3 * c.blockSize, slots |-> BitmapSlots(InodeBits(c), c.blockSize)] >>

Init ==
  /\ config \in Configs
  /\ phase = "start" /\ written = 0 /\ disk = <<>> /\ size = 0
  /\ sb = <<>> /\ gd = <<>>
  /\ inodes = {} /\ runs = {} /\ flushed = TRUE /\ ops = 0

FormatStart ==
  /\ phase = "start"
  /\ phase' = IF Fits(config) THEN "writing" ELSE "refused"
  /\ UNCHANGED <<config, written, disk, size, handle, handed, flushed, ops>>

(* Setting the bit of a metadata block past the bitmap's end panics.       *)
FormatWrite ==
  /\ phase = "writing" /\ written < Len(Writes(config))
  /\ IF written = 4 /\ MetadataBlocks(config) > BlocksPerGroup(config)
     THEN phase' = "aborted" /\ UNCHANGED <<disk, written>>
     ELSE /\ disk' = Overlay(disk, Writes(config)[written + 1].at,
                                   Writes(config)[written + 1].slots)
          /\ written' = written + 1 /\ UNCHANGED phase
  /\ UNCHANGED <<config, size, handle, handed, flushed, ops>>

(* The image's last byte, zero before too, gives the image its length.     *)
FormatEnd ==
  /\ phase = "writing" /\ written = Len(Writes(config))
  /\ size' = config.sizeBlocks /\ phase' = "image"
  /\ UNCHANGED <<config, written, disk, handle, handed, flushed, ops>>

-----------------------------------------------------------------------------
(* open: the superblock at byte 1024, the first descriptor a block on.     *)
Found ==
  LET w == WordsAt(SbSlot)
      v == WordsAt(SbSlot + 1)
      s == DecodeSb(w, v)
  IN [ok |-> /\ At(v, 24) = Magic /\ At32(w, 24) \in {0, 1, 2, 6}
             /\ s.blocksPerGroup > 0 /\ s.inodesPerGroup > 0,
      sb |-> s,
      gd |-> DecodeGd(WordsAt((s.firstDataBlock + 1) * s.blockSize))]

Open ==
  /\ phase \in {"image", "open"}
  /\ IF Found.ok
     THEN phase' = "open" /\ sb' = Found.sb /\ gd' = Found.gd
     ELSE phase' = "unopened" /\ UNCHANGED handle
  /\ flushed /\ UNCHANGED flushed
  /\ UNCHANGED <<config, written, disk, size, handed, ops>>

Call ==
  /\ phase = "open" /\ ops < MaxOps
  /\ ops' = ops + 1
  /\ UNCHANGED <<config, written, size>>

Below(a, b) == IF a > b THEN a - b ELSE 0

AllocateInode ==
  /\ Call /\ UNCHANGED <<runs, phase>>
  /\ \E bit \in 0 .. (sb.inodesPerGroup - 1) :
       /\ bit < sb.blockSize * BitsPerSlot
       /\ IsFirstZero(UsedBits(gd.inodeBitmap, sb.blockSize), bit, sb.inodesPerGroup)
       /\ disk' = Overlay(disk, gd.inodeBitmap * sb.blockSize,
            BitmapSlots(UsedBits(gd.inodeBitmap, sb.blockSize) \cup {bit}, sb.blockSize))
       /\ inodes' = inodes \cup {bit + 1}
  /\ gd' = [gd EXCEPT !.freeInodes = Below(@, 1)]
  /\ sb' = [sb EXCEPT !.freeInodes = Below(@, 1)]
  /\ flushed' = FALSE

BlockLimit(s) == s.blocksCount

(* Bits past the end of the bitmap's block look clear, but none can be set *)
(* there.                                                                  *)
AllocateBlocks(count) ==
  LET used == UsedBits(gd.blockBitmap, sb.blockSize)
      cap == sb.blockSize * BitsPerSlot
  IN
  /\ Call /\ UNCHANGED inodes
  /\ \E start \in 0 .. BlockLimit(sb) :
       /\ IsFirstFreeRun(used, start, count, BlockLimit(sb))
       /\ IF start + count > cap
          THEN phase' = "aborted" /\ UNCHANGED <<disk, runs, handle, flushed>>
          ELSE /\ disk' = Overlay(disk, gd.blockBitmap * sb.blockSize,
                     BitmapSlots(used \cup RunBits(start, count), sb.blockSize))
               /\ runs' = runs \cup {[start |-> start, count |-> count]}
               /\ gd' = [gd EXCEPT !.freeBlocks = Below(@, count)]
               /\ sb' = [sb EXCEPT !.freeBlocks = Below(@, count)]
               /\ flushed' = FALSE /\ UNCHANGED phase

FreeInode(n) ==
  /\ n \in inodes /\ Call /\ UNCHANGED <<runs, phase>>
  /\ disk' = Overlay(disk, gd.inodeBitmap * sb.blockSize,
       BitmapSlots(UsedBits(gd.inodeBitmap, sb.blockSize) \ {n - 1}, sb.blockSize))
  /\ inodes' = inodes \ {n}
  /\ gd' = [gd EXCEPT !.freeInodes = @ + 1]
  /\ sb' = [sb EXCEPT !.freeInodes = @ + 1]
  /\ flushed' = FALSE

FreeRun(run) ==
  /\ run \in runs /\ Call /\ UNCHANGED <<inodes, phase>>
  /\ disk' = Overlay(disk, gd.blockBitmap * sb.blockSize,
       BitmapSlots(UsedBits(gd.blockBitmap, sb.blockSize) \ RunBits(run.start, run.count),
                   sb.blockSize))
  /\ runs' = runs \ {run}
  /\ gd' = [gd EXCEPT !.freeBlocks = @ + run.count]
  /\ sb' = [sb EXCEPT !.freeBlocks = @ + run.count]
  /\ flushed' = FALSE

(* write_inode, of an inode the superblock admits.                         *)
WriteInode(n) ==
  /\ n \in inodes /\ n <= sb.inodesCount /\ (n - 1) \div sb.inodesPerGroup = 0
  /\ Call /\ UNCHANGED <<handle, handed, phase, flushed>>
  /\ disk' = Overlay(disk, InodeAt(gd.inodeTable, sb.blockSize, n, sb.inodesPerGroup),
                     InodeRecord(n))

(* A file's bytes go to the run it was given.                              *)
WriteFile(run) ==
  /\ run \in runs /\ Call /\ UNCHANGED <<handle, handed, phase, flushed>>
  /\ disk' = Overlay(disk, run.start * sb.blockSize,
                     [k \in 1 .. run.count * sb.blockSize |-> Slot("data", {})])

(* mkdir: (block_size as u16) - 12 is 0 - 12 with blocks of 64 KiB.        *)
WriteDir(run) ==
  /\ run \in runs /\ run.count = 1
  /\ disk' = Overlay(disk, run.start * sb.blockSize, DirSlots(sb.blockSize))
  /\ Call /\ UNCHANGED <<phase, handle, handed, flushed>>

(* flush_metadata: the superblock, then the descriptors (those of groups   *)
(* but the first are zero and stay so).                                    *)
FlushMetadata ==
  /\ ~ flushed /\ Call /\ UNCHANGED <<handle, handed, phase>>
  /\ disk' = Overlay(Overlay(disk, SbSlot, EncodeSb(sb)),
                     (sb.firstDataBlock + 1) * sb.blockSize, EncodeGd(gd))
  /\ flushed' = TRUE

Next ==
  \/ FormatStart \/ FormatWrite \/ FormatEnd
  \/ Open
  \/ AllocateInode \/ FlushMetadata
  \/ \E count \in Counts : AllocateBlocks(count)
  \/ \E n \in inodes : FreeInode(n) \/ WriteInode(n)
  \/ \E run \in runs : FreeRun(run) \/ WriteFile(run) \/ WriteDir(run)

Spec == Init /\ [][Next]_vars

-----------------------------------------------------------------------------
Imaged == phase \in {"image", "open", "unopened"}

(* Whatever was asked of the handle and flushed, no structure comes to lie *)
(* on the bytes of another: open finds the layout that format was asked    *)
(* for, and the counts are those of the handle that flushed, those of the  *)
(* descriptor without their high halves.  So it is with one group or more, *)
(* but not with blocks of 1 KiB.                                           *)
LowHalves(g) == [g EXCEPT !.freeBlocks = Lo(@), !.freeInodes = Lo(@)]
ReadsBack ==
  Imaged /\ flushed /\ config.blockSize # 32 =>
    /\ Found.ok
    /\ Found.sb = IF phase = "open" THEN sb ELSE SbOf(config)
    /\ Found.gd = LowHalves(IF phase = "open" THEN gd ELSE GdOf(config))
    /\ [Found.sb EXCEPT !.freeBlocks = 0, !.freeInodes = 0]
         = [SbOf(config) EXCEPT !.freeBlocks = 0, !.freeInodes = 0]

(* On the device the free counts of the superblock are the clear bits of   *)
(* the whole bitmaps, padding included (mkfs.rs:37-38: "free counts        *)
(* matching the bitmaps"), whatever becomes of the descriptor's; these are *)
(* the clear bits too as long as they fit.                                 *)
ClearBits(block) ==
  BlocksPerGroup(config) - Cardinality(UsedBits(block, config.blockSize))
CountsMatchBitmaps ==
  Imaged /\ flushed /\ OneGroup(config) =>
    /\ Found.sb.freeBlocks = ClearBits(2) /\ Found.sb.freeInodes = ClearBits(3)
    /\ FitsDescriptor(config) =>
         Found.gd.freeBlocks = ClearBits(2) /\ Found.gd.freeInodes = ClearBits(3)

(* The allocators hand out what the layout has: blocks of the image past   *)
(* the root's, in no two runs, and inodes past the reserved ten whose slot *)
(* ends inside the inode table.  So it is with every configuration that    *)
(* format accepts, also where open reads a superblock that it did not      *)
(* write, or the image goes on past its first group.                       *)
HandedOutExists ==
  /\ \A run \in runs :
       /\ run.start > RootDirBlock(config) /\ run.start + run.count <= config.sizeBlocks
       /\ \A other \in runs \ {run} :
            RunBits(run.start, run.count) \cap RunBits(other.start, other.count) = {}
  /\ \A n \in inodes : n > 10 /\ 4 * config.blockSize + n * InodeSlots
                                   <= RootDirBlock(config) * config.blockSize

(* No write of an inode or of a file's bytes reaches the root directory:   *)
(* its inode and its block, which "." and ".." fill, stay what they were,  *)
(* with every configuration that format accepts.                           *)
RootStands ==
  Imaged =>
    /\ \A k \in 1 .. InodeSlots :
         LET s == InodeAt(4, config.blockSize, 2, config.inodesPerGroup) + k - 1
         IN disk[s] = Slot("inode", <<2, k>>)
    /\ \A s \in RunBits(RootDirBlock(config) * config.blockSize, config.blockSize) :
         disk[s].kind = "dir"
    /\ 12 + disk[RootDirBlock(config) * config.blockSize].val = config.blockSize * 32
=============================================================================
