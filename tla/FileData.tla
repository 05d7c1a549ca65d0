------------------------------ MODULE FileData ------------------------------
(***************************************************************************)
(* The bytes of files: create_file, truncate, unlink and read_file of      *)
(* ext4/src/filesystem.rs over extent lists and block contents.  Names,    *)
(* directories and inode numbers are Filesystem's; here a file has its     *)
(* name or is absent.  Besides the files this handle writes (one extent),  *)
(* a file may have any leaf that another writer left in the inode: holes,  *)
(* several extents, uninitialized ones (ForeignFiles).                     *)
(*                                                                         *)
(* A data byte is a positive number that tells whose byte it is and where  *)
(* in the payload; 0 is the zero byte.                                     *)
(***************************************************************************)
EXTENDS Bitmap, Extents

CONSTANTS Files,          \* the names in use
          Payloads,       \* what create_file is given
          NewSizes,       \* what truncate is given
          BlockSize,
          NumBlocks,      \* blocks_count; block 0 stands for the metadata
          LenModulus,     \* values of a 16-bit length: 65536
          ForeignFiles,   \* files that another writer left, alone on an image
          Absent

Blocks == 0 .. (NumBlocks - 1)
CeilDiv(a, b) == (a + b - 1) \div b
InitMaxLen == LenModulus \div 2      \* EXTENT_UNINIT_THRESHOLD
BlocksOfExtent(ext) == RunBits(ext.phys, ext.len)

(* A file's leaf: extents in the slots of the inode, in their order. *)
MaxEntries == 4
ExtentType == [log : Nat, len : 0 .. InitMaxLen, phys : Blocks, uninit : BOOLEAN]
IsLeaf(extents) ==
  /\ DOMAIN extents \subseteq 1 .. MaxEntries
  /\ extents = [k \in DOMAIN extents |-> extents[k]]
  /\ \A k \in DOMAIN extents : extents[k] \in ExtentType
IsFile(rec) ==
  /\ rec = [size |-> rec.size, extents |-> rec.extents]
  /\ rec.size \in Nat /\ IsLeaf(rec.extents)

(* Where Absent may not lie. *)
FileType ==
  [size : Nat, extents : UNION {[D -> ExtentType] : D \in SUBSET (1 .. MaxEntries)}]

ASSUME FileDataAssumption ==
  /\ BlockSize \in Nat \ {0} /\ NumBlocks \in Nat \ {0}
  /\ LenModulus \in Nat \ {0} /\ LenModulus % 2 = 0
  /\ Payloads \subseteq Seq(Nat) /\ NewSizes \subseteq Nat
  /\ Absent \notin Seq(Nat) \cup FileType

(* A foreign file is sound: no metadata, no block mapped twice. *)
ASSUME ForeignAssumption ==
  \A rec \in ForeignFiles :
    /\ IsFile(rec)
    /\ \A j \in DOMAIN rec.extents :
         /\ BlocksOfExtent(rec.extents[j]) \subseteq Blocks \ {0}
         /\ \A k \in DOMAIN rec.extents \ {j} :
              BlocksOfExtent(rec.extents[j]) \cap BlocksOfExtent(rec.extents[k]) = {}

VARIABLES blockBitmap,    \* the set bits
          files,          \* size and extents, or Absent
          bytes,          \* what each block holds
          outcome

fileVars == <<blockBitmap, files, bytes, outcome>>

ExtentsOf(f) == IF files[f] = Absent THEN {} ELSE
  {files[f].extents[k] : k \in DOMAIN files[f].extents}

-----------------------------------------------------------------------------
(* Reading: holes and uninitialized extents give zeros. *)
ByteAt(extents, pos) ==
  LET block == Resolve(extents, (pos - 1) \div BlockSize) IN
  IF block = Hole THEN 0 ELSE bytes[block][((pos - 1) % BlockSize) + 1]

ReadFile(rec) == [pos \in 1 .. rec.size |-> ByteAt(rec.extents, pos)]

contents == [f \in Files |-> IF files[f] = Absent THEN Absent ELSE ReadFile(files[f])]

Store == INSTANCE FileStore

-----------------------------------------------------------------------------
ZeroBlock == [i \in 1 .. BlockSize |-> 0]

(* A foreign file's blocks are full of its bytes, beyond its size too.     *)
ForeignBlock(b) == [i \in 1 .. BlockSize |-> b * BlockSize + i]

FileInit ==
  /\ outcome = "ok"
  /\ \/ /\ files = [f \in Files |-> Absent]
        /\ blockBitmap = {0}
        /\ bytes = [b \in Blocks |-> ZeroBlock]
     \/ \E f \in Files, rec \in ForeignFiles :
          /\ files = [g \in Files |-> IF g = f THEN rec ELSE Absent]
          /\ blockBitmap = {0} \cup
               UNION {BlocksOfExtent(rec.extents[k]) : k \in DOMAIN rec.extents}
          /\ bytes = [b \in Blocks |-> ForeignBlock(b)]

Refuse == outcome' = "refused" /\ UNCHANGED <<blockBitmap, files, bytes>>

-----------------------------------------------------------------------------
(* Mutant: the limit is off by one. *)
EncodableOneMore(n) == n % LenModulus <= InitMaxLen + 1

(* A length that Extent::encode_into takes. *)
Encodable(n) == n % LenModulus <= InitMaxLen

(* create_file.  The number of blocks becomes a 16-bit length; an encoded  *)
(* length above InitMaxLen is an error that strikes when the blocks are    *)
(* already taken.                                                          *)
(* Mutant: the buffer is as long as the data, the last block keeps its end. *)
FilledUnpadded(data, s, n) ==
  [b \in Blocks |->
     IF b \notin RunBits(s, n) THEN bytes[b]
     ELSE [i \in 1 .. BlockSize |->
             LET pos == (b - s) * BlockSize + i IN
             IF pos <= Len(data) THEN data[pos] ELSE bytes[b][i]]]

(* The blocks from s on receive the data, padded with zeros. *)
Filled(data, s, n) ==
  [b \in Blocks |->
     IF b \notin RunBits(s, n) THEN bytes[b]
     ELSE [i \in 1 .. BlockSize |->
             LET pos == (b - s) * BlockSize + i IN
             IF pos <= Len(data) THEN data[pos] ELSE 0]]

CreateNoRoom(n) ==
  /\ n > 0 /\ ~ HasFreeRun(blockBitmap, n, NumBlocks)
  /\ outcome' = "nospace"
  /\ UNCHANGED <<blockBitmap, files, bytes>>

CreateUnencodable(n) ==
  /\ ~ Encodable(n)
  /\ \E s \in Blocks :
       /\ IsFirstFreeRun(blockBitmap, s, n, NumBlocks)
       /\ blockBitmap' = blockBitmap \cup RunBits(s, n)
  /\ outcome' = "refused"
  /\ UNCHANGED <<files, bytes>>

CreateEmpty(f, data) ==
  /\ data = <<>>
  /\ files' = [files EXCEPT ![f] = [size |-> 0, extents |-> <<>>]]
  /\ outcome' = "ok"
  /\ UNCHANGED <<blockBitmap, bytes>>

CreateFull(f, data, n) ==
  /\ n > 0 /\ Encodable(n)
  /\ \E s \in Blocks :
       /\ IsFirstFreeRun(blockBitmap, s, n, NumBlocks)
       /\ blockBitmap' = blockBitmap \cup RunBits(s, n)
       /\ bytes' = Filled(data, s, n)
       /\ files' = [files EXCEPT ![f] =
            [size |-> Len(data),
             extents |-> <<Extent(0, n % LenModulus, s, FALSE)>>]]
  /\ outcome' = "ok"

CreateFile(f, data) ==
  LET n == CeilDiv(Len(data), BlockSize) IN
  IF files[f] # Absent THEN Refuse
  ELSE \/ CreateNoRoom(n)
       \/ CreateUnencodable(n)
       \/ CreateEmpty(f, data)
       \/ CreateFull(f, data, n)

-----------------------------------------------------------------------------
(* Mutant: only the first extent's blocks are collected. *)
OwnedFirstOnly(rec) ==
  IF rec.size = 0 THEN {}
  ELSE UNION {BlocksOfExtent(rec.extents[k]) :
                k \in {j \in DOMAIN rec.extents : j = 1 /\ ~ rec.extents[j].uninit}}

(* unlink frees what is initialized, and only of a file with a size. *)
Owned(rec) ==
  IF rec.size = 0 THEN {}
  ELSE UNION {BlocksOfExtent(rec.extents[k]) :
                k \in {j \in DOMAIN rec.extents : ~ rec.extents[j].uninit}}

Unlink(f) ==
  IF files[f] = Absent THEN Refuse
  ELSE /\ blockBitmap' = blockBitmap \ Owned(files[f])
       /\ files' = [files EXCEPT ![f] = Absent]
       /\ outcome' = "ok"
       /\ UNCHANGED bytes

-----------------------------------------------------------------------------
(* truncate. *)
SlotLen(extents, k) == IF k \in DOMAIN extents THEN extents[k].len ELSE 0
Lens(extents) ==
  SlotLen(extents, 1) + SlotLen(extents, 2) + SlotLen(extents, 3) + SlotLen(extents, 4)

Capacity(rec) == IF rec.size = 0 THEN 0 ELSE Lens(rec.extents) * BlockSize

Grow(f, n) ==
  IF n > Capacity(files[f]) THEN Refuse
  ELSE /\ files' = [files EXCEPT ![f].size = n]
       /\ outcome' = "ok"
       /\ UNCHANGED <<blockBitmap, bytes>>

(* The first logical block that is wholly past the new end. *)
Cutoff(n) == CeilDiv(n, BlockSize)

(* Mutant: the suffix to free is counted from the start of the extent. *)
CutBlocksFromStart(ext, cut) ==
  IF ext.uninit THEN {}
  ELSE {b \in BlocksOfExtent(ext) : b - ext.phys < ext.log + ext.len - cut}

(* The blocks of ext that lie past the cutoff; those of an uninitialized   *)
(* extent stay allocated.                                                  *)
CutBlocks(ext, cut) ==
  IF ext.uninit THEN {}
  ELSE {b \in BlocksOfExtent(ext) : ext.log + (b - ext.phys) >= cut}

Survives(ext, cut) == ext.log + ext.len <= cut \/ ext.log < cut

Shortened(ext, cut) ==
  IF ext.log + ext.len <= cut THEN ext ELSE [ext EXCEPT !.len = cut - ext.log]

(* Mutant: an extent that reaches past the cutoff goes as a whole. *)
SurvivingWholeOnly(extents, cut) ==
  [k \in {j \in DOMAIN extents : extents[j].log + extents[j].len <= cut} |-> extents[k]]

(* The leaf without what is past the cutoff, in its order. *)
Surviving(extents, cut) ==
  [k \in {j \in DOMAIN extents : Survives(extents[j], cut)} |->
     Shortened(extents[k], cut)]

Shrink(f, n) ==
  LET cut == Cutoff(n) IN
  /\ blockBitmap' = blockBitmap \ UNION {CutBlocks(ext, cut) : ext \in ExtentsOf(f)}
  /\ files' = [files EXCEPT ![f] =
                 [size |-> n, extents |-> Surviving(@.extents, cut)]]
  /\ outcome' = "ok"
  /\ UNCHANGED bytes

Truncate(f, n) ==
  \/ files[f] = Absent /\ Refuse
  \/ files[f] # Absent /\ files[f].size = n /\ outcome' = "ok"
     /\ UNCHANGED <<blockBitmap, files, bytes>>
  \/ files[f] # Absent /\ files[f].size < n /\ Grow(f, n)
  \/ files[f] # Absent /\ files[f].size > n /\ Shrink(f, n)

FileNext ==
  \E f \in Files :
    \/ \E data \in Payloads : CreateFile(f, data)
    \/ \E n \in NewSizes : Truncate(f, n)
    \/ Unlink(f)

FileSpec == FileInit /\ [][FileNext]_fileVars

-----------------------------------------------------------------------------
TypeOK ==
  /\ blockBitmap \subseteq Blocks
  /\ files = [f \in Files |-> files[f]]
  /\ \A f \in Files : files[f] # Absent => IsFile(files[f])
  /\ bytes \in [Blocks -> [1 .. BlockSize -> Nat]]
  /\ outcome \in {"ok", "refused", "nospace"}

(* Whatever calls are made on other files, and however truncate cuts its   *)
(* extents and create_file reuses freed blocks, a file reads as what was   *)
(* written to it: the code implements FileStore.                           *)
IsStore == Store!StoreSpec

(* A block that a file reads from is allocated, is no metadata, and is     *)
(* mapped once.                                                            *)
MappedOnce ==
  \A f \in Files : \A ext \in ExtentsOf(f) :
    /\ BlocksOfExtent(ext) \subseteq blockBitmap \ {0}
    /\ \A g \in Files : \A other \in ExtentsOf(g) :
         <<f, ext>> # <<g, other>> =>
           BlocksOfExtent(ext) \cap BlocksOfExtent(other) = {}

(* The bytes past a file's end, which a later grow shows, are zeros when   *)
(* the file is made (nothing of the file that had the blocks before), and  *)
(* no call, on any file, changes a byte of a file's blocks: a grow shows   *)
(* zeros or what the file itself once held there.                          *)
SlackBytes(rec) ==
  {ByteAt(rec.extents, pos) : pos \in (rec.size + 1) .. Capacity(rec)}
SlackIsZero(f) == files[f] # Absent => SlackBytes(files[f]) \subseteq {0}

KeepsItsBytes(f) ==
  \A pos \in 1 .. Capacity(files[f]) :
    pos <= Capacity(files[f])' =>
      ByteAt(files[f].extents, pos)' = ByteAt(files[f].extents, pos)

SlackIsOwn ==
  [][\A f \in Files :
       IF files[f] = Absent THEN SlackIsZero(f)'
       ELSE files'[f] # Absent => KeepsItsBytes(f)]_fileVars

(* truncate, on what it says of growing (filesystem.rs:1246-1248): the     *)
(* bytes between the old and the new size read as zeros.                   *)
GrownReadsZeros ==
  [][\A f \in Files :
       files[f] # Absent /\ files'[f] # Absent /\ files'[f].size > files[f].size =>
         \A pos \in (files[f].size + 1) .. files'[f].size : contents'[f][pos] = 0]_fileVars

(* The blocks set in the bitmap that no file has.  They never come back,   *)
(* and a call that succeeds adds to them only the blocks of uninitialized  *)
(* extents, which unlink and truncate pass over.                           *)
Mapped == UNION {BlocksOfExtent(ext) : ext \in UNION {ExtentsOf(f) : f \in Files}}
Uninitialized ==
  UNION {BlocksOfExtent(ext) :
           ext \in {e \in UNION {ExtentsOf(f) : f \in Files} : e.uninit}}
Lost == blockBitmap \ ({0} \cup Mapped)

OnlyUninitIsLost ==
  [][/\ Lost \subseteq Lost'
     /\ outcome' = "ok" => Lost' \ Lost \subseteq Uninitialized]_fileVars
=============================================================================
