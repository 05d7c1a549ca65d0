# justext4 in TLA+

A verification project for justext4, a pure-Rust library and command line
that formats, reads and edits small ext4 images. It holds TLA+ modules
translated from the source, TLC configurations that check them on small
instances, and theorems that TLAPS proves for every value of the constants.

## 1. Inventory of the system

| Component | Source | State | Operations |
|---|---|---|---|
| Bitmap searches | `spec/src/bitmap.rs` | none (pure, over a byte buffer) | `get_bit`, `set_bit`, `clear_bit`, `find_first_zero`, `find_first_zero_run` |
| Directory block | `spec/src/dir_entry.rs`, `add_dir_entry`, `remove_dir_entry`, `update_dotdot` in `ext4/src/filesystem.rs` | the one data block of a directory: entries with offset, `rec_len`, inode, name, type | decode walk, insertion into the last entry's slack, removal by merge or tombstone, rewrite of `..` |
| Filesystem handle | `ext4/src/filesystem.rs` | on the image: block bitmap, inode bitmap, inode table, directory and file blocks, free counts; in memory: a copy of the superblock and the descriptor table | `open`, `read_inode`, `read_file`, `read_dir`, `lookup`, `open_path`, `create_file`, `mkdir`, `symlink`, `unlink`, `rmdir`, `rename`, `truncate`, `chmod`, `chown`, `utime` |
| Extent tree reader | `resolve_logical_block`, `read_file`; `spec/src/extent.rs` | none | walk of index nodes to a leaf, holes, depth cap |
| mkfs | `ext4/src/mkfs.rs` | none (writes an image) | `Layout::from_config`, `format` |
| Codecs | `spec/src/{superblock,group_descriptor,inode,extent,dir_entry}.rs` | none | encode and decode, with width and range checks |
| Command line | `cli/src/lib.rs` | a work stack while a host tree is copied | `format`, `inspect`, `touch`, `build-from-tree`, `chmod`, `chown`, `utime`, `cat` |
| Errors | `ext4/src/error.rs` | none | one variant per refusal |

**How they interact.** Everything is a synchronous call by one owner of the
handle (`&mut self`): there are no threads, callbacks or messages. The command
line calls `mkfs::format`, opens the image and calls the handle. Each write
operation of the handle is a fixed course of reads and writes of the image:
resolve the path, check, change the bitmaps, write inodes, edit one or two
directory blocks, flush the counts. The allocator (`allocate_inode`,
`allocate_blocks_contiguous`) calls the bitmap searches; `lookup` and the block
edits walk directory blocks; every other piece of state is shared through the
image only, apart from the counts, which live twice: in the handle and on disk.

**What is hard here.** Not concurrency, but:

* *failure half way*: an operation writes, then finds that it has no room and
  returns; nothing undoes what it wrote;
* *long sequences*: inode numbers and blocks are reused at once, directory
  blocks are merged and split, directories move; an illegal state may show
  several calls after the call that caused it;
* *two copies of the counts*, changed by failed calls, flushed by successful
  ones, reloaded by `open`;
* *paths with `.` and `..`*, which resolve to real entries;
* *boundaries*: full directory blocks, fragmented bitmaps, sizes at a multiple
  of the block, 16-bit fields;
* *a crash between two of the writes* of one operation;
* *images of other writers*: leaves of several extents, holes, uninitialized
  extents, index nodes that form any graph.

**What makes each component correct.**

* Bitmap searches: the answer is the lowest clear bit, or the lowest run, below
  the bound, and `None` means that there is none.
* Directory block: entries tile the block, whatever edits were made; a name
  appears once; the block behaves as a map from names to inodes; space comes
  back.
* Handle: no block has two owners and none is lost by a call that succeeds; no
  name leads to a freed inode; the names form a tree, and `links_count`,
  `used_dirs_count` and the dots agree with it; counts follow the bitmaps; a
  call either makes its one change of the namespace or none.
* File contents: a file reads as what was written to it, whatever is done to
  other files.
* mkfs: the image it writes is one the handle can open, with no two structures
  in one place. Some of the configurations that `format` accepts fall short of
  this (section 4); what holds of them all the same is told apart.
* Inode records: a call changes the attributes it is about, to the values it was
  given, and no others.
* Extent reader: a logical block maps to the block its extent says, the walk
  ends, holes read as zeros.
* Command line: a copied tree is what v0 can hold of the host's, whatever the
  order of the walk.

`PROJECT.json` lists the hazards by source line, each with the properties that
cover it, or with why none does yet.

## 2. Modules

| Module | What it is |
|---|---|
| `Bitmap` | contract of the two bitmap searches: first free run, first zero |
| `SearchBounds` | the arguments over which the searches are taken |
| `FindZeroRun`, `FindZero` | the searches, one step per loop iteration, checked and proved against `Bitmap` |
| `DirBlock` | the directory block as a set of entries and the edits as operators |
| `DirBlock_proofs` | lemmas: each edit keeps a block sound, and what it does to the names |
| `Directory` | a state machine: one directory under every sequence of edits |
| `Directory_proofs` | its theorems, the refinement of `NameMap` among them |
| `NameMap` | abstract: a finite map that may refuse an insertion |
| `Filesystem` | the core: the handle and the image, one action per public operation |
| `FilesystemProperties` | its invariants, action properties and the refinement mapping |
| `Filesystem_proofs` | the inductive invariant of `Filesystem`; its theorems on blocks, sizes and counts, then those on the tree of names |
| `Namespace` | abstract: a tree of paths, changed in one place per call |
| `Namespace_proofs` | that `Filesystem` implements it, from the tree of names; the theorems of `HostTree`, which rest on that |
| `FsCrash` | `Filesystem`'s calls as the device writes they issue, and a crash between any two |
| `FsCrash_proofs` | its theorems: what the writes add up to, what the image between two of them shows, and what mends it after a crash |
| `Extents` | leaf extents and the search of a leaf |
| `FileData` | the bytes of files: `create_file`, `truncate`, `unlink`, `read_file` |
| `FileStore` | abstract: a map from files to byte strings |
| `FileData_proofs` | its theorems |
| `ExtentTree` | `resolve_logical_block` over any graph of nodes, one iteration a step |
| `Mkfs` | `format` write by write, `open` on the result, the handle's helpers on that layout |
| `Mkfs_proofs` | its theorems |
| `InodeFields` | inode records as the codec writes them, and the calls that rewrite one |
| `Attributes` | abstract: the attributes of an object |
| `Parts_proofs` | theorems of the two searches, of `ExtentTree` and of `InodeFields` |
| `HostTree` | `populate_from_host_tree` as a walk with a stack over `Filesystem`'s calls |
| `MCParts` | the parts that share no state with the handle (`FindZero`, `FindZeroRun`, `ExtentTree`, `InodeFields`), one of them per behaviour, for TLC |
| the other `MC...` | values of the constants for TLC, symmetry |

`Filesystem` composes the others: it EXTENDS `DirBlock` for every directory
block and `Bitmap` for the allocators, using the searches' contract
(`IsFirstFreeRun`, `IsFirstZero`) that `FindZeroRun` and `FindZero` are shown
to keep. `FsCrash` and `HostTree` EXTEND `Filesystem` (through
`FilesystemProperties`) and drive its actions; `FsCrash` also INSTANCEs the
properties on the image as it is between two writes. `FileData` uses the same
contract of the run search (`Bitmap`) and shares `Extents` with `ExtentTree`.

### `FindZeroRun`, `FindZero`

Variables are the function's arguments and locals. `BufBits` (bits in the
buffer) and `MaxBit` (the `max_bit` argument) are independent: the block
allocator passes `blocks_count`, which may exceed the buffer. A bit past the
end reads as clear in `get_bit`, while `find_first_zero` bounds its bytes by
the buffer's length; the models keep that difference. `FindZero` takes the
number of bits of a byte as a constant (`ByteBits`): 8 in the code, 3 in the
run, and arbitrary in the proof.

### `DirBlock`, `Directory`

A block is the set of its entries `[off, recLen, inode, name, ftype]`; the walk
of the code is the order of `off`. Bytes are not modelled; lengths are: a name
is a value with a length, `ActualSize` is `pad4(8 + len)`, and `Fits`, `Add`,
`Remove` and `SetDotDot` are the arithmetic of `add_dir_entry`,
`remove_dir_entry` and `update_dotdot`, `Remove` with both of its branches.
`WellFormed` is what `DirEntry::decode` demands; `Tiled` adds that the walk
ends exactly at the block's end.

`Directory` applies these edits in the combinations the public operations make:
add after a failed lookup, remove after a successful one, both (new first) for
a rename inside the directory, `..` rewritten for a move. Assumed of the
callers: a name of at most 255 bytes, a block of fewer than 65536 bytes.

### `Filesystem`

| Variable | Code |
|---|---|
| `blockBitmap`, `inodeBitmap` | the bitmap blocks of group 0 |
| `inodes` | the inode table: the mode's type, `links_count`, `size` and the extent (start, len) |
| `dirBlocks` | the entries of each block that holds a directory |
| `diskCounts` | `free_blocks_count`, `free_inodes_count`, `used_dirs_count` as on disk |
| `counts` | the handle's copy of them (`self.superblock`, `self.gdt[0]`) |
| `outcome` | what the last call returned, as far as the properties tell apart: `ok`, `same` (success with nothing to change), `refused` (before any write), `nospace`, `full` |

With one group (all that v0 writes to) every operation changes the superblock's
counts and the descriptor's alike, so they are one record. `open_path`,
`lookup` and `read_dir` are the operators `OpenPath`, `Lookup`, `DirEntries`.

| Action | Code | Outcomes kept apart |
|---|---|---|
| `CreateFile`, `Mkdir`, `Symlink` (all through `Insert`) | the function of that name, with `allocate_inode`, `allocate_blocks_contiguous`, `add_dir_entry`, `flush_metadata` | refused; no inode; no blocks, the inode bit already set (`NoRunLeft`); parent full, inode and blocks already written (`ParentFull`); done (`Linked`) |
| `Unlink`, `Rmdir` | with `free_blocks`, `free_inode`, `remove_dir_entry` | refused; done. The parent's inode is written last in `rmdir`, from the copy read first |
| `Rename` | with `unlink` of the destination, both block edits, `update_dotdot` | refused; same object; directory full, the destination perhaps already unlinked (`MoveFull`); done (`Moved`) |
| `Truncate` | `Grow` within the blocks at hand, `Shrink` | refused; same size; done |
| `SetAttr` | `chmod`, `chown`, `utime` | refused; done (no field of the model changes) |
| `Reopen` | the handle dropped and `open` called again | |

`Init` is the image that `mkfs::format` writes, with the metadata blocks below
`RootBlock`.

Callers. A path is a sequence of at most `MaxDepth` components for the parent
and one for the name. By default the components are ordinary names and no
caller moves a directory below itself (`SubtreeMoves = FALSE`); the code
refuses neither, and two runs lift these restrictions and show what follows
(section 4). The positive results about trees are therefore results about
callers that respect them.

### `FsCrash`

The variables of `Filesystem` hold what the device will hold when the call under
way has ended, `image` what it holds now, `todo` the writes in between. A step
of a call computes the end state with `Filesystem`'s own action and queues the
writes in the order of the code (`InsertCourse`, `RemoveCourse`, `MoveCourse`,
`ResizeCourse`); `WriteNext` carries one out, and passes over those that change
nothing on the device (`Pending`). `WritesAddUp` checks that the
queue leads where the action says. A call that writes nothing is no step here
(what it returns is `Filesystem`'s subject). An empty file has the course of a
symlink without a block, so `create_file` with size 0 is left out. `Crash` drops
the handle and the queue: the next call starts on `image`.

The code has no recovery, and its documentation claims none. What is checked is
what a caller can rely on without any: after an interrupted `create_file`,
`mkdir` or `symlink` the image is sound as it is; after an interrupted `unlink`,
`rmdir` or `truncate` it is sound once the same call has been made again
(`owed`). `rename` has no such call (made again, it finds one inode under both
names, returns Ok and leaves both), so a crash in it is not followed further;
what it can leave is the image before each of its writes, where
`NamesInBetween`, `NeverNameless` and `DamageIsLocal` hold. One crash per
behaviour: two interrupted `mkdir`s, each followed by an `rmdir`, bring the
root's link count to 0, because a `mkdir` cut off after its entry has not raised
it; link counts and free counts are therefore not among the properties after a
crash. `flush_metadata` is one write.

### `Extents`, `FileData`, `FileStore`

A file is a size and a leaf: extents in up to four slots, as in `i_block`.
Blocks hold bytes, each a number that tells its payload and its place in it.
Files come from `create_file` (one extent) or from another writer
(`ForeignFiles`: holes, several extents, uninitialized ones, room past the end),
because `truncate`'s loop is written for any leaf. `Surviving` keeps the slots of
the extents it keeps; only their order matters to the code. The 16-bit length is
`LenModulus`, so that a cast which wraps is modelled by `%`. `FileStore` promises
nothing of the bytes that a grow adds. `SlackIsOwn` says what they can be: a file
begins with zeros there, and no call on any file changes a byte within a file's
blocks; the run `grown_zeros` shows that they are
not always zeros, as the comment says.

### `ExtentTree`

A tree is data: a node for each block, which may be a leaf, an index or no node
at all, with any child, a block outside the image included. Beside the nodes it
carries what its writer means by it (`holds`, `height`); `Sound` says when the
nodes agree with that, and the two correctness properties are about sound trees,
the type invariant and termination about all of them.

### `Mkfs`

The unit of storage is a slot of 32 bytes. A slot holds words of 16 bits for the
two structures that `open` decodes, bits for a bitmap, or a mark that names what
was put there; a structure written over another is thus read the way the code
would read it. `BitsPerSlot` (256 in the code) and `Word` (65536) scale the
limits: with 1 bit a slot a bitmap block of 64 slots has 64 bits, and in the run
`Word` is 60, so that such a block can have more free bits than a field of one
word can count.

`Regular` names the configurations of which every property holds: `OneGroup`,
blocks of more than 1 KiB and an image and a table that one group's bitmaps
cover, and `FitsDescriptor`, free counts below `Word`. The others are modelled
and run as well; a property that is false of some of them excepts these and no
more. One assumption leaves configurations out: `DescriptorsInBlock`, that the
descriptors of all groups fit in the first one's block. Otherwise
`flush_metadata` would encode descriptors over the bitmaps, which the model does
not follow (a block of 2 KiB holds the descriptors of 64 groups, an
image of 2 GiB).

The helpers of the handle are single actions without the calls around them (those are in
`Filesystem`), so that they are tried in every order on the layout that `open`
found.

### `InodeFields`, `Attributes`

The on-disk record keeps ids and sizes as two halves and type and permissions in
one word. `Half`, `PermBits` and `TypeBits` scale the widths. Each action is one
read, change and write of a whole record.

### `HostTree`

`host` is the directory tree to copy; `stack`, `dir` and `left` are the loop's
state, `left` a set because `read_dir` promises no order. Each entry is a call
of `Filesystem`. A name outside `PathNames` stands for one that is no UTF-8. A
symlink's target is a size and the number of its sequences of 1, 2 and 3 bytes
that are no UTF-8 (`bad`); `to_string_lossy` (`cli/src/lib.rs:284`) puts 3 bytes
in the place of each, and `Lossy` is the length that `symlink` is called with.
What the image should hold (`Replica`) is stated of the converted targets. The
host may fail at any moment (`HostError`). What is assumed of a host tree
(`HostAssumption`): everything but the top is in a directory, no entry is called
`.` or `..`, and no symlink's target is empty, which POSIX hosts do not allow
and `symlink` of the handle would refuse. `HostWithin` says only that the bounds
of `Filesystem`'s calls (`MaxDepth`, `FileSizes`, `TargetSizes`) cover those the
walk makes.

## 3. Runs

All passing runs check deadlock except `mkfs`, where the number of calls is
bounded and `format` may refuse.

| Run | What it shows | Bounds, and why they are enough |
|---|---|---|
| `parts` | the bitmap searches: `LowestZero`, `FirstFit`; the walk of an extent tree: `FindsWhatTreeHolds`, `LegalDepthSuffices`; all three loops: `LoopsEnd`; the inode records: refinement of `Attributes` | bitmaps of three 3-bit bytes, `max_bit` to 10 (past the buffer), runs to 4: every placement of a run against fragments, full bytes, buffer end and bound. Every graph over 4 nodes from 3 leaves and 6 indices, limit 2: sound trees below, at and above the limit, unsorted indices, cycles. Every record of one inode with two-valued halves |
| `directory` | block tiled after every edit; names unique, dots in place; an emptied block is the fresh one; refinement of `NameMap` | 3 names of two sizes (12 and 16 bytes) in a 68-byte block: two or three entries fit depending on order, so the block is full by fragmentation as well as by size |
| `files` | `ImageReadable`, `BlocksOwnedOnce`, `NoDanglingEntry`, `LinksExact`, `UsedDirsExact`, `CountsNeverLow`, `SizesFitRuns`, `SuccessLeaksNothing`, `DriftOnlyAtReopen`; the handle refines `Namespace` | 2 free inodes, 2 free blocks, files of 1 and 2 blocks that also grow within a block, symlinks with and without a block, directory blocks for two entries: inodes, blocks and directories all run out, reuse after leaks happens, and so do overwriting renames that fail half way. Truncation to nothing is in `fs_crash` and `file_data` |
| `tree` | `NamesFormTree`, `DotsMatchTree` | 3 free inodes, paths three deep: directories nest and move across and between each other |
| `fs_crash` | `WritesAddUp`, `SoundOnceRepeated`, `NamesInBetween`, `NeverNameless`, `DamageIsLocal` | one crash; 2 free inodes and 2 free blocks, files of 2 blocks, emptied by `truncate` too, symlinks without a block: two directories nest, move and are reused, a file takes all the blocks, and reuse after a crash is where a wrong order of writes shows |
| `file_data` | `MappedOnce`, `SlackIsOwn`, `OnlyUninitIsLost`, refinement of `FileStore` | 2 files, 3 blocks of 2 bytes, payloads of 0 to 5 bytes, 4 foreign leaves (holes, out of order, uninitialized, room past the end); lengths wrap at 4, so a file of 3 blocks cannot be encoded |
| `host_tree` | `SuccessIsReplica`, `ImageWithinReplica`, `FailsForRoomOnly`, `WalkEnds` | trees with up to 3 directories, 2 deep, and 2 other entries of every kind, with targets of 7 bytes, and of 58 and 59 bytes with one byte that is no UTF-8 (converted to 60, which is stored, and to 61, which is skipped); 3 free inodes and 3 free blocks, so that inodes, blocks and directory room each run out |
| `mkfs` | `ReadsBack`, `CountsMatchBitmaps`, `HandedOutExists`, `RootStands` | blocks of 1, 2, 4 and 64 KiB; images and inode tables of one group and of more, metadata that one bitmap holds and that it does not (`format` then panics); free counts below `Word` and above. `ReadsBack` excepts 1 KiB blocks, `CountsMatchBitmaps` these and images of several groups, and the descriptor's half of it counts that are cut (section 4); inode tables that end at and inside a block; images with no free block, a few, and exactly a bitmap's worth; 4 calls of helpers |
| `failed_rename`, `subtree_move`, `rmdir_dot`, `grown_zeros` | each finds the violation described in section 4 | the smallest instance that has it |

The properties of the core, in the words of `FilesystemProperties`:

* `ImageReadable`: every value is in its range (the type invariant), and each
  allocated directory's block is tiled by its entries, no live name twice: no
  walk of it runs into another entry or out of the block.
* `BlocksOwnedOnce`: runs of different inodes are disjoint, marked in the
  bitmap and clear of the metadata; an inode whose bit is clear owns nothing.
* `NoDanglingEntry`: no reachable entry names a freed inode, or an inode of
  another type than the entry says.
* `NamesFormTree`, `DotsMatchTree`, `LinksExact`, `UsedDirsExact`: what e2fsck
  recomputes from the names equals what the image says.
* `CountsNeverLow`: free counts may be too high (after a failed call and a new
  open) but never too low, so none saturates.
* `SuccessLeaksNothing`: only a call that fails can lose a block or an inode.
* `DriftOnlyAtReopen`: the handle's counts follow the bitmaps through every
  call, failed ones included; only `open`, which reads the unflushed counts,
  makes them drift.
* `IsNamespace`: each call that succeeds makes one change of the tree of names;
  one that fails makes none, with the exception below.

And of the other modules:

* `WritesAddUp`: a call's writes, in their order, leave what the call means; no
  write of a stale copy undoes another.
* `SoundOnceRepeated`: `BlocksOwnedOnce`, `NoDanglingEntry`, `NamesFormTree` and
  `DotsMatchTree` hold after a crash anywhere, an interrupted removal once it
  is repeated.
* `NamesInBetween`, `NeverNameless`, `DamageIsLocal`: what a crash may leave:
  no name that was there neither before nor after, no object without its name,
  no harm to any other object.
* `IsStore`, `MappedOnce`, `SlackIsOwn`: a file's bytes are its
  own, past its end too.
* `OnlyUninitIsLost`: a call that succeeds loses no block, but for those of
  uninitialized extents.
* `FindsWhatTreeHolds`, `LegalDepthSuffices`, `LoopsEnd`: the walk of an extent
  tree answers right, for every legal depth, and always answers.
* `ReadsBack`, `CountsMatchBitmaps`, `HandedOutExists`, `RootStands`: structures, bitmaps and counts of a formatted image stay apart
  and agree, whatever is allocated, written and flushed; the last two of every
  configuration that is accepted, the first two except where section 4 says so.
* `SuccessIsReplica`, `ImageWithinReplica`, `FailsForRoomOnly`, `WalkEnds`: a build that says it succeeded copied everything that v0 can hold, targets as `to_string_lossy` gives them,
  and one that fails does so for want of room or because the host failed.

**Fairness.** The system is a library that a caller drives: no caller has to
call, and the modules of the handle assume nothing. A loop inside one call is
different: it is sequential code that runs on until it returns, so the searches
and the walk of an extent tree (`PartsSpec`) and the walk of a host tree
(`FairHostSpec`) have weak fairness on the loop's steps, and on nothing else: in
`HostTree` the host's failures are outside it.

## 4. Where code and documentation disagree

Each of these four has a run that finds it:

1. `failed_rename`: a rename onto an existing file may return an error after it
   has removed that file.
2. `subtree_move`: `rename("/a", "/a/b")` of a directory is carried out, and
   detaches it from the tree.
3. `rmdir_dot`: `rmdir("/a/.")` frees the directory and leaves its entry in the
   parent.
4. `grown_zeros`: a file truncated to less and grown again shows the bytes it had
   before; the comment (`filesystem.rs:1246-1248`) says that they read as zeros.

The others were met while modelling. They have no run of their own: the models
have the behaviour, and the properties of the passing runs are stated so as to
allow it or except it by name.

* A `create_file`, `mkdir` or `symlink` that runs out of blocks or of directory
  room keeps the inode bit (and the block bits) it set and does not flush the
  counts (`NoRunLeft`, `ParentFull`); `operations_manual.md:146` says "Hitting a
  limit doesn't corrupt". `CountsNeverLow`, `SuccessLeaksNothing` and
  `DriftOnlyAtReopen` bound the damage.
* `truncate` and `unlink` never free the blocks of an uninitialized extent
  (`CutBlocks`, `Owned`); `filesystem.rs:1231-1234` says "extents wholly past the
  cutoff are freed in full". `OnlyUninitIsLost` says that nothing else is lost.
* From 65536 blocks on, `create_file` wraps the extent's length (:1055) and still
  returns Ok (`CreateFull` with `NumBlocks` above `LenModulus`). Between 32769
  and 65535 it returns an error, with the inode and the blocks taken.
* The walk of a tree that is too deep reads one block more than
  `filesystem.rs:147-148` says ("at most `MAX_EXTENT_DEPTH` blocks").
* `populate_from_host_tree` walks depth-first; `cli/src/lib.rs:227` says
  "breadth-first".
* `build-from-tree` depends on the order of `read_dir`;
  `operations_manual.md:150` promises "byte-identical output for identical
  input". Inode numbers, block numbers and the order of directory entries differ;
  `SuccessIsReplica` says only that the tree does not.
* `build-from-tree` changes targets that are no UTF-8. `cli/src/lib.rs:279-280`
  speaks of "store-target-bytes-verbatim", but :284 stores what
  `to_string_lossy` gives, and :220-224 says that a symlink is replicated when
  its target fits 60 bytes, but one of 59 bytes with one byte that is no UTF-8
  has 61 after the conversion and is skipped with a warning, the walk returning
  Ok. `SuccessIsReplica` and `ImageWithinReplica` are about converted targets.
* With 1 KiB blocks `format` writes the descriptor over the superblock
  (`mkfs.rs:317`; `first_data_block` stays 0), and `open` reads counts from it
  that are none. `ReadsBack` and `CountsMatchBitmaps` except such images, `C(32,
  12, 12)` and `C(32, 32, 12)` of `MCMkfs`; without the exception TLC finds both
  violated there. `HandedOutExists` and `RootStands` hold of them too.
* A free count of 65536 or more (in one group, with blocks of 64 KiB) is cut in the 32-byte
  descriptor (`EncodeGd`): the handle that opens the image has the low half of
  the count, which is what `ReadsBack` says (`LowHalves`), and
  `CountsMatchBitmaps` is about the superblock's counts only. In the run it is
  `C(128, 128, 16)` for blocks and `C(128, 30, 80)` for inodes.
* `format` accepts images of more than one group and writes one descriptor
  (`mkfs.rs:140`); `architecture.md:263-265` says that v0 stops at one group. The
  superblock then counts blocks that no bitmap has, which is why
  `CountsMatchBitmaps` excepts them; nothing past the group is ever handed out.
  In the run: `C(64, 66, 12)` and five more.
* An inode table of more blocks than a bitmap has bits makes `format` index past
  the bitmap's end (`mkfs.rs:343`) and panic, where it could refuse:
  `C(64, 70, 480)`.
* With 64 KiB blocks `mkdir` (:978) panics in a build that checks for overflow;
  the model is the release build, where the wrapped value is the one meant.

## 5. What is proved

TLAPS proves, for every value of the constants that the named assumptions
allow, every invariant and action property that the passing runs check of the
searches, the directory block, the handle (`Filesystem`), the extent walk, the
inode records, the file data, mkfs and the walk of a host tree; that the writes
of a call add up, whatever crashes came before, and what the image between two
writes shows up to the first crash (`FsCrash`); and all four refinements: `Filesystem`
implements `Namespace`, `Directory` implements `NameMap`, `FileData` implements
`FileStore`, `InodeFields` implements `Attributes`. What stays with TLC is
listed at the end of this section.

| Module | Theorems | What they say |
|---|---|---|
| `Parts_proofs` | `ZeroScanTyped`, `ScanFindsLowestZero`, `RunScanTyped`, `ScanIsFirstFit` | the two bitmap searches return what `Bitmap` promises |
| `Directory_proofs` | `BlockTyped`, `BlockAlwaysTiled`, `BlockNamesUnique`, `BlockEmptiedIsFresh`, `BlockIsNameMap` | a directory block stays well formed and implements the map of `NameMap` |
| `Filesystem_proofs` | `FilesystemReadable`, `BlocksNeverShared`, `RunsFitSizes`, `FreeCountsNeverLow`, `CountsFollowBitmaps` | what the image stores can be walked, is owned once and counted |
| `Filesystem_proofs` | `NamesStayTree`, `DotsStayRight`, `EntriesNeverDangle`, `LinkCountsExact`, `DirectoryCountExact`, `SuccessNeverLeaks` | what the names reach is one tree, with right dots and link counts |
| `Namespace_proofs` | `HandleIsNamespace` | what a caller sees by path changes in one place per call, and a call that fails changes nothing (but see the overwriting `rename`) |
| `Namespace_proofs` | `SuccessfulWalkReplicates`, `ImageStaysWithin`, `WalkFailsForRoom` | what v0 can hold of a host tree is copied whole, or the walk says that it was not, and why |
| `FsCrash_proofs` | `WritesOfACallAddUp` | the device holds what a call computed once its last write is done |
| `FsCrash_proofs` | `FirstCrashShowsEitherSide`, `FirstCrashLosesNoName`, `FirstCrashDamageIsLocal` | what a first crash leaves: the names of before or after, no object without its name, no harm to others |
| `FsCrash_proofs` | `FirstCrashIsMended` | a first crash leaves a consistent image, or one that the interrupted call makes consistent when it is made again |
| `FileData_proofs` | `FilesTyped`, `BlocksMappedOnce`, `ContentsAreTheFilesOwn`, `StrandsOnlyUninit`, `SlackStaysOwn` | the extents of files never share a block; a file reads as what was written to it, past its end too; what a call strands |
| `Parts_proofs` | `TypeCorrect`, `WalkFinds`, `WalkReaches`, `CallsSetTheirAttributes` | the walk of a sound extent tree answers right and is never refused; a call on an inode changes the attributes it is about and no others |
| `Mkfs_proofs` | `ImageReadsBack`, `ImageCountsExact`, `OnlyRoomIsHandedOut`, `RootKept` | of a `Regular` configuration: what format writes can be opened, and stays apart and counted |

### Searches

`find_first_zero_run` is first fit: no run of `n` bits below `bit` is free
except the one being counted, which starts at `runStart` right after a set bit
or at 0 (`RunIInv`). `find_first_zero` returns the lowest clear bit: every bit
before the cursor is set (`ZeroIInv`). For every bitmap, byte width, bound and
run length.

### Directory block

For every block size, set of names and name lengths. Inductive invariant: the
block is `Sound` (typed, tiled, offsets aligned, names unique, `.` first) and
its `..` is where mkdir put it. The arithmetic is in `DirBlock_proofs`: one
lemma per edit says that it keeps `Sound` (`AddSound`, `RemoveSound`,
`SetDotDotSound`, `FreshSound`) and one says which names come, go or stay
(`AddEffect`, `RemoveEffect`). A block whose first entry is `.` never takes the
tombstone branch of `remove_dir_entry` (`RemoveMerges`).

### The handle: what the image stores

`Filesystem_proofs` is about every image size, set of names, path depth and set
of sizes, with or without moves of a directory below itself. Hypothesis:
`NoDotsInPaths`, no component of a caller's path is `.` or `..` (run `rmdir_dot`
shows why it is needed: such an rmdir writes the freed inode back with its
extent). The inductive invariant `IInv`:

| Conjunct | Why it is needed |
|---|---|
| `TypeOK`, `BlocksOwnedOnce`, `SizesFitRuns` | the properties themselves (`ImageReadable` is `TypeOK` and a part of `DirsSound`) |
| `MetadataMarked` | the allocators must not return a reserved inode or a metadata block, and the root stays a directory |
| `FreedBlank` | an inode number that is handed out again brings no extent with it |
| `DirsSound` | a lookup finds what the block's entries say; the edits keep blocks typed. It speaks of `DirRecs`, the allocated directories with a block: an inode that a failed `mkdir` leaked is one, an inode that `rmdir` freed is none, though the code leaves its mode as it was |
| `RefsUsable` | a name leads to an inode whose bit is set, so `unlink` never frees twice |
| `RefsUnique` | it is the only name of that inode, so once the entry is gone nothing leads to the freed inode. This is the global fact behind the allocator's safety: v0 has no hard links |

`OpenPath` is a recursive function over the path. That it returns 0 or an inode
that is in use (`PathResolves`) needs an induction over the path; it is done by
least counterexample over a set of numbers (`NatSetInduction`, from
`WellFoundedInduction`), which needs no operator parameter (`OpenPathStays`).
The edits of one directory leave the others' blocks alone because runs are
disjoint (`StartsApart`, `EditOne`): block ownership and directory soundness
depend on each other and are proved together.

The free counts follow from `IInv`: every change of a bitmap sets bits that were
clear or clears bits that were set, so the subtractions and additions of the
handle are those of the cardinalities. `CountsNeverLow` is inductive with it, and
gives `DriftOnlyAtReopen` in each step, since a count that is not low does not
saturate.

### The handle: the tree of names

The second part of `Filesystem_proofs` has one hypothesis more,
`~ SubtreeMoves`, and the run `subtree_move` shows why. It first speaks of trees apart from the program:
nodes, which of them are directories, children, parents and link counts
(`Rooted`, `UpwardOK`, `LinksOK`), with `Reach` the least closed set that holds
the root, so that no induction over paths is needed. Four ways to change a tree
(`Leaks`, `Enters`, `Drops`, `Moves`) keep it one, and each tells what is
reached afterwards. A move keeps it one only if some closed set has the moved
node and not its new parent (`NotBelow`): this is what `~ SubtreeMoves` gives.
Then every edit of a directory block is described by which entries it `Lists`
afterwards, and each action of `Filesystem`, its failures half way included, is
shown to be one of the four, two of them in a row (an overwriting `rename` is a
drop and a move), or none.

The invariant is `TreeIInv`, `IInv` and:

| Conjunct | Why it is needed |
|---|---|
| `PlainFiles` | a file that is no directory has no entries in its blocks, so that it is a leaf when it is entered, dropped or leaked |
| `DotsAndTypes` | `.` and the types that entries carry; `rmdir` and `rename` go by them |
| `TreeNow` | the nodes in use form a tree with right `..` and link counts. It speaks of every directory in use, a leaked one included, because leaked inodes stay in use for ever |
| `DirsCounted` | the count of directories is stepped, so it must be right before the step; on disk it is right because a failed call never changes it |

### The handle: the namespace

`HandleIsNamespace`: `Filesystem` implements `Namespace`, under the two
hypotheses above, from `TreeIInv`. The refinement mapping takes each path to what
it resolves to, so a step has to be shown for all paths at once. The proof does
not follow paths one by one. Like the nodes before, the paths of a set of edges
are a least closed set: the pairs of a path and an inode that are in every set
that holds the empty path with the root and, with a pair, every edge from its
inode (`Leads`). Where a directory has a name once and an inode has one name
(`Treelike`), no two paths lead to one inode, and a change of edges is one of a
few: `PathsEnter`, `PathsDrop` and `PathsMove` say which pairs come, go and are
renamed. `TreeMakes`, `TreePrunes`, `TreeCarries`, `TreeResizes` and `TreeLoses`
say the same in the words of `Namespace`.

What is left is that the pairs are what the program resolves. `EdgesOf` are the
entries of all directories in use, dots left out, and `ReachedLed` says that
exactly the reached inodes are led to. The recursive function `NamedPaths` is
unrolled over the length of the paths (`NamedPathsAre`), by least counterexample
as for `OpenPath`, and for any inode table and directory blocks (`PathsInAre`),
so that the lemma serves the image between two writes as well; a path is shorter than the number of inodes in use
(`PathsShort`), so the bound of the mapping cuts nothing off. Then each action is
one of the changes (`CreatesPromised`, `RemovalPromised`, `RenamePromised`,
`TruncatePromised`; what `unlink` and `rmdir` remove is a leaf by `UnlinkLeaf` and
`RmdirLeaf`, what `rename` moves is told by `RenameMoves` and `MovedCarries`) or leaves the edges alone (`TreeStays`),
whichever way it fails.

### The walk of a host tree

`SuccessfulWalkReplicates`, `ImageStaysWithin`, `WalkFailsForRoom`: for every host
tree and every order of its entries, under `HostAssumption` and `HostWithin`
alone; that paths have no dots is a consequence, and moves play no part. The
invariant is `WalkIInv`: `TreeIInv`, `FailsForRoomOnly` and `Progress`, which
relates the tree of the image, the stack, the directory being read and the
entries left in it:

| Conjunct | Why it is needed |
|---|---|
| `PartShown` | the image shows part of the replica |
| `Opened` | a directory on the stack, or being read, is in the image, and its entries not yet seen are not: so no call is refused. No directory is on the stack twice, or `read_dir` would give its entries a second time |
| `NoneForgotten` | what the replica has below something shown is shown, or its directory is on the stack, or it is among the entries left: so nothing is forgotten |

`Progress` is about plain values, and one lemma per kind of step keeps it
(`TakeProgress`, `CloseProgress`, `SkipProgress`, `EnterProgress`, ...), apart
from the program. A call of the handle is `EnterProgress` because it adds one
node to the tree, at the path the walk means: `InsertPromised` says what the new
tree is, `LeadsOpens` that `open_path` finds the directory a path leads to, and
`RoomForName` that the call is not refused. When the walk is through, nothing is
awaited, and everything in the replica is shown, by induction on the length of
its path (`DoneProgress`).

### Crashes

`WritesOfACallAddUp` has no hypotheses: it is about every image, those that a
crash left behind included, and any number of crashes. The invariant
`CourseHolds` says that the device and the writes still queued pass through
whole images and end in `Goal`. For each course the images are written down
(`InsertImages`, `RemoveImages`, `MoveImages`, `ResizeImages`), and a lemma per
call says that it changes only the records and blocks that its course writes
(`InsertEdited`, `RemoveEdited`, `MoveEdited`); a write that changes nothing is
passed over without harm, since what comes after it is the same.

`FirstCrashShowsEitherSide`, `FirstCrashLosesNoName`, `FirstCrashDamageIsLocal`:
an image between two writes is what a crash leaves there. Hypotheses
`NoDotsInPaths` and `~ SubtreeMoves`. The invariant `FirstIInv` is `TreeIInv` and
`CourseShows`, for as long as nothing has crashed: each image that the course
passes through lies between what the names showed when the call began and what
they will show (`LiesBetween`, of which the three properties are parts). An image
has its own edges and names (`Shows`, `SeenOver`), and is shown to be one of

* still before (`Keeps`): bits have only been added, and the blocks that were
  marked and the records that names lead to are as they were; in a removal
  (`Intact`) the object's bits may be cleared and its record blank, and it is no
  bystander;
* already after: the same of the state after the call, with only a link count or
  the counts still to be written;
* for `rename`, between the unlink of the destination, the added entry and the
  removed one. The names are then a tree with one name more or less, and
  `TreePrunes`, `TreeMakes` and the lemmas on moves say which (`Midway`,
  `EdgesFor`).

That bits are freed before the entry that leads to them goes is why an
interrupted removal leaves a dangling entry, and why `DamageIsLocal` leaves its
object out; the other objects keep rows, bits and blocks because a call edits
one or two records and runs are disjoint. The argument ends with the first crash,
since `TreeIInv` does.

`FirstCrashIsMended`, with the same hypotheses: `SoundOnceRepeated` while nothing
has crashed and in the state that the first crash leaves, and, where that crash
owes a call, `Consistent` in the state that this call leaves. `CallNext` offers no
other call while one is owed, so the third conjunct is the return of the
interrupted one. `ConsistentIn` says of a device what `Consistent` says of the
program's variables (`VariablesAre`, `ConsistentAlike`), and `MendedBy(g, c)` what
an image `g` in the course of `c` must be:

* in `create_file`, `mkdir` and `symlink`, consistent. It either resembles one of
  the two ends (`Resembles`: the same names and runs, bits that stand for blank
  records, other link counts) or adds to one inodes that no name leads to
  (`BuildsOn`). A new directory's record is written before its block. That it
  shows no stale names meanwhile needs `OnlyDirsName`, a second invariant: a block
  that is no directory's holds no names (`rmdir` only takes empty directories, and
  mkdir gets its block from the bitmap). The model keeps no file data in
  `dirBlocks`: in the code the block may hold a former file's bytes until `mkdir`
  writes it, but no name leads to the new directory before then.
* in `unlink`, `rmdir` and `truncate`, one on which the same call either still has
  its work to do, and then leaves a consistent device (`RemovalLeft`,
  `ResizeLeft`), or is refused or finds nothing to change, and the device is
  consistent already (`RemovalDone`, `ResizeDone`). The path must lead, on the
  image, where it led before the call; `LedIn` follows it on any device, and
  `OpenPathLed` says that `open_path` does the same.

The invariant `MendIInv` is that while nothing has crashed every image still to
come is `MendedBy` the call under way (`CourseMends`), and that after the first
crash the device is `MendedBy` the call that is owed.

### File data and extents

`FilesTyped`, `BlocksMappedOnce`: for every block size, image size, payload and
set of foreign leaves that are sound on their own. `MappedOnce` is inductive
with `TypeOK` and one more fact, that block 0, the metadata, stays marked, so
that no new run covers it. The heart is `Shrink`: each extent keeps exactly the
blocks that are not freed (lemmas about `Shortened` and `CutBlocks`), so that
disjoint extents stay disjoint and what is freed is no one's.

`ContentsAreTheFilesOwn`: `FileData` implements `FileStore`. Hypothesis
`LengthsFit`: the image has at most `LenModulus` blocks (65536), because
`create_file` cuts a run's length to 16 bits: on a larger image a file of more
than 65536 blocks would get an extent that is too short. A leaf is resolved by
its first slot that covers the block (`Decides`, `ResolveDecided`). A cut keeps
the slots, and below the cutoff each covers what it did, so that what is left of
a file resolves as before (`CutKeepsBelow`); what `create_file` writes reads back
from where it was put (`FilledReads`); and the blocks that the other files read
from are marked, so that no new run touches them (`OthersStay`). Each call is
then the abstract one or leaves every content alone.

`StrandsOnlyUninit`: a block that is marked and no file's stays so, and a call
that succeeds adds to these only blocks of uninitialized extents. Hypothesis
`ForeignEmptyHoldsNone`: a foreign file of size 0 has no initialized blocks,
since `unlink` takes a file of size 0 to own none; that this stays true is
inductive (`StepEmpty`).

`SlackStaysOwn`: what a later grow would show past a file's end. Hypotheses
`LengthsFit` and `ForeignApart`, that a foreign leaf maps no logical block twice.
With them what a cut leaves is together no longer than the cutoff (`CutLens`), so
the capacity that `truncate` computes from the sum of the lengths never reaches
past what was kept, holes or not.

`MCFileData` meets the three hypotheses.

`TypeCorrect`, `WalkFinds`, `WalkReaches`: for every set of nodes, tree and
limit. Inductive invariant: the iterations left and the blocks read add up to
the limit and one; and for every sound set of nodes with the root in it, the
node at hand is in the set, what it holds for the block asked for is what the
root holds, and its height and the blocks read are together at most the root's
height (`OnTheWay`). The step that needs soundness of the indices is `Chosen`:
what is below any other index holds a hole for this block.

`CallsSetTheirAttributes`: for every width of the fields. An attribute of two
halves, or of mode bits beside type bits, is the sum that was split (`Split`,
`Join`, `ModeJoin`), so a record reads back as what was written (`ReadsBack`);
then each call is described by the attributes it shows afterwards.

### mkfs

The four theorems have the form `Spec => [](Regular(config) => ...)`: blocks of
more than 1 KiB, an image and a table of one group, and counts that fit 16 bits.
`config` never changes (`ConfigStays`), so a behaviour is of a regular
configuration throughout or never. What the four properties say of the other
configurations is only model-checked. The invariant
`MkfsIInv` says what every region of the layout holds, given only what the
allocators have handed out and not got back: each bitmap is what `format` put
there and the bits handed out (`UsedBlocks`, `UsedInodes`), the counts are the
clear bits of these sets, the superblock and the descriptor are their encoding
as long as nothing is to be flushed, and the root's inode and block are as
`format` wrote them (`Content`, `Stands`). It rests on three groups of lemmas:
the codecs decode what they encoded if it fits the fields (`SbDecodes`,
`GdDecodes`), the regions do not overlap (`PlacesApart`, `PastRoot`), and a
write keeps what it does not touch (`Rewritten`, `Elsewhere`). The branch in
which an allocation runs past the bitmap's end and panics is shown to be out of
reach.

### Only model-checked

* Liveness (`LoopsEnd`, `WalkEnds`): the prover has no support for fairness.
* The images that `format` makes of configurations that are not `Regular`.
* What further calls make of an image that a crash has been through, once the
  interrupted call was made again, and further crashes: `SoundOnceRepeated`,
  `NamesInBetween`, `NeverNameless` and `DamageIsLocal` there. `TreeIInv` does not
  carry over: a crash leaves link counts and free counts behind, and a directory
  whose block was never written. Proofs need a weaker invariant there, one that
  `Consistent` would be a part of, and the tree lemmas again on top of it.

## 6. Not modelled, and why

* Crashes during `rename` followed by further calls (see `FsCrash`), crashes
  inside one write (torn blocks), and write errors that the handle survives.
* Directories of more than one block, which `read_dir` reads and `add_dir_entry`
  does not extend; index nodes under `read_file` of a whole file (the walk
  itself is `ExtentTree`); `truncate` and `unlink` of such files, which refuse or
  free nothing.
* Names above 255 bytes: they fail in `add_dir_entry` like a full parent does.
* Fields that are only copied: UUID, label, times of the superblock, checksums,
  64-byte descriptors. Their round trips are tested and fuzzed field by field.
* More than one block group: the code only writes to group 0 (section 4 on
  what `format` lets begin). With more groups than a block holds descriptors
  (`DescriptorsInBlock`) `open` and `flush_metadata` reach further blocks, which
  `Mkfs` leaves out.
* The commands `inspect`, `touch`, `chmod`, `chown`, `utime`, `cat`: one call
  each and text. Fuzz targets and benches: drivers without state.

## 7. Plan

All modules of the plan are written, and the invariants of the core are proved.
What would add most next, in this order: `SoundOnceRepeated` and the promises
between two writes for the calls that follow a first crash and its repeated call,
as theorems, from an invariant that an image with stale link and free counts
keeps; a recovery call for an interrupted
`rename`, should the code get one, in `FsCrash`.
