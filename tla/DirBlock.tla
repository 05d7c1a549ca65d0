------------------------------ MODULE DirBlock ------------------------------
(***************************************************************************)
(* The one data block of a directory: the operations of                    *)
(* ext4/src/filesystem.rs that edit it in place, over the entries that     *)
(* spec/src/dir_entry.rs lays out in it.  A block is the set of its        *)
(* entries, each at its byte offset; the linear walk of the code visits    *)
(* them by increasing offset, each one rec_len bytes after the last.       *)
(***************************************************************************)
EXTENDS Integers

CONSTANTS Names,      \* the names a caller may give an entry
          NameLen,    \* length in bytes of each name, the two dots included
          BlockSize   \* bytes of a block

Dots == {".", ".."}
AllNames == Names \cup Dots

ASSUME DirBlockAssumption ==
  /\ Names \cap Dots = {}
  /\ NameLen \in [AllNames -> 1 .. 255]
  /\ \A d \in Dots : NameLen[d] <= 4
  /\ BlockSize \in Nat /\ BlockSize >= 24 /\ BlockSize < 65536 /\ BlockSize % 4 = 0

FtReg == 1            \* EXT4_FT_REG_FILE
FtDir == 2            \* EXT4_FT_DIR
FtSymlink == 7        \* EXT4_FT_SYMLINK
FileTypes == {FtReg, FtDir, FtSymlink}

Entry(off, recLen, inode, name, ftype) ==
  [off |-> off, recLen |-> recLen, inode |-> inode, name |-> name,
   ftype |-> ftype]

End(e) == e.off + e.recLen

Pad4(k) == ((k + 3) \div 4) * 4

(* The bytes an entry takes: the 8-byte header and its name, padded. *)
ActualSize(name) == Pad4(8 + NameLen[name])

IsUnused(e) == e.inode = 0

Live(es) == {e \in es : ~ IsUnused(e)}

(* The first entry of S that the walk meets. *)
FirstOf(S) == CHOOSE e \in S : \A f \in S : e.off <= f.off

(* lookup: the live entries called name. *)
Called(es, name) == {e \in Live(es) : e.name = name}

(* The entry the walk ends with: its rec_len reaches the block's end. *)
LastEntry(es) == CHOOSE e \in es : End(e) >= BlockSize

(* The block mkdir and mkfs write: `.` then `..`, which fills the block. *)
FreshBlock(self, parent) ==
  {Entry(0, 12, self, ".", FtDir), Entry(12, BlockSize - 12, parent, "..", FtDir)}

-----------------------------------------------------------------------------
(* add_dir_entry: a new entry goes into the slack of the last one, and     *)
(* nowhere else.                                                           *)
Slack(es) == LastEntry(es).recLen - ActualSize(LastEntry(es).name)

Fits(es, name) == ActualSize(name) <= Slack(es)

(* Mutant: the new entry keeps the old one's rec_len. *)
AddKeepsRecLen(es, name, inode, ftype) ==
  LET last == LastEntry(es)
      shrunk == [last EXCEPT !.recLen = ActualSize(last.name)]
  IN (es \ {last}) \cup
       {shrunk, Entry(End(shrunk), last.recLen, inode, name, ftype)}

Add(es, name, inode, ftype) ==
  LET last == LastEntry(es)
      shrunk == [last EXCEPT !.recLen = ActualSize(last.name)]
  IN (es \ {last}) \cup
       {shrunk,
        Entry(End(shrunk), BlockSize - End(shrunk), inode, name, ftype)}

(* remove_dir_entry: the entry of that name and inode, absorbed by its     *)
(* predecessor or, when it is the block's first, left as a tombstone.      *)
Matching(es, inode, name) == {e \in Called(es, name) : e.inode = inode}

Predecessors(es, e) == {p \in es : End(p) = e.off}

(* Mutant: the entry is dropped and its predecessor left as it was. *)
RemoveLeavesHole(es, inode, name) == es \ {FirstOf(Matching(es, inode, name))}

Remove(es, inode, name) ==
  LET target == FirstOf(Matching(es, inode, name)) IN
  IF Predecessors(es, target) = {}
    THEN (es \ {target}) \cup {[target EXCEPT !.inode = 0]}
    ELSE LET pred == CHOOSE p \in Predecessors(es, target) : TRUE IN
         (es \ {pred, target}) \cup
           {[pred EXCEPT !.recLen = @ + target.recLen]}

(* update_dotdot: `..` is found by name, wherever it is. *)
SetDotDot(es, parent) ==
  LET dotdot == FirstOf(Called(es, "..")) IN
  (es \ {dotdot}) \cup {[dotdot EXCEPT !.inode = parent]}

-----------------------------------------------------------------------------
(* What DirEntry::decode demands of each entry the walk visits, and the    *)
(* walk of the block as a whole: entries cover it with neither gap nor     *)
(* overlap, each large enough for its name.                                *)
WellFormed(e) ==
  /\ e.recLen % 4 = 0
  /\ e.recLen >= ActualSize(e.name)
  /\ End(e) <= BlockSize

Covers(es) ==
  /\ \E e \in es : e.off = 0
  /\ \E e \in es : End(e) = BlockSize
  /\ \A e \in es : End(e) # BlockSize => \E f \in es : f.off = End(e)
  /\ \A e \in es : e.off # 0 => Predecessors(es, e) # {}

Disjoint(es) == \A e, f \in es : e = f \/ End(e) <= f.off \/ End(f) <= e.off

Tiled(es) ==
  /\ \A e \in es : WellFormed(e)
  /\ Covers(es)
  /\ Disjoint(es)
=============================================================================
