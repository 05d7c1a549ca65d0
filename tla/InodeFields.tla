----------------------------- MODULE InodeFields -----------------------------
(***************************************************************************)
(* The inode table as the codec of spec/src/inode.rs writes it, and the    *)
(* calls that read a record, change some of it and write it back: chmod,   *)
(* chown and utime, and truncate and the moves of directories, which       *)
(* change a size or a link count.  On disk ids and sizes are two halves in *)
(* different places, and type and permissions share one word.              *)
(***************************************************************************)
EXTENDS Naturals

CONSTANTS Inodes,
          Half,       \* values of a half: 2^16 for an id, 2^32 for a size
          PermBits,   \* values of the permission bits: 2^12
          TypeBits,   \* values of the type nibble: 2^4
          Regular,    \* the nibble of a regular file: 8
          Directory,  \* and of a directory: 4
          Stamps, METADATA_CTIME,
          Links       \* link counts

ASSUME FieldsAssumption ==
  /\ Half \in Nat \ {0} /\ PermBits \in Nat \ {0} /\ TypeBits \in Nat \ {0}
  /\ METADATA_CTIME \in Stamps
  /\ {Regular, Directory} \subseteq 0 .. (TypeBits - 1)

VARIABLE table        \* what the device holds for each inode

Wide == 0 .. (Half * Half - 1)      \* a u32 id, a u64 size
Modes == 0 .. (TypeBits * PermBits - 1)
Halves == 0 .. (Half - 1)

RecordType ==
  [mode : Modes, uidLo : Halves, uidHi : Halves, gidLo : Halves, gidHi : Halves,
   sizeLo : Halves, sizeHi : Halves, atime : Stamps, mtime : Stamps, ctime : Stamps,
   links : Links]

-----------------------------------------------------------------------------
Decode(raw) ==
  [mode |-> raw.mode, uid |-> raw.uidHi * Half + raw.uidLo,
   gid |-> raw.gidHi * Half + raw.gidLo, size |-> raw.sizeHi * Half + raw.sizeLo,
   atime |-> raw.atime, mtime |-> raw.mtime, ctime |-> raw.ctime, links |-> raw.links]

(* Mutant: of an id only the low half is kept. *)
EncodeLowIds(inode) ==
  [mode |-> inode.mode, uidLo |-> inode.uid % Half, uidHi |-> 0,
   gidLo |-> inode.gid % Half, gidHi |-> 0,
   sizeLo |-> inode.size % Half, sizeHi |-> inode.size \div Half,
   atime |-> inode.atime, mtime |-> inode.mtime, ctime |-> inode.ctime,
   links |-> inode.links]

Encode(inode) ==
  [mode |-> inode.mode, uidLo |-> inode.uid % Half, uidHi |-> inode.uid \div Half,
   gidLo |-> inode.gid % Half, gidHi |-> inode.gid \div Half,
   sizeLo |-> inode.size % Half, sizeHi |-> inode.size \div Half,
   atime |-> inode.atime, mtime |-> inode.mtime, ctime |-> inode.ctime,
   links |-> inode.links]

WriteInode(i, inode) == table' = [table EXCEPT ![i] = Encode(inode)]

(* A record that another writer left: any.                                 *)
Init == table \in [Inodes -> RecordType]

-----------------------------------------------------------------------------
(* The type nibble stays, the twelve bits below it are the argument's.     *)
WithMode(inode, mode) ==
  [inode EXCEPT !.mode = (@ \div PermBits) * PermBits + (mode % PermBits)]

Chmod(i, mode) ==
  WriteInode(i, [WithMode(Decode(table[i]), mode) EXCEPT !.ctime = METADATA_CTIME])

Chown(i, uid, gid) ==
  WriteInode(i, [Decode(table[i]) EXCEPT !.uid = uid, !.gid = gid,
                                         !.ctime = METADATA_CTIME])

Utime(i, atime, mtime) ==
  WriteInode(i, [Decode(table[i]) EXCEPT !.atime = atime, !.mtime = mtime,
                                         !.ctime = METADATA_CTIME])

Is(i, type) == Decode(table[i]).mode \div PermBits = type

(* truncate, on the record; its stamp is the same pinned second.           *)
Resize(i, size) ==
  /\ Is(i, Regular) /\ size # Decode(table[i]).size
  /\ WriteInode(i, [Decode(table[i]) EXCEPT !.size = size, !.mtime = METADATA_CTIME,
                                            !.ctime = METADATA_CTIME])

(* mkdir, rmdir, rename, on a parent. *)
Relink(i, links) ==
  /\ Is(i, Directory)
  /\ WriteInode(i, [Decode(table[i]) EXCEPT !.links = links])

Next ==
  \E i \in Inodes :
    \/ \E mode \in Modes : Chmod(i, mode)
    \/ \E uid, gid \in Wide : Chown(i, uid, gid)
    \/ \E atime, mtime \in Stamps : Utime(i, atime, mtime)
    \/ \E size \in Wide : Resize(i, size)
    \/ \E links \in Links : Relink(i, links)

Spec == Init /\ [][Next]_table

-----------------------------------------------------------------------------
attrs ==
  [i \in Inodes |->
     LET inode == Decode(table[i]) IN
     [type |-> inode.mode \div PermBits, perm |-> inode.mode % PermBits,
      uid |-> inode.uid, gid |-> inode.gid, size |-> inode.size,
      atime |-> inode.atime, mtime |-> inode.mtime]]

Attrs == INSTANCE Attributes WITH Ids <- Wide, Sizes <- Wide

(* What a call sets reads back as it was given, at full width: an id above *)
(* 65535, a size above 4 GiB, a mode with bits above the permissions.      *)
SetsWhatIsAsked ==
  \A i \in Inodes :
    /\ \A mode \in Modes : Chmod(i, mode) => Attrs!Chmod(i, mode)
    /\ \A uid, gid \in Wide : Chown(i, uid, gid) => Attrs!Chown(i, uid, gid)
    /\ \A atime, mtime \in Stamps : Utime(i, atime, mtime) => Attrs!Utime(i, atime, mtime)
    /\ \A size \in Wide : Resize(i, size) => Attrs!Resize(i, size)

(* Through the halves and the shared word, every call sets what it is      *)
(* about, to what it was given, and nothing else; no mode, whatever bits a *)
(* caller leaves in it, makes an object another kind.                      *)
IsAttributes == Attrs!AttrSpec /\ [][SetsWhatIsAsked]_table
=============================================================================
