----------------------------- MODULE Attributes -----------------------------
(***************************************************************************)
(* What a caller may count on for the attributes of an object: each call   *)
(* that sets some sets those, to the values given, and no others.          *)
(***************************************************************************)
EXTENDS Naturals

CONSTANTS Inodes, TypeBits, PermBits, Ids, Sizes, Stamps

VARIABLE attrs

Types == 0 .. (TypeBits - 1)
Perms == 0 .. (PermBits - 1)
Modes == 0 .. (TypeBits * PermBits - 1)

AttrType == [type : Types, perm : Perms, uid : Ids, gid : Ids,
             size : Sizes, atime : Stamps, mtime : Stamps]

AttrInit == attrs \in [Inodes -> AttrType]

(* Whatever a mode has above the permission bits is ignored. *)
Chmod(i, mode) == attrs' = [attrs EXCEPT ![i].perm = mode % PermBits]

Chown(i, uid, gid) == attrs' = [attrs EXCEPT ![i].uid = uid, ![i].gid = gid]

Utime(i, atime, mtime) ==
  attrs' = [attrs EXCEPT ![i].atime = atime, ![i].mtime = mtime]

(* A change of size is a modification. *)
Resize(i, size) ==
  \E mtime \in Stamps : attrs' = [attrs EXCEPT ![i].size = size, ![i].mtime = mtime]

AttrNext ==
  \E i \in Inodes :
    \/ \E mode \in Modes : Chmod(i, mode)
    \/ \E uid, gid \in Ids : Chown(i, uid, gid)
    \/ \E atime, mtime \in Stamps : Utime(i, atime, mtime)
    \/ \E size \in Sizes : Resize(i, size)

AttrSpec == AttrInit /\ [][AttrNext]_attrs
=============================================================================
