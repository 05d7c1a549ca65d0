---------------------------- MODULE MCInodeFields ----------------------------
(* One inode for InodeFields: the calls touch one record each.             *)
EXTENDS InodeFields
CONSTANT i1
MCInodes == {i1}
=============================================================================
