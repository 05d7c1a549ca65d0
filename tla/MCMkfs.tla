------------------------------- MODULE MCMkfs -------------------------------
(* Configurations for Mkfs, block_size in slots of 32 bytes.               *)
EXTENDS Mkfs

C(bs, blocks, inodesPer) ==
  [blockSize |-> bs, sizeBlocks |-> blocks, inodesPerGroup |-> inodesPer]

(* Accepted and refused: tables that end at and inside a block, images     *)
(* without a free block, with a few, and with a bitmap's worth.            *)
OneGroupConfigs ==
  {C(64, s, i) : s \in {6, 7, 8, 10, 64}, i \in {10, 11, 12, 16}}
  \cup {C(64, 64, 64), C(128, 9, 20), C(128, 64, 16), C(2048, 9, 12), C(48, 9, 12)}

(* Accepted too: blocks of 1 KiB, with room in the group and without; more *)
(* free blocks and free inodes than a descriptor's counts hold; an image,  *)
(* an inode table and both of more than a group; metadata that is.         *)
OtherConfigs ==
  {C(32, 12, 12), C(32, 32, 12), C(128, 128, 16), C(128, 30, 80),
   C(64, 66, 12), C(64, 160, 64), C(64, 80, 80), C(64, 160, 80), C(64, 70, 480)}

MCConfigs == OneGroupConfigs \cup OtherConfigs
=============================================================================
