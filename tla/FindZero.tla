------------------------------ MODULE FindZero ------------------------------
(***************************************************************************)
(* The scan of bitmap.rs find_first_zero: bytes in order, a full byte      *)
(* (0xFF) skipped in one step, the bits of any other byte examined one by  *)
(* one against max_bit.  The inode allocator passes inodes_per_group as    *)
(* max_bit, which is seldom a multiple of a byte and usually smaller than  *)
(* the bitmap block.                                                       *)
(***************************************************************************)
EXTENDS SearchBounds

VARIABLES base, offset,       \* first bit of byte_idx, and bit_in_byte
          verdict, zero       \* "scanning", then Some(zero) or None

zeroVars == <<buf, maxBit, base, offset, verdict, zero>>
zeroArgs == <<buf, maxBit>>

Bit == base + offset
ByteFull == base .. (base + ByteBits - 1) \subseteq buf

ZeroInit ==
  /\ buf \in SUBSET (0 .. (BufBits - 1))
  /\ maxBit \in 0 .. MaxBit
  /\ base = 0 /\ offset = 0
  /\ verdict = "scanning" /\ zero = 0

(* byte_idx < max_byte, that is min(ceil(max_bit / 8), buf.len()). *)
ByteInRange == base < maxBit /\ base < BufBits

SkipFullByte ==
  /\ verdict = "scanning" /\ ByteInRange
  /\ offset = 0 /\ ByteFull
  /\ base' = base + ByteBits
  /\ UNCHANGED <<zeroArgs, offset, verdict, zero>>

(* The byte is partly full, and this bit of it is set: on to the next one, *)
(* in the next byte after the last (which a byte with a clear bit never    *)
(* gets to).                                                               *)
SetInByte ==
  /\ verdict = "scanning" /\ ByteInRange
  /\ offset > 0 \/ ~ ByteFull
  /\ Bit < maxBit /\ Bit \in buf
  /\ IF offset + 1 < ByteBits
       THEN offset' = offset + 1 /\ base' = base
       ELSE offset' = 0 /\ base' = base + ByteBits
  /\ UNCHANGED <<zeroArgs, verdict, zero>>

(* Mutant: max_bit bounds the bytes only. *)
ClearInByteUnbounded ==
  /\ verdict = "scanning" /\ ByteInRange
  /\ offset > 0 \/ ~ ByteFull
  /\ Bit \notin buf
  /\ verdict' = "some" /\ zero' = Bit
  /\ UNCHANGED <<zeroArgs, base, offset>>

ClearInByte ==
  /\ verdict = "scanning" /\ ByteInRange
  /\ offset > 0 \/ ~ ByteFull
  /\ Bit < maxBit /\ Bit \notin buf
  /\ verdict' = "some" /\ zero' = Bit
  /\ UNCHANGED <<zeroArgs, base, offset>>

(* The bound falls inside this byte. *)
PastMaxBit ==
  /\ verdict = "scanning" /\ ByteInRange
  /\ Bit >= maxBit
  /\ verdict' = "none"
  /\ UNCHANGED <<zeroArgs, base, offset, zero>>

BytesExhausted ==
  /\ verdict = "scanning" /\ ~ ByteInRange
  /\ verdict' = "none"
  /\ UNCHANGED <<zeroArgs, base, offset, zero>>

ZeroNext == SkipFullByte \/ SetInByte \/ ClearInByte \/ PastMaxBit \/ BytesExhausted

ZeroSpec == ZeroInit /\ [][ZeroNext]_zeroVars

-----------------------------------------------------------------------------
(* The cursor stays inside the buffer while a byte is examined. *)
ZeroTypeOK ==
  /\ buf \in SUBSET (0 .. (BufBits - 1)) /\ maxBit \in Nat
  /\ base \in Nat /\ offset \in 0 .. (ByteBits - 1)
  /\ verdict \in {"scanning", "some", "none"}
  /\ zero \in Nat

(* What allocate_inode relies on: the bit returned is clear, inside the    *)
(* buffer and the lowest below max_bit, and None means every bit below     *)
(* max_bit that the buffer holds is set: the full-byte skip never jumps    *)
(* over a clear bit, nor past max_bit.                                     *)
LowestZero ==
  /\ verdict = "some" => IsFirstZero(buf, zero, maxBit) /\ zero < BufBits
  /\ verdict = "none" => \A b \in 0 .. (maxBit - 1) : b < BufBits => b \in buf
=============================================================================
