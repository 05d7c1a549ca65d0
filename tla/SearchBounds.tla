---------------------------- MODULE SearchBounds ----------------------------
(* The arguments of the two searches of bitmap.rs.                         *)
EXTENDS Bitmap

CONSTANTS ByteBits,  \* bits of a byte (8 in the code)
          BufBits,   \* bits held by the buffer, whole bytes (8 * buf.len())
          MaxBit,    \* bound on the max_bit argument
          MaxRun     \* bound on the n argument of the search for a run

ASSUME BoundsAssumption ==
  /\ ByteBits \in Nat \ {0} /\ MaxBit \in Nat /\ MaxRun \in Nat
  /\ BufBits \in Nat
  /\ \E bytes \in 0 .. BufBits : BufBits = ByteBits * bytes

VARIABLES buf, maxBit   \* the arguments that both take
=============================================================================
