------------------------------- MODULE Bitmap -------------------------------
(***************************************************************************)
(* What the two searches of spec/src/bitmap.rs promise their callers, the  *)
(* allocators of ext4/src/filesystem.rs.  A bitmap is the set of the bits  *)
(* that are set (allocated); bit numbers start at 0.                       *)
(***************************************************************************)
EXTENDS Integers

(* The bits of a run of n bits that starts at s. *)
RunBits(s, n) == s .. (s + n - 1)

(* A run of n bits from s that ends before max and holds no set bit. *)
IsFreeRun(used, s, n, max) ==
  /\ s \in Nat
  /\ s + n <= max
  /\ RunBits(s, n) \cap used = {}

(* The lowest such run: find_first_zero_run's answer when n > 0. *)
IsFirstFreeRun(used, s, n, max) ==
  /\ IsFreeRun(used, s, n, max)
  /\ \A t \in 0 .. (s - 1) : ~ IsFreeRun(used, t, n, max)

HasFreeRun(used, n, max) == \E s \in 0 .. max : IsFreeRun(used, s, n, max)

(* The lowest clear bit below max: find_first_zero's answer. *)
IsFirstZero(used, b, max) ==
  /\ b \in 0 .. (max - 1)
  /\ b \notin used
  /\ 0 .. (b - 1) \subseteq used

HasZero(used, max) == \E b \in 0 .. (max - 1) : b \notin used
=============================================================================
