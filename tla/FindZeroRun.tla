---------------------------- MODULE FindZeroRun ----------------------------
(***************************************************************************)
(* The scan of bitmap.rs find_first_zero_run, one step per loop iteration, *)
(* over every bitmap, run length and bound of the instance.  The bitmap is *)
(* the bytes the caller read (BufBits bits); the scan itself goes up to    *)
(* max_bit, which the block allocator takes from the superblock's          *)
(* blocks_count and which nothing ties to the buffer's length.             *)
(***************************************************************************)
EXTENDS SearchBounds

NoStart == -1        \* run_start = None

VARIABLES n,                         \* the length asked for
          bit, runStart, runLen,     \* the loop's locals
          outcome, answer            \* "scanning", then Some(answer) or None

runVars == <<buf, n, maxBit, bit, runStart, runLen, outcome, answer>>
runArgs == <<buf, n, maxBit>>

(* get_bit; the bits past the end of the buffer, which buf does not hold,  *)
(* read as clear.                                                          *)
GetBit(b) == b \in buf

RunInit ==
  /\ buf \in SUBSET (0 .. (BufBits - 1))
  /\ n \in 0 .. MaxRun
  /\ maxBit \in 0 .. MaxBit
  /\ bit = 0 /\ runStart = NoStart /\ runLen = 0
  /\ outcome = "scanning" /\ answer = 0

(* n = 0 is satisfied by the empty run at bit 0, whatever the bitmap. *)
EmptyRun ==
  /\ outcome = "scanning" /\ n = 0
  /\ outcome' = "some" /\ answer' = 0
  /\ UNCHANGED <<runArgs, bit, runStart, runLen>>

ClearBit ==
  /\ outcome = "scanning" /\ n # 0
  /\ bit < maxBit /\ ~ GetBit(bit)
  /\ LET start == IF runStart = NoStart THEN bit ELSE runStart IN
       /\ runStart' = start
       /\ runLen' = runLen + 1
       /\ IF runLen + 1 = n
            THEN outcome' = "some" /\ answer' = start /\ bit' = bit
            ELSE bit' = bit + 1 /\ UNCHANGED <<outcome, answer>>
  /\ UNCHANGED runArgs

(* Mutant: run_len is not reset with run_start. *)
SetBitKeepsLen ==
  /\ outcome = "scanning" /\ n # 0
  /\ bit < maxBit /\ GetBit(bit)
  /\ bit' = bit + 1 /\ runStart' = NoStart
  /\ UNCHANGED <<runArgs, runLen, outcome, answer>>

SetBit ==
  /\ outcome = "scanning" /\ n # 0
  /\ bit < maxBit /\ GetBit(bit)
  /\ bit' = bit + 1 /\ runStart' = NoStart /\ runLen' = 0
  /\ UNCHANGED <<runArgs, outcome, answer>>

BitsExhausted ==
  /\ outcome = "scanning" /\ n # 0
  /\ bit >= maxBit
  /\ outcome' = "none"
  /\ UNCHANGED <<runArgs, bit, runStart, runLen, answer>>

RunNext == EmptyRun \/ ClearBit \/ SetBit \/ BitsExhausted

RunSpec == RunInit /\ [][RunNext]_runVars

-----------------------------------------------------------------------------
(* The loop's locals stay in range, and run_start is None exactly when the *)
(* run is empty.                                                           *)
RunTypeOK ==
  /\ buf \in SUBSET (0 .. (BufBits - 1))
  /\ n \in Nat /\ maxBit \in Nat
  /\ bit \in Nat /\ bit <= maxBit
  /\ runStart \in Nat \cup {NoStart} /\ runLen \in Nat
  /\ runStart = NoStart <=> runLen = 0
  /\ outcome \in {"scanning", "some", "none"}
  /\ answer \in Nat

(* What allocate_blocks_contiguous relies on: the run returned is the      *)
(* lowest free run of n bits below max_bit, and None is returned only when *)
(* there is no such run, however the clear bits are fragmented.            *)
FirstFit ==
  /\ outcome = "some" /\ n > 0 => IsFirstFreeRun(buf, answer, n, maxBit)
  /\ outcome = "none" => ~ HasFreeRun(buf, n, maxBit)
=============================================================================
