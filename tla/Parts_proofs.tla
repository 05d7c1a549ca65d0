---------------------------- MODULE Parts_proofs ----------------------------
(***************************************************************************)
(* The parts that share no state with the handle or with each other, the   *)
(* ones module MCParts checks together.                                    *)
(*                                                                         *)
(* The two searches of bitmap.rs return what their callers rely on, for    *)
(* every bitmap, byte width, run length and bound.  The walk of an extent  *)
(* tree is right for every tree, whatever its nodes, its height and the    *)
(* limit: the tree is data, and the invariant says what of its meaning the *)
(* walk keeps on its way down.  The attributes of an inode are what the    *)
(* calls made them, whatever the width of the halves that ids and sizes    *)
(* are stored in.                                                          *)
(***************************************************************************)
EXTENDS FindZero, FindZeroRun, ExtentTree, InodeFields, WellFoundedInduction, TLAPS

(* The scan for one clear bit, then the scan for a run of them.            *)

(* The bytes still ahead: the cursor moves by whole bytes, so a byte that  *)
(* starts inside the buffer ends inside it.                                *)
Aligned == \E k \in Nat : BufBits = base + ByteBits * k

ZeroIInv ==
  /\ ZeroTypeOK
  /\ Aligned
  /\ 0 .. (Bit - 1) \subseteq buf
  /\ LowestZero

LEMMA ZeroBegins == ZeroInit => ZeroIInv
<1> SUFFICES ASSUME ZeroInit PROVE ZeroIInv
  OBVIOUS
<1>1. Aligned
  <2>1. PICK k \in Nat : BufBits = ByteBits * k BY BoundsAssumption
  <2>2. BufBits = base + ByteBits * k BY <2>1, BoundsAssumption DEF ZeroInit
  <2>3. QED BY <2>2 DEF Aligned
<1>2. QED
  BY <1>1, BoundsAssumption DEF ZeroInit, ZeroIInv, ZeroTypeOK, LowestZero, Bit

LEMMA StepAligned ==
  ASSUME ZeroTypeOK, Aligned, base < BufBits
  PROVE  /\ base + ByteBits <= BufBits
         /\ base' = base + ByteBits => Aligned'
<1>1. PICK k \in Nat : BufBits = base + ByteBits * k BY DEF Aligned
<1>2. ByteBits \in Nat /\ ByteBits > 0 /\ BufBits \in Nat /\ base \in Nat
  BY BoundsAssumption DEF ZeroTypeOK
<1>3. k # 0 BY <1>1, <1>2
<1>4. k - 1 \in Nat /\ k = (k - 1) + 1 BY <1>3
<1>5. ByteBits * k = ByteBits * (k - 1) + ByteBits BY <1>2, <1>4
<1>6. ByteBits * (k - 1) \in Nat BY <1>2, <1>4
<1>7. BufBits = (base + ByteBits) + ByteBits * (k - 1)
  BY <1>1, <1>2, <1>5, <1>6
<1>8. base + ByteBits <= BufBits BY <1>2, <1>6, <1>7
<1>9. ASSUME base' = base + ByteBits PROVE Aligned'
  <2>1. BufBits = base' + ByteBits * (k - 1) BY <1>7, <1>9
  <2>2. QED BY <1>4, <2>1 DEF Aligned
<1>10. QED BY <1>8, <1>9

LEMMA ZeroStep == ZeroIInv /\ [ZeroNext]_zeroVars => ZeroIInv'
<1> SUFFICES ASSUME ZeroIInv, [ZeroNext]_zeroVars PROVE ZeroIInv'
  OBVIOUS
<1> USE BoundsAssumption DEF zeroArgs
<1>1. CASE SkipFullByte
  <2>1. Aligned' BY <1>1, StepAligned DEF SkipFullByte, ByteInRange, ZeroIInv
  <2>2. QED
    BY <1>1, <2>1 DEF SkipFullByte, ZeroIInv, ZeroTypeOK, LowestZero, Bit, ByteFull
<1>2. CASE SetInByte
  <2>1. Aligned'
    BY <1>2, StepAligned DEF SetInByte, ByteInRange, ZeroIInv, Aligned
  <2>2. QED
    BY <1>2, <2>1 DEF SetInByte, ZeroIInv, ZeroTypeOK, LowestZero, Bit
<1>3. CASE ClearInByte
  <2>1. Aligned' BY <1>3 DEF ClearInByte, ZeroIInv, Aligned
  <2>2. Bit < BufBits
    BY <1>3, StepAligned DEF ClearInByte, ByteInRange, ZeroIInv, ZeroTypeOK, Bit
  <2>3. IsFirstZero(buf, Bit, maxBit)
    BY <1>3 DEF ClearInByte, ZeroIInv, ZeroTypeOK, IsFirstZero, Bit
  <2>4. QED
    BY <1>3, <2>1, <2>2, <2>3 DEF ClearInByte, ZeroIInv, ZeroTypeOK, LowestZero, Bit
<1>4. CASE PastMaxBit
  BY <1>4 DEF PastMaxBit, ZeroIInv, ZeroTypeOK, LowestZero, Bit, Aligned
<1>5. CASE BytesExhausted
  BY <1>5 DEF BytesExhausted, ByteInRange, ZeroIInv, ZeroTypeOK, LowestZero, Bit, Aligned
<1>6. CASE UNCHANGED zeroVars
  BY <1>6 DEF zeroVars, ZeroIInv, ZeroTypeOK, LowestZero, IsFirstZero, Bit, Aligned
<1>7. QED BY <1>1, <1>2, <1>3, <1>4, <1>5, <1>6 DEF ZeroNext

(* The byte cursor and the bit inside it stay in range, for every bitmap,  *)
(* byte width and bound: an inner cursor never leaves its byte.            *)
THEOREM ZeroScanTyped == ZeroSpec => []ZeroTypeOK
  BY ZeroBegins, ZeroStep, PTL DEF ZeroSpec, ZeroIInv

(* allocate_inode's search returns the lowest clear bit below max_bit and  *)
(* inside the buffer, and gives up only when there is none: for every      *)
(* bitmap, byte width and bound.                                           *)
THEOREM ScanFindsLowestZero == ZeroSpec => []LowestZero
<1>1. ZeroIInv => LowestZero BY DEF ZeroIInv
<1>2. QED BY ZeroBegins, ZeroStep, <1>1, PTL DEF ZeroSpec

-----------------------------------------------------------------------------
(* Where a run that the scan has not ruled out may start. *)
Candidate == IF runStart = NoStart THEN bit ELSE runStart

(* What the loop knows at its head: no run starts before the candidate,    *)
(* and the bits from the candidate to the cursor are clear but too few.    *)
Scanned ==
  /\ runLen < n
  /\ Candidate + runLen = bit
  /\ RunBits(Candidate, runLen) \cap buf = {}
  /\ \A s \in Nat : s < Candidate => ~ IsFreeRun(buf, s, n, maxBit)

RunIInv ==
  /\ RunTypeOK
  /\ outcome = "scanning" /\ n # 0 => Scanned
  /\ FirstFit

LEMMA RunBegins == RunInit => RunIInv
  BY BoundsAssumption
     DEF RunInit, RunIInv, RunTypeOK, Scanned, Candidate, FirstFit, NoStart, RunBits

LEMMA RunStepTyped == RunIInv /\ [RunNext]_runVars => RunTypeOK'
<1> SUFFICES ASSUME RunIInv, [RunNext]_runVars PROVE RunTypeOK'
  OBVIOUS
<1> USE DEF RunIInv, RunTypeOK, NoStart, runArgs
<1>1. CASE EmptyRun  BY <1>1 DEF EmptyRun
<1>2. CASE ClearBit  BY <1>2 DEF ClearBit
<1>3. CASE SetBit    BY <1>3 DEF SetBit
<1>4. CASE BitsExhausted BY <1>4 DEF BitsExhausted
<1>5. CASE UNCHANGED runVars BY <1>5 DEF runVars
<1>6. QED BY <1>1, <1>2, <1>3, <1>4, <1>5 DEF RunNext

LEMMA RunStep == RunIInv /\ [RunNext]_runVars => RunIInv'
<1> SUFFICES ASSUME RunIInv, [RunNext]_runVars PROVE RunIInv'
  OBVIOUS
<1>0. RunTypeOK' BY RunStepTyped
<1> USE DEF NoStart, runArgs, runVars, RunNext
<1>1. CASE EmptyRun
  BY <1>0, <1>1 DEF EmptyRun, RunIInv, RunTypeOK, FirstFit
<1>2. CASE ClearBit
  <2>1. Scanned BY <1>2 DEF ClearBit, RunIInv
  <2> DEFINE start == Candidate
  <2>2. /\ start \in Nat /\ start + runLen = bit /\ n \in Nat /\ bit < maxBit
        /\ runLen \in Nat
    BY <1>2, <2>1 DEF ClearBit, RunIInv, RunTypeOK, Scanned, Candidate
  <2>3. RunBits(start, runLen + 1) \cap buf = {}
    BY <1>2, <2>1, <2>2 DEF ClearBit, GetBit, Scanned, RunBits, Candidate
  <2>4. /\ runStart' = start /\ runLen' = runLen + 1
        /\ UNCHANGED <<buf, n, maxBit>>
    BY <1>2 DEF ClearBit, Candidate
  <2>5. CASE runLen + 1 = n
    <3>1. outcome' = "some" /\ answer' = start
      BY <1>2, <2>5 DEF ClearBit, Candidate
    <3>2. IsFirstFreeRun(buf, start, n, maxBit)
      BY <2>1, <2>2, <2>3, <2>5
         DEF IsFirstFreeRun, IsFreeRun, Scanned, RunTypeOK, RunIInv, Candidate
    <3>3. QED BY <1>0, <2>4, <3>1, <3>2 DEF RunIInv, FirstFit
  <2>6. CASE runLen + 1 # n
    <3>1. /\ outcome' = "scanning" /\ bit' = bit + 1
          /\ Candidate' = start
      BY <1>2, <2>2, <2>4, <2>6 DEF ClearBit, Candidate
    <3>2. Scanned'
      BY <2>1, <2>2, <2>3, <2>4, <2>6, <3>1 DEF Scanned
    <3>3. QED BY <1>0, <3>1, <3>2 DEF RunIInv, FirstFit
  <2>7. QED BY <2>5, <2>6
<1>3. CASE SetBit
  <2>1. Scanned /\ bit \in buf /\ bit < maxBit
    BY <1>3 DEF SetBit, GetBit, RunIInv
  <2>2. /\ Candidate \in Nat /\ n \in Nat /\ bit \in Nat /\ runLen \in Nat
        /\ n > 0
    BY <1>3 DEF SetBit, RunIInv, RunTypeOK, Candidate
  <2>3. /\ outcome' = "scanning" /\ runLen' = 0 /\ bit' = bit + 1
        /\ Candidate' = bit + 1 /\ UNCHANGED <<buf, n, maxBit>>
    BY <1>3 DEF SetBit, Candidate
  <2>4. ASSUME NEW s \in Nat, s < bit + 1 PROVE ~ IsFreeRun(buf, s, n, maxBit)
    <3>1. CASE s < Candidate BY <2>1, <3>1 DEF Scanned
    <3>2. CASE s >= Candidate
      <4>1. bit \in RunBits(s, n)
        BY <2>1, <2>2, <2>4, <3>2 DEF RunBits, Scanned
      <4>2. QED BY <2>1, <4>1 DEF IsFreeRun
    <3>3. QED BY <2>2, <3>1, <3>2
  <2>5. Scanned'
    BY <2>2, <2>3, <2>4 DEF Scanned, RunBits
  <2>6. QED BY <1>0, <2>3, <2>5 DEF RunIInv, FirstFit
<1>4. CASE BitsExhausted
  <2>1. Scanned /\ bit >= maxBit
    BY <1>4 DEF BitsExhausted, RunIInv
  <2>2. ASSUME NEW s \in 0 .. maxBit PROVE ~ IsFreeRun(buf, s, n, maxBit)
    <3>1. CASE s < Candidate BY <2>1, <3>1 DEF Scanned
    <3>2. CASE s >= Candidate
      BY <2>1, <3>2 DEF Scanned, IsFreeRun, RunIInv, RunTypeOK, Candidate
    <3>3. QED BY <2>1, <3>1, <3>2 DEF Candidate, RunIInv, RunTypeOK
  <2>3. QED
    BY <1>0, <1>4, <2>2 DEF BitsExhausted, RunIInv, FirstFit, HasFreeRun, RunTypeOK
<1>5. CASE UNCHANGED runVars
  BY <1>0, <1>5
     DEF RunIInv, Scanned, Candidate, FirstFit, HasFreeRun, IsFirstFreeRun,
         IsFreeRun, RunBits
<1>6. QED BY <1>1, <1>2, <1>3, <1>4, <1>5

(* The scan's locals stay in range, for every argument. *)
THEOREM RunScanTyped == RunSpec => []RunTypeOK
  BY RunBegins, RunStep, PTL DEF RunSpec, RunIInv

(* The answer is the lowest free run of n bits below max_bit, and None     *)
(* means there is none, for every bitmap, run length and bound.            *)
THEOREM ScanIsFirstFit == RunSpec => []FirstFit
<1>1. RunIInv => FirstFit BY DEF RunIInv
<1>2. QED BY RunBegins, RunStep, <1>1, PTL DEF RunSpec

-----------------------------------------------------------------------------
(* Sets of naturals and sequences, for the walk of the extent tree.        *)
LEMMA LeastElement ==
  ASSUME NEW T \in SUBSET Nat, T # {}
  PROVE  \E m \in T : \A k \in T : m <= k
<1>1. PICK m \in T : \A k \in T : ~ (<<k, m>> \in OpToRel(<, Nat))
  BY NatLessThanWellFounded, WFMin
<1>2. \A k \in T : ~ (k < m)
  BY <1>1 DEF OpToRel
<1>. QED
  BY <1>2

(* A set of naturals with a bound has a greatest element. *)
LEMMA GreatestElement ==
  ASSUME NEW T \in SUBSET Nat, T # {}, NEW b \in Nat, \A k \in T : k <= b
  PROVE  \E m \in T : \A k \in T : k <= m
<1>. DEFINE D == {d \in Nat : \E k \in T : d = b - k}
<1>1. D # {}
  <2>1. PICK k \in T : TRUE
    OBVIOUS
  <2>2. b - k \in D
    BY <2>1
  <2>. QED
    BY <2>2
<1>2. PICK d \in D : \A e \in D : d <= e
  BY <1>1, LeastElement
<1>3. PICK m \in T : d = b - m
  OBVIOUS
<1>4. \A k \in T : b - k \in D
  OBVIOUS
<1>. QED
  BY <1>2, <1>3, <1>4

LEMMA SeqElement ==
  ASSUME NEW R, NEW s \in Seq(R), NEW i \in DOMAIN s
  PROVE  s[i] \in R /\ i \in 1 .. Len(s) /\ Len(s) \in Nat
  OBVIOUS

-----------------------------------------------------------------------------
LEMMA TreeFacts ==
  ASSUME NEW t \in TreeType, NEW nd \in Nodes
  PROVE  /\ t.node[nd] \in NodeType
         /\ t.holds[nd] \in [Logicals -> Nat \cup {Hole}]
         /\ t.height[nd] \in Nat
  BY DEF TreeType

(* On a leaf whose extents do not overlap, the first that covers a block   *)
(* is the only one.                                                        *)
LEMMA ResolveSoundLeaf ==
  ASSUME NEW t \in TreeType, NEW nd \in Nodes, SoundLeaf(nd, t), NEW k \in Logicals
  PROVE  Resolve(t.node[nd].extents, k) = t.holds[nd][k]
<1>. DEFINE exts == t.node[nd].extents
            hits == {j \in DOMAIN exts : Covers(exts[j], k)}
<1>1. DOMAIN exts \subseteq Nat
  BY TreeFacts DEF NodeType
<1>2. CASE hits = {}
  BY <1>2 DEF SoundLeaf, Resolve
<1>3. CASE hits # {}
  <2>1. \E j \in hits : \A i \in hits : j <= i
    BY <1>1, <1>3, LeastElement
  <2>. DEFINE first == CHOOSE j \in hits : \A i \in hits : j <= i
  <2>2. first \in hits
    BY <2>1
  <2>3. Resolve(exts, k) = Place(exts[first], k)
    BY <1>3 DEF Resolve
  <2>. HIDE DEF first
  <2>. QED
    BY <2>2, <2>3 DEF SoundLeaf
<1>. QED
  BY <1>2, <1>3

(* Below an index that starts at or before k and whose successor starts    *)
(* after it, a sound node keeps all it holds of k; below none, nothing.    *)
LEMMA PassedBelow ==
  ASSUME NEW t \in TreeType, NEW nd \in Nodes, SoundIndex(nd, t), NEW k \in Logicals,
         NEW j \in DOMAIN t.node[nd].indices,
         t.holds[t.node[nd].indices[j].child][k] # Hole
  PROVE  j \in Chosen(t.node[nd].indices, k)
<1>. DEFINE ind == t.node[nd].indices
<1>0. ind \in Seq([log : Nat, child : Nodes \cup {Outside}])
  BY TreeFacts DEF NodeType
<1>. HIDE DEF ind
<1>1. /\ DOMAIN ind = 1 .. Len(ind) /\ Len(ind) \in Nat
      /\ j \in DOMAIN ind
      /\ \A i \in DOMAIN ind : ind[i].log \in Nat
  <2>1. DOMAIN ind = 1 .. Len(ind) /\ Len(ind) \in Nat
    BY <1>0
  <2>2. j \in DOMAIN ind
    BY DEF ind
  <2>3. ASSUME NEW i \in DOMAIN ind PROVE ind[i].log \in Nat
    <3>1. ind[i] \in [log : Nat, child : Nodes \cup {Outside}]
      BY <1>0, SeqElement
    <3>. QED
      BY <3>1
  <2>. QED
    BY <2>1, <2>2, <2>3
<1>2. k \in Nat
  BY ExtentTreeAssumption
<1>3. /\ \A i \in 1 .. (j - 1) : ind[i].log < ind[j].log
      /\ ind[j].log <= k
      /\ \A i \in DOMAIN ind : j < i => k < ind[i].log
  BY DEF SoundIndex, ind
<1>4. j \in Passed(ind, k)
  <2>1. ASSUME NEW i \in 1 .. j PROVE ind[i].log <= k
    <3>1. i \in DOMAIN ind /\ (i = j \/ i \in 1 .. (j - 1))
      BY <1>1, SMTT(30)
    <3>. QED
      BY <1>1, <1>2, <1>3, <3>1
  <2>. QED
    BY <2>1 DEF Passed, ind
<1>5. ASSUME NEW i \in Passed(ind, k) PROVE i <= j
  <2>1. i \in DOMAIN ind /\ i \in 1 .. i
    BY <1>1 DEF Passed
  <2>2. ind[i].log <= k
    BY <2>1 DEF Passed
  <2>. QED
    BY <1>1, <1>2, <1>3, <2>1, <2>2, SMTT(30) DEF ind
<1>. QED
  BY <1>4, <1>5 DEF Chosen, ind

LEMMA ChosenUnique ==
  ASSUME NEW ind \in Seq([log : Nat, child : Nodes \cup {Outside}]), NEW k \in Nat,
         NEW i \in Chosen(ind, k), NEW j \in Chosen(ind, k)
  PROVE  i = j /\ j \in DOMAIN ind
  BY SMTT(30) DEF Chosen, Passed

LEMMA DescentKeepsHolds ==
  ASSUME NEW t \in TreeType, NEW nd \in Nodes, SoundIndex(nd, t), NEW k \in Logicals,
         NEW j \in Chosen(t.node[nd].indices, k)
  PROVE  /\ t.node[nd].indices[j].child \in Nodes
         /\ t.holds[t.node[nd].indices[j].child][k] = t.holds[nd][k]
         /\ t.height[t.node[nd].indices[j].child] < t.height[nd]
<1>. DEFINE ind == t.node[nd].indices
<1>1. ind \in Seq([log : Nat, child : Nodes \cup {Outside}]) /\ k \in Nat
  BY TreeFacts, ExtentTreeAssumption DEF NodeType
<1>2. j \in DOMAIN ind
  BY <1>1, ChosenUnique
<1>3. /\ ind[j].child \in Nodes
      /\ t.height[ind[j].child] < t.height[nd]
  BY <1>2, ZenonT(60) DEF SoundIndex
<1>4. CASE \A i \in DOMAIN ind : t.holds[ind[i].child][k] = Hole
  BY <1>2, <1>4, ZenonT(60) DEF SoundIndex
<1>5. ASSUME NEW i \in DOMAIN ind, t.holds[ind[i].child][k] # Hole
      PROVE  t.holds[ind[j].child][k] = t.holds[nd][k]
  <2>1. i \in Chosen(ind, k)
    BY <1>5, PassedBelow
  <2>2. i = j
    BY <1>1, <2>1, ChosenUnique
  <2>. QED
    BY <1>5, <2>2, ZenonT(60) DEF SoundIndex
<1>. QED
  BY <1>3, <1>4, <1>5

LEMMA NoIndexIsHole ==
  ASSUME NEW t \in TreeType, NEW nd \in Nodes, SoundIndex(nd, t), NEW k \in Logicals,
         Chosen(t.node[nd].indices, k) = {}
  PROVE  t.holds[nd][k] = Hole
<1>1. \A j \in DOMAIN t.node[nd].indices :
        t.holds[t.node[nd].indices[j].child][k] = Hole
  BY PassedBelow
<1>. QED
  BY <1>1 DEF SoundIndex

LEMMA ResolveType ==
  ASSUME NEW nd \in NodeType, NEW k \in Nat
  PROVE  Resolve(nd.extents, k) \in Nat \cup {Hole}
<1>. DEFINE exts == nd.extents
            hits == {j \in DOMAIN exts : Covers(exts[j], k)}
            ET == [log : Nat, len : Nat, phys : Nat, uninit : BOOLEAN]
<1>1. exts \in Seq(ET)
  BY DEF NodeType
<1>2. CASE hits = {}
  BY <1>2 DEF Resolve
<1>3. CASE hits # {}
  <2>1. hits \subseteq Nat
    BY <1>1, SeqElement
  <2>2. \E j \in hits : \A i \in hits : j <= i
    BY <2>1, <1>3, LeastElement
  <2>. DEFINE first == CHOOSE j \in hits : \A i \in hits : j <= i
  <2>3. first \in hits
    BY <2>2
  <2>4. Resolve(exts, k) = Place(exts[first], k)
    BY <1>3 DEF Resolve
  <2>. HIDE DEF first
  <2>5. exts[first] \in ET /\ Covers(exts[first], k)
    BY <1>1, <2>3, SeqElement
  <2>6. Place(exts[first], k) \in Nat \cup {Hole}
    BY <2>5 DEF Place, Covers
  <2>. QED
    BY <2>4, <2>6
<1>. QED
  BY <1>2, <1>3

-----------------------------------------------------------------------------
(* What the walk keeps on its way down: whichever part of the tree is      *)
(* sound, the walk is inside it, at a node that still holds what the root  *)
(* holds of the block asked for, and each read has cost a level of height. *)
OnTheWay(S) ==
  /\ at \in S
  /\ tree.holds[at][logical] = tree.holds[Root][logical]
  /\ tree.height[at] + reads <= tree.height[Root]
  /\ result \in {"pending", "ok", "tooDeep"}
  /\ result = "ok" => physical = tree.holds[Root][logical]

IInv ==
  /\ TreeTypeOK
  /\ result = "pending" => steps + reads = MaxExtentDepth + 1
  /\ result = "tooDeep" => reads = MaxExtentDepth + 1
  /\ \A S \in SUBSET Nodes : Root \in S /\ SoundSet(S, tree) => OnTheWay(S)

LEMMA InitIInv == TreeInit => IInv
<1>. SUFFICES ASSUME TreeInit PROVE IInv
  OBVIOUS
<1>1. /\ tree \in TreeType /\ logical \in Logicals /\ at = Root /\ Root \in Nodes
      /\ steps = MaxExtentDepth + 1 /\ MaxExtentDepth \in Nat
      /\ reads = 0 /\ result = "pending" /\ physical = Hole
  BY ExtentTreeAssumption DEF TreeInit, Iterations
<1>2. tree.height[Root] \in Nat
  BY <1>1, TreeFacts
<1>3. TreeTypeOK
  BY <1>1 DEF TreeTypeOK
<1>. QED
  BY <1>1, <1>2, <1>3 DEF IInv, OnTheWay

LEMMA StepTypeOK == IInv /\ [TreeNext]_walkVars => TreeTypeOK'
<1>. SUFFICES ASSUME IInv, [TreeNext]_walkVars PROVE TreeTypeOK'
  OBVIOUS
<1>1. TreeTypeOK /\ MaxExtentDepth \in Nat /\ Logicals \subseteq Nat
  BY ExtentTreeAssumption DEF IInv
<1>2. Node \in NodeType /\ logical \in Nat
  BY <1>1, TreeFacts DEF TreeTypeOK, Node
<1>3. Resolve(Node.extents, logical) \in Nat \cup {Hole}
  BY <1>2, ResolveType
<1>4. CASE result = "pending" /\ Exhausted
  BY <1>1, <1>4 DEF TreeTypeOK, Exhausted, Fail
<1>5. CASE result = "pending" /\ Undecodable
  BY <1>1, <1>5 DEF TreeTypeOK, Undecodable, Fail
<1>6. CASE result = "pending" /\ AtLeaf
  BY <1>1, <1>3, <1>6 DEF TreeTypeOK, AtLeaf, Answer
<1>7. CASE result = "pending" /\ BelowFirstIndex
  BY <1>1, <1>7 DEF TreeTypeOK, BelowFirstIndex, Answer
<1>8. CASE result = "pending" /\ Descend
  <2>1. PICK j \in Chosen(Node.indices, logical) :
          LET child == Node.indices[j].child IN
          IF child = Outside THEN Fail("io", steps - 1)
          ELSE /\ at' = child /\ steps' = steps - 1 /\ reads' = reads + 1
               /\ UNCHANGED <<tree, logical, result, physical>>
    BY <1>8 DEF Descend
  <2>2. steps > 0 /\ steps + reads = MaxExtentDepth + 1
    BY <1>8 DEF Descend, IInv
  <2>3. Node.indices \in Seq([log : Nat, child : Nodes \cup {Outside}])
    BY <1>2 DEF NodeType
  <2>4. Node.indices[j].child \in Nodes \cup {Outside}
    <3>1. j \in DOMAIN Node.indices
      BY <1>2, <2>3, ChosenUnique
    <3>2. Node.indices[j] \in [log : Nat, child : Nodes \cup {Outside}]
      BY <2>3, <3>1, SeqElement
    <3>. QED
      BY <3>2
  <2>5. CASE Node.indices[j].child = Outside
    BY <1>1, <2>1, <2>2, <2>5 DEF TreeTypeOK, Fail
  <2>6. CASE Node.indices[j].child # Outside
    BY <1>1, <2>1, <2>2, <2>4, <2>6 DEF TreeTypeOK
  <2>. QED
    BY <2>5, <2>6
<1>9. CASE UNCHANGED walkVars
  BY <1>1, <1>9 DEF TreeTypeOK, walkVars
<1>. QED
  BY <1>4, <1>5, <1>6, <1>7, <1>8, <1>9 DEF TreeNext, Iterate, Returned

(* Inside a sound part of the tree no step leads out of it. *)
LEMMA StepOnTheWay ==
  ASSUME IInv, [TreeNext]_walkVars, NEW S \in SUBSET Nodes, Root \in S, SoundSet(S, tree)
  PROVE  OnTheWay(S)'
<1>1. /\ TreeTypeOK /\ OnTheWay(S) /\ at \in S /\ at \in Nodes
      /\ tree \in TreeType /\ logical \in Logicals
      /\ MaxExtentDepth \in Nat /\ reads \in Nat /\ steps \in Nat
  BY ExtentTreeAssumption DEF IInv, TreeTypeOK, OnTheWay
<1>2. \/ Node.kind = "leaf" /\ SoundLeaf(at, tree)
      \/ /\ Node.kind = "index" /\ SoundIndex(at, tree)
         /\ \A j \in DOMAIN Node.indices : Node.indices[j].child \in S
  BY <1>1 DEF SoundSet, Node
<1>3. CASE result = "pending" /\ Exhausted
  BY <1>1, <1>3 DEF OnTheWay, Exhausted, Fail
<1>4. CASE result = "pending" /\ Undecodable
  BY <1>2, <1>4 DEF Undecodable
<1>5. CASE result = "pending" /\ AtLeaf
  <2>1. Resolve(Node.extents, logical) = tree.holds[at][logical]
    BY <1>1, <1>2, <1>5, ResolveSoundLeaf DEF AtLeaf, Node
  <2>. QED
    BY <1>1, <1>5, <2>1 DEF AtLeaf, Answer, OnTheWay
<1>6. CASE result = "pending" /\ BelowFirstIndex
  <2>1. tree.holds[at][logical] = Hole
    BY <1>1, <1>2, <1>6, NoIndexIsHole DEF BelowFirstIndex, Node
  <2>. QED
    BY <1>1, <1>6, <2>1 DEF BelowFirstIndex, Answer, OnTheWay
<1>7. CASE result = "pending" /\ Descend
  <2>1. PICK j \in Chosen(Node.indices, logical) :
          LET child == Node.indices[j].child IN
          IF child = Outside THEN Fail("io", steps - 1)
          ELSE /\ at' = child /\ steps' = steps - 1 /\ reads' = reads + 1
               /\ UNCHANGED <<tree, logical, result, physical>>
    BY <1>7 DEF Descend
  <2>. DEFINE child == Node.indices[j].child
  <2>2. SoundIndex(at, tree) /\ (\A i \in DOMAIN Node.indices : Node.indices[i].child \in S)
    BY <1>2, <1>7, SMTT(30) DEF Descend
  <2>3. /\ child \in Nodes
        /\ tree.holds[child][logical] = tree.holds[at][logical]
        /\ tree.height[child] < tree.height[at]
    BY <1>1, <2>2, DescentKeepsHolds DEF Node
  <2>4. child # Outside
    BY <2>3, ExtentTreeAssumption
  <2>5. child \in S
    <3>1. Node.indices \in Seq([log : Nat, child : Nodes \cup {Outside}]) /\ logical \in Nat
      BY <1>1, TreeFacts, ExtentTreeAssumption DEF NodeType, Node
    <3>2. j \in DOMAIN Node.indices
      BY <3>1, ChosenUnique
    <3>. QED
      BY <2>2, <3>2
  <2>6. /\ at' = child /\ reads' = reads + 1 /\ result' = "pending"
        /\ UNCHANGED <<tree, logical, physical>>
    BY <1>7, <2>1, <2>4
  <2>7. /\ tree.height[child] \in Nat /\ tree.height[at] \in Nat /\ tree.height[Root] \in Nat
    BY <1>1, <2>3, TreeFacts, ExtentTreeAssumption
  <2>. HIDE DEF child
  <2>8. tree.height[child] + (reads + 1) <= tree.height[Root]
    BY <1>1, <2>3, <2>7 DEF OnTheWay
  <2>9. tree.holds[child][logical] = tree.holds[Root][logical]
    BY <1>1, <2>3 DEF OnTheWay
  <2>. QED
    BY <2>5, <2>6, <2>8, <2>9 DEF OnTheWay
<1>8. CASE UNCHANGED walkVars
  BY <1>1, <1>8 DEF OnTheWay, walkVars
<1>. QED
  BY <1>3, <1>4, <1>5, <1>6, <1>7, <1>8 DEF TreeNext, Iterate, Returned

LEMMA StepIInv == IInv /\ [TreeNext]_walkVars => IInv'
<1>. SUFFICES ASSUME IInv, [TreeNext]_walkVars PROVE IInv'
  OBVIOUS
<1>1. TreeTypeOK'
  BY StepTypeOK
<1>2. TreeTypeOK /\ MaxExtentDepth \in Nat /\ tree' = tree
  BY ExtentTreeAssumption
     DEF IInv, TreeNext, Iterate, Returned, Exhausted, Undecodable, AtLeaf, BelowFirstIndex,
         Descend, Fail, Answer, walkVars
<1>3. /\ result' = "pending" => steps' + reads' = MaxExtentDepth + 1
      /\ result' = "tooDeep" => reads' = MaxExtentDepth + 1
  BY <1>2
     DEF IInv, TreeTypeOK, TreeNext, Iterate, Returned, Exhausted, Undecodable, AtLeaf,
         BelowFirstIndex, Descend, Fail, Answer, walkVars
<1>4. ASSUME NEW S \in SUBSET Nodes, Root \in S, SoundSet(S, tree') PROVE OnTheWay(S)'
  <2>1. SoundSet(S, tree)
    BY <1>2, <1>4
  <2>. QED
    BY <1>4, <2>1, StepOnTheWay
<1>. QED
  BY <1>1, <1>3, <1>4 DEF IInv

LEMMA IInvAlways == TreeSpec => []IInv
  BY InitIInv, StepIInv, PTL DEF TreeSpec

-----------------------------------------------------------------------------
(* The walk of resolve_logical_block keeps its types, and steps never      *)
(* underflows.                                                             *)
THEOREM TypeCorrect == TreeSpec => []TreeTypeOK
<1>1. IInv => TreeTypeOK
  BY DEF IInv
<1>. QED
  BY <1>1, IInvAlways, PTL

(* resolve_logical_block answers what the flat map of the tree says, for   *)
(* every sound tree, block and depth limit.                                *)
THEOREM WalkFinds == TreeSpec => []FindsWhatTreeHolds
<1>1. IInv => FindsWhatTreeHolds
  BY DEF IInv, OnTheWay, FindsWhatTreeHolds, Sound
<1>. QED
  BY <1>1, IInvAlways, PTL

(* MaxExtentDepthExceeded, and every other error, is kept for trees that   *)
(* are unsound or higher than MAX_EXTENT_DEPTH.                            *)
THEOREM WalkReaches == TreeSpec => []LegalDepthSuffices
<1>1. IInv => LegalDepthSuffices
  <2>. SUFFICES ASSUME IInv, Sound(tree), tree.height[Root] <= MaxExtentDepth
       PROVE  result \in {"pending", "ok"}
    BY DEF LegalDepthSuffices
  <2>1. PICK S \in SUBSET Nodes : Root \in S /\ SoundSet(S, tree)
    BY DEF Sound
  <2>2. OnTheWay(S)
    BY <2>1 DEF IInv
  <2>3. /\ tree.height[at] \in Nat /\ tree.height[Root] \in Nat
        /\ reads \in Nat /\ MaxExtentDepth \in Nat
    BY TreeFacts, ExtentTreeAssumption DEF IInv, TreeTypeOK
  <2>. QED
    BY <2>2, <2>3 DEF OnTheWay, IInv
<1>. QED
  BY <1>1, IInvAlways, PTL

-----------------------------------------------------------------------------
(* Two halves of a word. *)
LEMMA Split ==
  ASSUME NEW b \in Nat \ {0}, NEW a \in Nat \ {0}, NEW x \in 0 .. (a * b - 1)
  PROVE  /\ x % b \in 0 .. (b - 1)
         /\ x \div b \in 0 .. (a - 1)
         /\ (x \div b) * b + (x % b) = x
<1>1. x \in Nat /\ a * b \in Nat
  OBVIOUS
<1>2. x % b \in 0 .. (b - 1) /\ x \div b \in Nat /\ (x \div b) * b + (x % b) = x
  BY <1>1, Z3
<1>. DEFINE q == x \div b
            r == x % b
<1>. HIDE DEF q, r
<1>3. q \in Nat /\ r \in Nat /\ q * b + r < a * b /\ q * b \in Nat
  BY <1>1, <1>2 DEF q, r
<1>4. q < a
  <2>1. q >= a => q * b >= a * b
    BY <1>3, Z3
  <2>. QED BY <1>1, <1>3, <2>1
<1>. QED BY <1>2, <1>3, <1>4 DEF q, r

LEMMA Join ==
  ASSUME NEW b \in Nat \ {0}, NEW a \in Nat \ {0},
         NEW hi \in 0 .. (a - 1), NEW lo \in 0 .. (b - 1)
  PROVE  /\ hi * b + lo \in 0 .. (a * b - 1)
         /\ (hi * b + lo) \div b = hi
         /\ (hi * b + lo) % b = lo
<1>1. hi * b \in Nat /\ a * b \in Nat /\ hi * b + lo \in Nat
  OBVIOUS
<1>2. hi * b + b <= a * b
  <2>1. hi + 1 <= a /\ (hi + 1) * b = hi * b + b
    BY Z3
  <2>. QED BY <2>1, Z3
<1>3. (hi * b + lo) \div b = hi /\ (hi * b + lo) % b = lo
  BY <1>1, Z3
<1>. QED BY <1>1, <1>2, <1>3

(* The record in memory. *)
InodeType ==
  [mode : Modes, uid : Wide, gid : Wide, size : Wide,
   atime : Stamps, mtime : Stamps, ctime : Stamps, links : Links]

LEMMA DecodeTyped ==
  ASSUME NEW raw \in RecordType
  PROVE  Decode(raw) \in InodeType
<1>1. /\ raw.uidHi * Half + raw.uidLo \in Wide
      /\ raw.gidHi * Half + raw.gidLo \in Wide
      /\ raw.sizeHi * Half + raw.sizeLo \in Wide
  <2>1. /\ raw.uidHi \in Halves /\ raw.uidLo \in Halves
        /\ raw.gidHi \in Halves /\ raw.gidLo \in Halves
        /\ raw.sizeHi \in Halves /\ raw.sizeLo \in Halves
    BY DEF RecordType
  <2>. QED BY <2>1, Join, FieldsAssumption DEF Halves, Wide
<1>. QED BY <1>1 DEF Decode, InodeType, RecordType

(* What is written is a record, and reads back as it was. *)
LEMMA ReadsBack ==
  ASSUME NEW inode \in InodeType
  PROVE  Encode(inode) \in RecordType /\ Decode(Encode(inode)) = inode
<1>1. ASSUME NEW x \in Wide
      PROVE  /\ x % Half \in Halves /\ x \div Half \in Halves
             /\ (x \div Half) * Half + (x % Half) = x
  BY Split, FieldsAssumption DEF Wide, Halves
<1>2. inode.uid \in Wide /\ inode.gid \in Wide /\ inode.size \in Wide
  BY DEF InodeType
<1>3. Encode(inode) \in RecordType
  BY <1>1, <1>2 DEF Encode, RecordType, InodeType
<1>4. /\ (inode.uid \div Half) * Half + (inode.uid % Half) = inode.uid
      /\ (inode.gid \div Half) * Half + (inode.gid % Half) = inode.gid
      /\ (inode.size \div Half) * Half + (inode.size % Half) = inode.size
  BY <1>1, <1>2
<1>5. Decode(Encode(inode)) =
        [mode |-> inode.mode,
         uid |-> (inode.uid \div Half) * Half + (inode.uid % Half),
         gid |-> (inode.gid \div Half) * Half + (inode.gid % Half),
         size |-> (inode.size \div Half) * Half + (inode.size % Half),
         atime |-> inode.atime, mtime |-> inode.mtime, ctime |-> inode.ctime,
         links |-> inode.links]
  BY DEF Decode, Encode
<1>6. Decode(Encode(inode)) =
        [mode |-> inode.mode, uid |-> inode.uid, gid |-> inode.gid, size |-> inode.size,
         atime |-> inode.atime, mtime |-> inode.mtime, ctime |-> inode.ctime,
         links |-> inode.links]
  BY <1>4, <1>5, Zenon
<1>7. inode =
        [mode |-> inode.mode, uid |-> inode.uid, gid |-> inode.gid, size |-> inode.size,
         atime |-> inode.atime, mtime |-> inode.mtime, ctime |-> inode.ctime,
         links |-> inode.links]
  BY DEF InodeType
<1>. QED BY <1>3, <1>6, <1>7, Zenon

(* The shared word of type and permissions. *)
LEMMA ModeSplit ==
  ASSUME NEW m \in Modes
  PROVE  /\ m \div PermBits \in 0 .. (TypeBits - 1)
         /\ m % PermBits \in 0 .. (PermBits - 1)
  BY Split, FieldsAssumption DEF Modes

LEMMA ModeJoin ==
  ASSUME NEW m \in Modes, NEW k \in Modes
  PROVE  LET new == (m \div PermBits) * PermBits + (k % PermBits) IN
         /\ new \in Modes
         /\ new \div PermBits = m \div PermBits
         /\ new % PermBits = k % PermBits
<1>1. m \div PermBits \in 0 .. (TypeBits - 1) /\ k % PermBits \in 0 .. (PermBits - 1)
  BY ModeSplit
<1>. DEFINE hi == m \div PermBits
            lo == k % PermBits
<1>. HIDE DEF hi, lo
<1>2. /\ hi * PermBits + lo \in 0 .. (TypeBits * PermBits - 1)
      /\ (hi * PermBits + lo) \div PermBits = hi
      /\ (hi * PermBits + lo) % PermBits = lo
  BY <1>1, Join, FieldsAssumption, ZenonT(60) DEF hi, lo
<1>. QED BY <1>2, Zenon DEF hi, lo, Modes

-----------------------------------------------------------------------------
Attr(type, perm, uid, gid, size, atime, mtime) ==
  [type |-> type, perm |-> perm, uid |-> uid, gid |-> gid, size |-> size,
   atime |-> atime, mtime |-> mtime]

(* What each call makes of them. *)
WithPerm(attr, perm) == [attr EXCEPT !.perm = perm]
WithIds(attr, uid, gid) == [[attr EXCEPT !.uid = uid] EXCEPT !.gid = gid]
WithTimes(attr, atime, mtime) == [[attr EXCEPT !.atime = atime] EXCEPT !.mtime = mtime]
WithSize(attr, size, mtime) == [[attr EXCEPT !.size = size] EXCEPT !.mtime = mtime]

LEMMA PermField ==
  ASSUME NEW t, NEW p, NEW u, NEW g, NEW s, NEW a, NEW m, NEW x
  PROVE  WithPerm(Attr(t, p, u, g, s, a, m), x) = Attr(t, x, u, g, s, a, m)
  BY DEF Attr, WithPerm

LEMMA IdFields ==
  ASSUME NEW t, NEW p, NEW u, NEW g, NEW s, NEW a, NEW m, NEW x, NEW y
  PROVE  WithIds(Attr(t, p, u, g, s, a, m), x, y) = Attr(t, p, x, y, s, a, m)
<1>1. [Attr(t, p, u, g, s, a, m) EXCEPT !.uid = x] = Attr(t, p, x, g, s, a, m)
  BY DEF Attr
<1>2. [Attr(t, p, x, g, s, a, m) EXCEPT !.gid = y] = Attr(t, p, x, y, s, a, m)
  BY DEF Attr
<1>. QED BY <1>1, <1>2, Zenon DEF WithIds

LEMMA TimeFields ==
  ASSUME NEW t, NEW p, NEW u, NEW g, NEW s, NEW a, NEW m, NEW x, NEW y
  PROVE  WithTimes(Attr(t, p, u, g, s, a, m), x, y) = Attr(t, p, u, g, s, x, y)
<1>1. [Attr(t, p, u, g, s, a, m) EXCEPT !.atime = x] = Attr(t, p, u, g, s, x, m)
  BY DEF Attr
<1>2. [Attr(t, p, u, g, s, x, m) EXCEPT !.mtime = y] = Attr(t, p, u, g, s, x, y)
  BY DEF Attr
<1>. QED BY <1>1, <1>2, Zenon DEF WithTimes

LEMMA SizeFields ==
  ASSUME NEW t, NEW p, NEW u, NEW g, NEW s, NEW a, NEW m, NEW x, NEW y
  PROVE  WithSize(Attr(t, p, u, g, s, a, m), x, y) = Attr(t, p, u, g, x, a, y)
<1>1. [Attr(t, p, u, g, s, a, m) EXCEPT !.size = x] = Attr(t, p, u, g, x, a, m)
  BY DEF Attr
<1>2. [Attr(t, p, u, g, x, a, m) EXCEPT !.mtime = y] = Attr(t, p, u, g, x, a, y)
  BY DEF Attr
<1>. QED BY <1>1, <1>2, Zenon DEF WithSize

(* The attributes that a record in memory shows. *)
Shown(inode) ==
  Attr(inode.mode \div PermBits, inode.mode % PermBits, inode.uid, inode.gid,
       inode.size, inode.atime, inode.mtime)

TableTyped == table \in [Inodes -> RecordType]

LEMMA ShownTyped ==
  ASSUME NEW inode \in InodeType
  PROVE  Shown(inode) \in Attrs!AttrType
<1>1. inode.mode \in Modes
  BY DEF InodeType
<1>2. inode.mode \div PermBits \in Attrs!Types /\ inode.mode % PermBits \in Attrs!Perms
  BY <1>1, ModeSplit DEF Attrs!Types, Attrs!Perms
<1>. QED BY <1>2 DEF Shown, Attr, InodeType, Attrs!AttrType

LEMMA AttrsShow ==
  ASSUME TableTyped, NEW i \in Inodes
  PROVE  /\ Decode(table[i]) \in InodeType
         /\ attrs[i] = Shown(Decode(table[i]))
         /\ attrs[i] \in Attrs!AttrType
<1>1. Decode(table[i]) \in InodeType
  BY DecodeTyped DEF TableTyped
<1>2. attrs[i] = Shown(Decode(table[i]))
  BY DEF attrs, Shown, Attr
<1>. QED BY <1>1, <1>2, ShownTyped

LEMMA WriteShows ==
  ASSUME TableTyped, NEW i \in Inodes, NEW inode \in InodeType, WriteInode(i, inode)
  PROVE  /\ TableTyped'
         /\ attrs' = [attrs EXCEPT ![i] = Shown(inode)]
<1>1. table' = [table EXCEPT ![i] = Encode(inode)]
  BY DEF WriteInode
<1>2. Encode(inode) \in RecordType /\ Decode(Encode(inode)) = inode
  BY ReadsBack
<1>3. TableTyped'
  BY <1>1, <1>2 DEF TableTyped
<1>4. \A j \in Inodes : attrs'[j] = IF j = i THEN Shown(inode) ELSE attrs[j]
  <2>. SUFFICES ASSUME NEW j \in Inodes
       PROVE  attrs'[j] = IF j = i THEN Shown(inode) ELSE attrs[j]
    OBVIOUS
  <2>1. attrs'[j] = Shown(Decode(table'[j])) /\ attrs[j] = Shown(Decode(table[j]))
    BY DEF attrs, Shown, Attr, Decode
  <2>2. table'[j] = IF j = i THEN Encode(inode) ELSE table[j]
    BY <1>1 DEF TableTyped
  <2>. QED BY <1>2, <2>1, <2>2, Zenon
<1>5. attrs = [j \in Inodes |-> attrs[j]] /\ attrs' = [j \in Inodes |-> attrs'[j]]
  BY DEF attrs
<1>. QED BY <1>3, <1>4, <1>5

-----------------------------------------------------------------------------
(* Each call, on the attributes. *)
LEMMA ChmodSets ==
  ASSUME TableTyped, NEW i \in Inodes, NEW mode \in Modes, Chmod(i, mode)
  PROVE  TableTyped' /\ Attrs!Chmod(i, mode)
<1>. PICK inode : inode = Decode(table[i])
  OBVIOUS
<1>1. inode \in InodeType /\ attrs[i] = Shown(inode)
  BY AttrsShow
<1>. DEFINE word == (inode.mode \div PermBits) * PermBits + (mode % PermBits)
            new == [inode EXCEPT !.mode = word, !.ctime = METADATA_CTIME]
<1>2. /\ word \in Modes /\ word \div PermBits = inode.mode \div PermBits
      /\ word % PermBits = mode % PermBits
  BY <1>1, ModeJoin DEF InodeType
<1>3. [WithMode(inode, mode) EXCEPT !.ctime = METADATA_CTIME] = new
  BY <1>1 DEF WithMode, InodeType
<1>4. WriteInode(i, new)
  BY <1>3 DEF Chmod
<1>. HIDE DEF word
<1>5. new \in InodeType
  BY <1>1, <1>2, FieldsAssumption DEF InodeType
<1>6. Shown(new) = WithPerm(Shown(inode), mode % PermBits)
  <2>1. /\ new.mode = word /\ new.uid = inode.uid /\ new.gid = inode.gid
        /\ new.size = inode.size /\ new.atime = inode.atime /\ new.mtime = inode.mtime
    BY <1>1 DEF InodeType
  <2>. HIDE DEF new
  <2>. QED BY <1>2, <2>1, PermField DEF Shown
<1>. HIDE DEF new
<1>7. TableTyped' /\ attrs' = [attrs EXCEPT ![i] = Shown(new)]
  BY <1>4, <1>5, WriteShows
<1>8. attrs' = [attrs EXCEPT ![i] = WithPerm(attrs[i], mode % PermBits)]
  BY <1>1, <1>6, <1>7, Zenon
<1>. QED BY <1>7, <1>8 DEF Attrs!Chmod, WithPerm

LEMMA ChownSets ==
  ASSUME TableTyped, NEW i \in Inodes, NEW uid \in Wide, NEW gid \in Wide,
         Chown(i, uid, gid)
  PROVE  TableTyped' /\ Attrs!Chown(i, uid, gid)
<1>. PICK inode : inode = Decode(table[i])
  OBVIOUS
<1>1. inode \in InodeType /\ attrs[i] = Shown(inode)
  BY AttrsShow
<1>. DEFINE new == [inode EXCEPT !.uid = uid, !.gid = gid, !.ctime = METADATA_CTIME]
<1>2. WriteInode(i, new)
  BY DEF Chown
<1>3. new \in InodeType
  BY <1>1, FieldsAssumption DEF InodeType
<1>4. Shown(new) = WithIds(Shown(inode), uid, gid)
  <2>1. /\ new.mode = inode.mode /\ new.uid = uid /\ new.gid = gid
        /\ new.size = inode.size /\ new.atime = inode.atime /\ new.mtime = inode.mtime
    BY <1>1 DEF InodeType
  <2>. HIDE DEF new
  <2>. QED BY <2>1, IdFields DEF Shown
<1>. HIDE DEF new
<1>5. TableTyped' /\ attrs' = [attrs EXCEPT ![i] = Shown(new)]
  BY <1>2, <1>3, WriteShows
<1>6. attrs = [j \in Inodes |-> attrs[j]]
  BY DEF attrs
<1>7. attrs' = [attrs EXCEPT ![i] = WithIds(attrs[i], uid, gid)]
  BY <1>1, <1>4, <1>5, Zenon
<1>8. Attrs!Chown(i, uid, gid)
  BY <1>6, <1>7 DEF Attrs!Chown, WithIds
<1>. QED BY <1>5, <1>8

LEMMA UtimeSets ==
  ASSUME TableTyped, NEW i \in Inodes, NEW atime \in Stamps, NEW mtime \in Stamps,
         Utime(i, atime, mtime)
  PROVE  TableTyped' /\ Attrs!Utime(i, atime, mtime)
<1>. PICK inode : inode = Decode(table[i])
  OBVIOUS
<1>1. inode \in InodeType /\ attrs[i] = Shown(inode)
  BY AttrsShow
<1>. DEFINE new == [inode EXCEPT !.atime = atime, !.mtime = mtime,
                                 !.ctime = METADATA_CTIME]
<1>2. WriteInode(i, new)
  BY DEF Utime
<1>3. new \in InodeType
  BY <1>1, FieldsAssumption DEF InodeType
<1>4. Shown(new) = WithTimes(Shown(inode), atime, mtime)
  <2>1. /\ new.mode = inode.mode /\ new.uid = inode.uid /\ new.gid = inode.gid
        /\ new.size = inode.size /\ new.atime = atime /\ new.mtime = mtime
    BY <1>1 DEF InodeType
  <2>. HIDE DEF new
  <2>. QED BY <2>1, TimeFields DEF Shown
<1>. HIDE DEF new
<1>5. TableTyped' /\ attrs' = [attrs EXCEPT ![i] = Shown(new)]
  BY <1>2, <1>3, WriteShows
<1>6. attrs = [j \in Inodes |-> attrs[j]]
  BY DEF attrs
<1>7. attrs' = [attrs EXCEPT ![i] = WithTimes(attrs[i], atime, mtime)]
  BY <1>1, <1>4, <1>5, Zenon
<1>8. Attrs!Utime(i, atime, mtime)
  BY <1>6, <1>7 DEF Attrs!Utime, WithTimes
<1>. QED BY <1>5, <1>8

LEMMA ResizeSets ==
  ASSUME TableTyped, NEW i \in Inodes, NEW size \in Wide, Resize(i, size)
  PROVE  TableTyped' /\ Attrs!Resize(i, size)
<1>. PICK inode : inode = Decode(table[i])
  OBVIOUS
<1>1. inode \in InodeType /\ attrs[i] = Shown(inode)
  BY AttrsShow
<1>. DEFINE new == [inode EXCEPT !.size = size, !.mtime = METADATA_CTIME,
                                 !.ctime = METADATA_CTIME]
<1>2. WriteInode(i, new)
  BY DEF Resize
<1>3. new \in InodeType
  BY <1>1, FieldsAssumption DEF InodeType
<1>4. Shown(new) = WithSize(Shown(inode), size, METADATA_CTIME)
  <2>1. /\ new.mode = inode.mode /\ new.uid = inode.uid /\ new.gid = inode.gid
        /\ new.size = size /\ new.atime = inode.atime /\ new.mtime = METADATA_CTIME
    BY <1>1 DEF InodeType
  <2>. HIDE DEF new
  <2>. QED BY <2>1, SizeFields DEF Shown
<1>. HIDE DEF new
<1>5. TableTyped' /\ attrs' = [attrs EXCEPT ![i] = Shown(new)]
  BY <1>2, <1>3, WriteShows
<1>6. attrs = [j \in Inodes |-> attrs[j]]
  BY DEF attrs
<1>7. attrs' = [attrs EXCEPT ![i] = WithSize(attrs[i], size, METADATA_CTIME)]
  BY <1>1, <1>4, <1>5, Zenon
<1>8. Attrs!Resize(i, size)
  BY <1>6, <1>7, FieldsAssumption DEF Attrs!Resize, WithSize
<1>. QED BY <1>5, <1>8

LEMMA RelinkHides ==
  ASSUME TableTyped, NEW i \in Inodes, NEW links \in Links, Relink(i, links)
  PROVE  TableTyped' /\ UNCHANGED attrs
<1>. PICK inode : inode = Decode(table[i])
  OBVIOUS
<1>1. inode \in InodeType /\ attrs[i] = Shown(inode)
  BY AttrsShow
<1>. DEFINE new == [inode EXCEPT !.links = links]
<1>2. WriteInode(i, new)
  BY DEF Relink
<1>3. new \in InodeType /\ Shown(new) = Shown(inode)
  BY <1>1 DEF Shown, InodeType
<1>. HIDE DEF new
<1>4. TableTyped' /\ attrs' = [attrs EXCEPT ![i] = Shown(new)]
  BY <1>2, <1>3, WriteShows
<1>5. attrs = [j \in Inodes |-> attrs[j]]
  BY DEF attrs
<1>6. attrs' = [attrs EXCEPT ![i] = attrs[i]]
  BY <1>1, <1>3, <1>4, Zenon
<1>. QED BY <1>4, <1>5, <1>6

-----------------------------------------------------------------------------
LEMMA InitAttrs == Init => TableTyped /\ Attrs!AttrInit
<1>. SUFFICES ASSUME Init PROVE TableTyped /\ Attrs!AttrInit
  OBVIOUS
<1>1. TableTyped
  BY DEF Init, TableTyped
<1>2. attrs = [i \in Inodes |-> attrs[i]]
  BY DEF attrs
<1>3. \A i \in Inodes : attrs[i] \in Attrs!AttrType
  BY <1>1, AttrsShow
<1>. QED BY <1>1, <1>2, <1>3 DEF Attrs!AttrInit

LEMMA StepAttrs == TableTyped /\ [Next]_table =>
                     TableTyped' /\ [Attrs!AttrNext]_attrs
<1>. SUFFICES ASSUME TableTyped, [Next]_table
     PROVE  TableTyped' /\ [Attrs!AttrNext]_attrs
  OBVIOUS
<1>1. CASE UNCHANGED table
  BY <1>1 DEF TableTyped, attrs, Decode
<1>2. ASSUME NEW i \in Inodes, NEW mode \in Modes, Chmod(i, mode)
      PROVE  TableTyped' /\ Attrs!AttrNext
  <2>1. Modes = Attrs!Modes BY DEF Modes, Attrs!Modes
  <2>. QED BY <1>2, <2>1, ChmodSets DEF Attrs!AttrNext
<1>3. ASSUME NEW i \in Inodes, NEW uid \in Wide, NEW gid \in Wide, Chown(i, uid, gid)
      PROVE  TableTyped' /\ Attrs!AttrNext
  BY <1>3, ChownSets DEF Attrs!AttrNext
<1>4. ASSUME NEW i \in Inodes, NEW atime \in Stamps, NEW mtime \in Stamps,
             Utime(i, atime, mtime)
      PROVE  TableTyped' /\ Attrs!AttrNext
  BY <1>4, UtimeSets DEF Attrs!AttrNext
<1>5. ASSUME NEW i \in Inodes, NEW size \in Wide, Resize(i, size)
      PROVE  TableTyped' /\ Attrs!AttrNext
  BY <1>5, ResizeSets DEF Attrs!AttrNext
<1>6. ASSUME NEW i \in Inodes, NEW links \in Links, Relink(i, links)
      PROVE  TableTyped' /\ UNCHANGED attrs
  BY <1>6, RelinkHides
<1>. QED BY <1>1, <1>2, <1>3, <1>4, <1>5, <1>6 DEF Next

LEMMA StepSets == TableTyped => SetsWhatIsAsked
  BY ChmodSets, ChownSets, UtimeSets, ResizeSets DEF SetsWhatIsAsked

(* Every id and size, at full width, and every mode survives its encoding: *)
(* each call sets the attributes it is about to the values it was given,   *)
(* leaves the others, and makes no object another kind, whatever the width *)
(* of a half and the number of permission bits.                            *)
THEOREM CallsSetTheirAttributes == Spec => IsAttributes
<1>1. TableTyped => [SetsWhatIsAsked]_table
  BY StepSets
<1>. QED BY InitAttrs, StepAttrs, <1>1, PTL DEF Spec, IsAttributes, Attrs!AttrSpec
=============================================================================
