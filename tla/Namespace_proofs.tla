--------------------------- MODULE Namespace_proofs ---------------------------
(***************************************************************************)
(* The handle implements the namespace: every call that names no dots and  *)
(* moves no directory below itself changes the tree of paths in the one    *)
(* place that module Namespace allows, or not at all.                      *)
(*                                                                         *)
(* First the paths of a set of edges (directory, name, inode) apart from   *)
(* the program, and what becomes of them when an edge appears, goes or is  *)
(* moved.  Then the program's tree as the paths of its entries, and last   *)
(* which change each action is.  At the end, the walk of a host's tree,    *)
(* call by call of that handle.                                            *)
(***************************************************************************)
EXTENDS Filesystem_proofs, HostTree, SequenceTheorems

(* r begins with p. *)
Extends(r, p) == \E z \in Seq(Names) : r = p \o z

LEMMA Prefix ==
  ASSUME NEW r \in Seq(Names), NEW p \in Seq(Names)
  PROVE  Len(p) <= Len(r) /\ SubSeq(r, 1, Len(p)) = p <=> Extends(r, p)
<1>0. Len(p) \in Nat /\ Len(r) \in Nat
  BY LenProperties
<1>1. ASSUME Len(p) <= Len(r), SubSeq(r, 1, Len(p)) = p
      PROVE  Extends(r, p)
  <2>. DEFINE z == SubSeq(r, Len(p) + 1, Len(r))
  <2>1. SubSeq(r, 1, Len(p)) \o z = SubSeq(r, 1, Len(r))
    <3>1. 1 \in 1 .. Len(r) + 1 /\ Len(p) \in 1 - 1 .. Len(r) /\ Len(r) \in Len(p) .. Len(r)
      BY <1>0, <1>1
    <3>. QED
      BY <3>1, ConcatAdjacentSubSeq
  <2>2. SubSeq(r, 1, Len(r)) = r
    BY SubSeqFull
  <2>3. z \in Seq(Names)
    <3>1. \A i \in Len(p) + 1 .. Len(r) : r[i] \in Names
      <4>. SUFFICES ASSUME NEW i \in Len(p) + 1 .. Len(r) PROVE r[i] \in Names
        OBVIOUS
      <4>1. i \in 1 .. Len(r)
        BY <1>0
      <4>. QED
        BY <4>1, ElementOfSeq
    <3>. QED
      BY <3>1, <1>0, SubSeqProperties
  <2>. QED
    BY <1>1, <2>1, <2>2, <2>3 DEF Extends
<1>2. ASSUME NEW z \in Seq(Names), r = p \o z
      PROVE  Len(p) <= Len(r) /\ SubSeq(r, 1, Len(p)) = p
  <2>1. Len(r) = Len(p) + Len(z) /\ Len(z) \in Nat
    BY <1>2, ConcatProperties, LenProperties
  <2>2. CASE p = <<>>
    BY <2>1, <2>2, <1>0, EmptySeq, SubSeqEmpty
  <2>3. CASE p # <<>>
    <3>1. Len(p) >= 1
      BY <2>3, EmptySeq, <1>0
    <3>2. SubSeq(p \o z, 1, Len(p)) = SubSeq(p, 1, Len(p))
      BY <3>1, <1>0, SubSeqOfConcat1
    <3>. QED
      BY <3>2, <2>1, <1>0, <1>2, SubSeqFull
  <2>. QED
    BY <2>2, <2>3
<1>. QED
  BY <1>1, <1>2 DEF Extends

LEMMA SuffixIs ==
  ASSUME NEW p \in Seq(Names), NEW z \in Seq(Names)
  PROVE  SubSeq(p \o z, Len(p) + 1, Len(p \o z)) = z
<1>1. Len(p \o z) = Len(p) + Len(z) /\ Len(p) \in Nat /\ Len(z) \in Nat
  BY ConcatProperties, LenProperties
<1>2. CASE z = <<>>
  BY <1>1, <1>2, EmptySeq, SubSeqEmpty
<1>3. CASE z # <<>>
  <2>1. Len(z) >= 1
    BY <1>1, <1>3, EmptySeq
  <2>2. SubSeq(p \o z, Len(p) + 1, Len(p) + Len(z))
          = SubSeq(z, Len(p) + 1 - Len(p), Len(p) + Len(z) - Len(p))
    BY <2>1, <1>1, SubSeqOfConcat2
  <2>3. SubSeq(z, 1, Len(z)) = z
    BY SubSeqFull
  <2>. QED
    BY <1>1, <2>2, <2>3
<1>. QED
  BY <1>2, <1>3

LEMMA FrontIs ==
  ASSUME NEW p \in Seq(Names), NEW n \in Names
  PROVE  /\ Append(p, n) \in Seq(Names) /\ Append(p, n) # <<>>
         /\ Len(Append(p, n)) = Len(p) + 1 /\ Len(p) \in Nat
         /\ SubSeq(Append(p, n), 1, Len(Append(p, n)) - 1) = p
<1>1. /\ Append(p, n) \in Seq(Names) /\ Append(p, n) # <<>>
      /\ Len(Append(p, n)) = Len(p) + 1 /\ Len(p) \in Nat
  BY AppendProperties, LenProperties
<1>2. Append(p, n) = p \o <<n>> /\ <<n>> \in Seq(Names)
  BY AppendIsConcat
<1>3. SubSeq(Append(p, n), 1, Len(p)) = p
  BY <1>1, <1>2, Prefix DEF Extends
<1>. QED
  BY <1>1, <1>3

LEMMA AppendUnique ==
  ASSUME NEW p \in Seq(Names), NEW n \in Names, NEW q \in Seq(Names), NEW m \in Names,
         Append(p, n) = Append(q, m)
  PROVE  p = q /\ n = m
<1>1. p = q
  BY FrontIs
<1>2. Append(p, n)[Len(p) + 1] = n /\ Append(q, m)[Len(q) + 1] = m
  BY AppendProperties
<1>. QED
  BY <1>1, <1>2

LEMMA AppendExtends ==
  ASSUME NEW p \in Seq(Names), NEW z \in Seq(Names), NEW n \in Names
  PROVE  /\ Append(p \o z, n) = p \o Append(z, n)
         /\ p \o z \in Seq(Names) /\ Append(z, n) \in Seq(Names)
<1>1. p \o z \in Seq(Names) /\ Append(z, n) \in Seq(Names) /\ <<n>> \in Seq(Names)
  BY ConcatProperties, AppendProperties
<1>2. Append(p \o z, n) = (p \o z) \o <<n>> /\ Append(z, n) = z \o <<n>>
  BY <1>1, AppendIsConcat
<1>. QED
  BY <1>1, <1>2, ConcatAssociative

LEMMA ExtendsAppend ==
  ASSUME NEW p \in Seq(Names), NEW z \in Seq(Names), NEW r \in Seq(Names), NEW n \in Names,
         Append(r, n) = p \o z
  PROVE  \/ z = <<>> /\ Append(r, n) = p
         \/ \E y \in Seq(Names) : z = Append(y, n) /\ r = p \o y
<1>1. CASE z = <<>>
  BY <1>1, ConcatEmptySeq
<1>2. CASE z # <<>>
  <2>1. PICK y \in Seq(Names), m \in Names : z = Append(y, m)
    BY <1>2, SequenceEmptyOrAppend
  <2>2. Append(r, n) = Append(p \o y, m) /\ p \o y \in Seq(Names)
    BY <2>1, AppendExtends, ZenonT(60)
  <2>3. r = p \o y /\ n = m
    <3>1. PICK w \in Seq(Names) : w = p \o y
      BY <2>2
    <3>2. Append(r, n) = Append(w, m)
      BY <3>1, <2>2
    <3>3. r = w /\ n = m
      BY <3>2, AppendUnique
    <3>. QED
      BY <3>1, <3>3
  <2>. QED
    BY <2>1, <2>3
<1>. QED
  BY <1>1, <1>2

LEMMA EmptyExtends ==
  ASSUME NEW p \in Seq(Names), p # <<>>
  PROVE  /\ \A z \in Seq(Names) : <<>> # p \o z
         /\ ~ Extends(<<>>, p)
<1>1. ASSUME NEW z \in Seq(Names), <<>> = p \o z PROVE FALSE
  <2>1. Len(<<>>) = Len(p) + Len(z)
    BY <1>1, ConcatProperties
  <2>2. Len(p) \in Nat \ {0} /\ Len(z) \in Nat /\ Len(<<>>) = 0
    BY EmptySeq, LenProperties
  <2>. QED
    BY <2>1, <2>2
<1>. QED
  BY <1>1 DEF Extends

LEMMA ExtendsSelf ==
  ASSUME NEW p \in Seq(Names), NEW z \in Seq(Names)
  PROVE  Extends(p \o z, p) /\ Extends(p, p)
<1>1. p \o <<>> = p /\ <<>> \in Seq(Names)
  BY ConcatEmptySeq, EmptySeq
<1>. QED
  BY <1>1 DEF Extends

LEMMA ExtendsOn ==
  ASSUME NEW p \in Seq(Names), NEW r \in Seq(Names), NEW n \in Names
  PROVE  Extends(Append(r, n), p) <=> Append(r, n) = p \/ Extends(r, p)
<1>1. ASSUME Extends(r, p) PROVE Extends(Append(r, n), p)
  <2>1. PICK z \in Seq(Names) : r = p \o z
    BY <1>1 DEF Extends
  <2>2. Append(p \o z, n) = p \o Append(z, n) /\ Append(z, n) \in Seq(Names)
    BY AppendExtends
  <2>. QED
    BY <2>1, <2>2 DEF Extends
<1>2. ASSUME Append(r, n) = p PROVE Extends(Append(r, n), p)
  BY <1>2, ExtendsSelf
<1>3. ASSUME Extends(Append(r, n), p) PROVE Append(r, n) = p \/ Extends(r, p)
  <2>1. PICK z \in Seq(Names) : Append(r, n) = p \o z
    BY <1>3 DEF Extends
  <2>2. \/ Append(r, n) = p
        \/ \E y \in Seq(Names) : z = Append(y, n) /\ r = p \o y
    BY <2>1, ExtendsAppend, ZenonT(60)
  <2>. QED
    BY <2>2 DEF Extends
<1>. QED
  BY <1>1, <1>2, <1>3

-----------------------------------------------------------------------------
(* The paths of a set of edges.  p leads to i over E when <<p, i>> is in   *)
(* every set that holds the root and is closed under the edges.            *)
Universe == Seq(Names) \X Inodes
AtRoot == <<(<<>>), Root>>

ClosedPairs(S, E) ==
  \A p, d, n, i : <<p, d>> \in S /\ <<d, n, i>> \in E => <<Append(p, n), i>> \in S

Leads(E, p, i) ==
  /\ <<p, i>> \in Universe
  /\ \A S \in SUBSET Universe : AtRoot \in S /\ ClosedPairs(S, E) => <<p, i>> \in S

EdgeSet(E) == E \subseteq Inodes \X Names \X Inodes

(* A directory has a name once, an inode one name, the root none. *)
Treelike(E) ==
  /\ EdgeSet(E)
  /\ \A d, n, i, j : <<d, n, i>> \in E /\ <<d, n, j>> \in E => i = j
  /\ \A d1, d2, n1, n2, i : <<d1, n1, i>> \in E /\ <<d2, n2, i>> \in E => d1 = d2 /\ n1 = n2
  /\ \A d, n : <<d, n, Root>> \notin E

LEMMA RootPair == AtRoot \in Universe /\ Root \in Inodes /\ <<>> \in Seq(Names)
<1>1. Root \in Inodes
  BY FilesystemAssumption DEF Root, Inodes
<1>2. <<>> \in Seq(Names)
  BY EmptySeq
<1>. QED
  BY <1>1, <1>2 DEF AtRoot, Universe

LEMMA LeadsTyped ==
  ASSUME NEW E, NEW p, NEW i, Leads(E, p, i)
  PROVE  p \in Seq(Names) /\ i \in Inodes
  BY DEF Leads, Universe

LEMMA LeadsRoot ==
  ASSUME NEW E PROVE Leads(E, <<>>, Root)
  BY RootPair DEF Leads, AtRoot

LEMMA LeadsOn ==
  ASSUME NEW E, EdgeSet(E), NEW p, NEW d, NEW n, NEW i, Leads(E, p, d), <<d, n, i>> \in E
  PROVE  Leads(E, Append(p, n), i)
<1>1. p \in Seq(Names) /\ n \in Names /\ i \in Inodes
  BY LeadsTyped DEF EdgeSet
<1>2. <<Append(p, n), i>> \in Universe
  BY <1>1, FrontIs DEF Universe
<1>3. ASSUME NEW S \in SUBSET Universe, AtRoot \in S, ClosedPairs(S, E)
      PROVE  <<Append(p, n), i>> \in S
  BY <1>3 DEF Leads, ClosedPairs
<1>. QED
  BY <1>2, <1>3 DEF Leads

(* What holds of the root and is handed down the edges holds of all pairs. *)
HandedDown(S, E) ==
  \A p, d, n, i :
    Leads(E, p, d) /\ <<p, d>> \in S /\ <<d, n, i>> \in E /\ Leads(E, Append(p, n), i)
      => <<Append(p, n), i>> \in S

LEMMA LeadsInduct ==
  ASSUME NEW E, EdgeSet(E), NEW S, AtRoot \in S, HandedDown(S, E)
  PROVE  \A p, i : Leads(E, p, i) => <<p, i>> \in S
<1>. DEFINE T == {x \in Universe : x \in S /\ Leads(E, x[1], x[2])}
<1>1. AtRoot \in T
  BY RootPair, LeadsRoot DEF AtRoot
<1>2. ClosedPairs(T, E)
  <2>. SUFFICES ASSUME NEW p, NEW d, NEW n, NEW i, <<p, d>> \in T, <<d, n, i>> \in E
                PROVE  <<Append(p, n), i>> \in T
    BY DEF ClosedPairs
  <2>1. Leads(E, p, d) /\ <<p, d>> \in S
    OBVIOUS
  <2>2. Leads(E, Append(p, n), i)
    BY <2>1, LeadsOn
  <2>3. <<Append(p, n), i>> \in S
    BY <2>1, <2>2 DEF HandedDown
  <2>4. <<Append(p, n), i>> \in Universe
    BY <2>2 DEF Leads
  <2>. HIDE DEF Universe
  <2>. QED
    BY <2>2, <2>3, <2>4
<1>3. T \in SUBSET Universe
  OBVIOUS
<1>. QED
  <2>. HIDE DEF T
  <2>1. \A p, i : Leads(E, p, i) => <<p, i>> \in T
    BY <1>1, <1>2, <1>3 DEF Leads
  <2>. QED
    BY <2>1 DEF T

(* The last edge of a path. *)
EndsWith(E, p, i) ==
  \/ p = <<>> /\ i = Root
  \/ \E q \in Seq(Names), d \in Inodes, n \in Names :
       Leads(E, q, d) /\ <<d, n, i>> \in E /\ p = Append(q, n)

LEMMA LeadsBack ==
  ASSUME NEW E, EdgeSet(E), NEW p, NEW i, Leads(E, p, i)
  PROVE  EndsWith(E, p, i)
<1>1. PICK S : S = {x \in Universe : EndsWith(E, x[1], x[2])}
  OBVIOUS
<1>2. AtRoot \in S
  <2>1. EndsWith(E, <<>>, Root)
    BY DEF EndsWith
  <2>. QED
    BY <1>1, <2>1, RootPair DEF AtRoot
<1>3. HandedDown(S, E)
  <2>. SUFFICES ASSUME NEW q, NEW d, NEW n, NEW j, Leads(E, q, d), <<d, n, j>> \in E,
                       Leads(E, Append(q, n), j)
                PROVE  <<Append(q, n), j>> \in S
    BY DEF HandedDown
  <2>1. EndsWith(E, Append(q, n), j)
    BY LeadsTyped DEF EdgeSet, EndsWith
  <2>2. <<Append(q, n), j>> \in Universe
    BY DEF Leads
  <2>. QED
    BY <1>1, <2>1, <2>2
<1>4. <<p, i>> \in S
  BY <1>2, <1>3, LeadsInduct
<1>. QED
  BY <1>1, <1>4

(* A path leads to one inode. *)
Sole(E, p, i) == \A j : Leads(E, p, j) => j = i

LEMMA OnePathOneInode ==
  ASSUME NEW E, Treelike(E), NEW p, NEW i, NEW j, Leads(E, p, i), Leads(E, p, j)
  PROVE  i = j
<1>0. EdgeSet(E)
  BY DEF Treelike
<1>1. PICK S : S = {x \in Universe : Sole(E, x[1], x[2])}
  OBVIOUS
<1>2. AtRoot \in S
  <2>1. Sole(E, <<>>, Root)
    <3>. SUFFICES ASSUME NEW k, Leads(E, <<>>, k) PROVE k = Root
      BY DEF Sole
    <3>1. EndsWith(E, <<>>, k)
      BY <1>0, LeadsBack
    <3>. QED
      BY <3>1, FrontIs DEF EndsWith
  <2>. QED
    BY <1>1, <2>1, RootPair DEF AtRoot
<1>3. HandedDown(S, E)
  <2>. SUFFICES ASSUME NEW q, NEW d, NEW n, NEW k, Leads(E, q, d), <<q, d>> \in S,
                       <<d, n, k>> \in E, Leads(E, Append(q, n), k)
                PROVE  <<Append(q, n), k>> \in S
    BY DEF HandedDown
  <2>1. Sole(E, q, d)
    BY <1>1
  <2>2. q \in Seq(Names) /\ n \in Names /\ Append(q, n) # <<>>
    BY <1>0, LeadsTyped, FrontIs DEF EdgeSet
  <2>3. ASSUME NEW l, Leads(E, Append(q, n), l) PROVE l = k
    <3>1. EndsWith(E, Append(q, n), l)
      BY <1>0, <2>3, LeadsBack
    <3>2. PICK r \in Seq(Names), a \in Inodes, m \in Names :
            Leads(E, r, a) /\ <<a, m, l>> \in E /\ Append(q, n) = Append(r, m)
      BY <2>2, <3>1 DEF EndsWith
    <3>3. q = r /\ n = m
      BY <2>2, <3>2, AppendUnique
    <3>4. a = d
      BY <2>1, <3>2, <3>3 DEF Sole
    <3>. QED
      BY <3>2, <3>3, <3>4 DEF Treelike
  <2>4. <<Append(q, n), k>> \in Universe
    BY DEF Leads
  <2>5. Sole(E, Append(q, n), k)
    BY <2>3 DEF Sole
  <2>. QED
    BY <1>1, <2>4, <2>5
<1>4. <<p, i>> \in S
  BY <1>0, <1>2, <1>3, LeadsInduct
<1>. QED
  BY <1>1, <1>4 DEF Sole

(* An inode is at one path. *)
Settled(E, p, i) == \A q : Leads(E, q, i) => q = p

LEMMA OneInodeOnePath ==
  ASSUME NEW E, Treelike(E), NEW p, NEW q, NEW i, Leads(E, p, i), Leads(E, q, i)
  PROVE  p = q
<1>0. EdgeSet(E)
  BY DEF Treelike
<1>1. PICK S : S = {x \in Universe : Settled(E, x[1], x[2])}
  OBVIOUS
<1>2. AtRoot \in S
  <2>1. Settled(E, <<>>, Root)
    <3>. SUFFICES ASSUME NEW r, Leads(E, r, Root) PROVE r = <<>>
      BY DEF Settled
    <3>1. EndsWith(E, r, Root)
      BY <1>0, LeadsBack
    <3>. QED
      BY <3>1 DEF EndsWith, Treelike
  <2>. QED
    BY <1>1, <2>1, RootPair DEF AtRoot
<1>3. HandedDown(S, E)
  <2>. SUFFICES ASSUME NEW r, NEW d, NEW n, NEW k, Leads(E, r, d), <<r, d>> \in S,
                       <<d, n, k>> \in E, Leads(E, Append(r, n), k)
                PROVE  <<Append(r, n), k>> \in S
    BY DEF HandedDown
  <2>1. Settled(E, r, d)
    BY <1>1
  <2>2. k # Root
    BY DEF Treelike
  <2>3. ASSUME NEW s, Leads(E, s, k) PROVE s = Append(r, n)
    <3>1. EndsWith(E, s, k)
      BY <1>0, <2>3, LeadsBack
    <3>2. PICK y \in Seq(Names), a \in Inodes, m \in Names :
            Leads(E, y, a) /\ <<a, m, k>> \in E /\ s = Append(y, m)
      BY <2>2, <3>1 DEF EndsWith
    <3>3. a = d /\ m = n
      BY <3>2 DEF Treelike
    <3>4. y = r
      BY <2>1, <3>2, <3>3 DEF Settled
    <3>. QED
      BY <3>2, <3>3, <3>4
  <2>4. <<Append(r, n), k>> \in Universe
    BY DEF Leads
  <2>5. Settled(E, Append(r, n), k)
    BY <2>3 DEF Settled
  <2>. QED
    BY <1>1, <2>4, <2>5
<1>4. <<p, i>> \in S
  BY <1>0, <1>2, <1>3, LeadsInduct
<1>. QED
  BY <1>1, <1>4 DEF Settled

LEMMA LeadsMore ==
  ASSUME NEW E, NEW E2, E \subseteq E2, NEW p, NEW i, Leads(E, p, i)
  PROVE  Leads(E2, p, i)
<1>1. \A S : ClosedPairs(S, E2) => ClosedPairs(S, E)
  BY DEF ClosedPairs
<1>. QED
  BY <1>1 DEF Leads

-----------------------------------------------------------------------------
(* An edge appears under d, to an inode that has no edges of its own.      *)
Grows(E, E2, d, n, i) ==
  /\ Treelike(E) /\ EdgeSet(E2)
  /\ \A a, m, j : <<a, m, j>> \in E2
                    <=> <<a, m, j>> \in E \/ (a = d /\ m = n /\ j = i)
  /\ \A m, j : <<i, m, j>> \notin E2

LEMMA PathsEnter ==
  ASSUME NEW E, NEW E2, NEW d, NEW n, NEW i, NEW pd,
         Grows(E, E2, d, n, i), Leads(E, pd, d)
  PROVE  \A p, j : Leads(E2, p, j) <=> Leads(E, p, j) \/ (p = Append(pd, n) /\ j = i)
<1>. USE DEF Grows
<1>0. EdgeSet(E) /\ E \subseteq E2
  BY DEF Treelike, EdgeSet
<1>1. PICK S : S = {x \in Universe : Leads(E, x[1], x[2]) \/ (x[1] = Append(pd, n) /\ x[2] = i)}
  OBVIOUS
<1>2. AtRoot \in S
  BY <1>1, RootPair, LeadsRoot DEF AtRoot
<1>3. HandedDown(S, E2)
  <2>. SUFFICES ASSUME NEW q, NEW a, NEW m, NEW j, Leads(E2, q, a), <<q, a>> \in S,
                       <<a, m, j>> \in E2, Leads(E2, Append(q, m), j)
                PROVE  <<Append(q, m), j>> \in S
    BY DEF HandedDown
  <2>1. Leads(E, q, a)
    BY <1>1
  <2>2. <<Append(q, m), j>> \in Universe
    BY DEF Leads
  <2>3. CASE <<a, m, j>> \in E
    <3>1. Leads(E, Append(q, m), j)
      BY <1>0, <2>1, <2>3, LeadsOn
    <3>. QED
      BY <1>1, <2>2, <3>1
  <2>4. CASE a = d /\ m = n /\ j = i
    <3>1. q = pd
      BY <2>1, <2>4, OneInodeOnePath
    <3>. QED
      BY <1>1, <2>2, <2>4, <3>1
  <2>. QED
    BY <2>3, <2>4
<1>4. ASSUME NEW p, NEW j, Leads(E2, p, j)
      PROVE  Leads(E, p, j) \/ (p = Append(pd, n) /\ j = i)
  <2>1. <<p, j>> \in S
    BY <1>2, <1>3, <1>4, LeadsInduct
  <2>. QED
    BY <1>1, <2>1
<1>5. Leads(E2, Append(pd, n), i)
  <2>1. Leads(E2, pd, d)
    BY <1>0, LeadsMore
  <2>. QED
    BY <2>1, LeadsOn
<1>. QED
  BY <1>0, <1>4, <1>5, LeadsMore

(* The edge to an inode that has none of its own goes. *)
LEMMA PathsDrop ==
  ASSUME NEW E, Treelike(E), NEW E2, NEW d, NEW n, NEW t, <<d, n, t>> \in E,
         \A a, m, j : <<a, m, j>> \in E2 <=> <<a, m, j>> \in E /\ j # t,
         EdgeSet(E2), \A m, j : <<t, m, j>> \notin E
  PROVE  \A p, j : Leads(E2, p, j) <=> Leads(E, p, j) /\ j # t
<1>0. EdgeSet(E) /\ E2 \subseteq E /\ t # Root
  BY DEF Treelike, EdgeSet
<1>1. PICK S : S = {x \in Universe : x[2] # t => Leads(E2, x[1], x[2])}
  OBVIOUS
<1>2. AtRoot \in S
  BY <1>1, RootPair, LeadsRoot DEF AtRoot
<1>3. HandedDown(S, E)
  <2>. SUFFICES ASSUME NEW q, NEW a, NEW m, NEW j, Leads(E, q, a), <<q, a>> \in S,
                       <<a, m, j>> \in E, Leads(E, Append(q, m), j), j # t
                PROVE  <<Append(q, m), j>> \in S
    <3>1. \A q, j : Leads(E, q, j) => <<q, j>> \in Universe
      BY DEF Leads
    <3>. QED
      BY <1>1, <3>1 DEF HandedDown
  <2>1. Leads(E2, q, a)
    BY <1>1
  <2>2. Leads(E2, Append(q, m), j)
    BY <2>1, LeadsOn
  <2>3. <<Append(q, m), j>> \in Universe
    BY DEF Leads
  <2>. QED
    BY <1>1, <2>2, <2>3
<1>4. ASSUME NEW p, NEW j, Leads(E, p, j), j # t
      PROVE  Leads(E2, p, j)
  <2>1. <<p, j>> \in S
    BY <1>0, <1>2, <1>3, <1>4, LeadsInduct
  <2>. QED
    BY <1>1, <1>4, <2>1
<1>5. ASSUME NEW p, Leads(E2, p, t) PROVE FALSE
  <2>1. EndsWith(E2, p, t)
    BY <1>5, LeadsBack
  <2>. QED
    BY <1>0, <2>1 DEF EndsWith
<1>. QED
  BY <1>0, <1>4, <1>5, LeadsMore

(* The edge to s, at path p, moves under d2, which is not below s: N has s *)
(* and all below it.                                                       *)
Shifts(E, E2, d1, n1, s, p, d2, n2, pd2, N) ==
  /\ Treelike(E) /\ EdgeSet(E2)
  /\ <<d1, n1, s>> \in E /\ Leads(E, p, s) /\ Leads(E, pd2, d2)
  /\ s \in N /\ d2 \notin N /\ \A a, m, j : <<a, m, j>> \in E /\ a \in N => j \in N
  /\ \A a, m, j : <<a, m, j>> \in E2
                    <=> \/ <<a, m, j>> \in E /\ j # s
                        \/ a = d2 /\ m = n2 /\ j = s

(* p is not the root's. *)
LEMMA ShiftTyped ==
  ASSUME NEW E, NEW E2, NEW d1, NEW n1, NEW s, NEW p, NEW d2, NEW n2, NEW pd2, NEW N,
         Shifts(E, E2, d1, n1, s, p, d2, n2, pd2, N)
  PROVE  /\ Treelike(E) /\ EdgeSet(E) /\ EdgeSet(E2) /\ Leads(E, p, s)
         /\ p \in Seq(Names) /\ p # <<>> /\ pd2 \in Seq(Names) /\ n2 \in Names
<1>1. /\ Treelike(E) /\ EdgeSet(E) /\ EdgeSet(E2) /\ Leads(E, p, s) /\ s # Root
      /\ Leads(E, pd2, d2) /\ <<d2, n2, s>> \in E2
  BY DEF Shifts, Treelike
<1>2. p # <<>>
  BY <1>1, LeadsRoot, OnePathOneInode
<1>3. n2 \in Names
  BY <1>1 DEF EdgeSet
<1>. QED
  BY <1>1, <1>2, <1>3, LeadsTyped

LEMMA BelowMoved ==
  ASSUME NEW E, NEW E2, NEW d1, NEW n1, NEW s, NEW p, NEW d2, NEW n2, NEW pd2, NEW N,
         Shifts(E, E2, d1, n1, s, p, d2, n2, pd2, N)
  PROVE  \A r, i : Leads(E, r, i) /\ Extends(r, p) => i \in N
<1>0. Treelike(E) /\ EdgeSet(E) /\ Leads(E, p, s)
  BY ShiftTyped
<1>p. p \in Seq(Names) /\ p # <<>>
  BY ShiftTyped
<1>1. PICK S : S = {x \in Universe : Extends(x[1], p) => x[2] \in N}
  OBVIOUS
<1>2. AtRoot \in S
  <2>1. ~ Extends(<<>>, p)
    BY <1>p, EmptyExtends
  <2>. QED
    BY <1>1, <2>1, RootPair DEF AtRoot
<1>3. HandedDown(S, E)
  <2>. SUFFICES ASSUME NEW q, NEW a, NEW m, NEW j, Leads(E, q, a), <<q, a>> \in S,
                       <<a, m, j>> \in E, Leads(E, Append(q, m), j)
                PROVE  <<Append(q, m), j>> \in S
    BY DEF HandedDown
  <2>1. <<Append(q, m), j>> \in Universe
    BY DEF Leads
  <2>2. q \in Seq(Names) /\ m \in Names
    BY <1>0, LeadsTyped DEF EdgeSet
  <2>3. ASSUME Extends(Append(q, m), p) PROVE j \in N
    <3>1. CASE Append(q, m) = p
      BY <1>0, <3>1, OnePathOneInode DEF Shifts
    <3>2. CASE Extends(q, p)
      <4>1. a \in N
        BY <1>1, <3>2
      <4>. QED
        BY <4>1 DEF Shifts
    <3>3. Append(q, m) = p \/ Extends(q, p)
      BY <1>p, <2>2, <2>3, ExtendsOn
    <3>. QED
      BY <3>1, <3>2, <3>3
  <2>. QED
    BY <1>1, <2>1, <2>3
<1>4. \A r, i : Leads(E, r, i) => <<r, i>> \in S
  BY <1>0, <1>2, <1>3, LeadsInduct
<1>. QED
  BY <1>1, <1>4

(* The path whose last edge goes to s is p. *)
LEMMA MovedEdge ==
  ASSUME NEW E, Treelike(E), NEW s, NEW p, Leads(E, p, s), NEW q, NEW m, NEW j,
         Leads(E, Append(q, m), j)
  PROVE  Append(q, m) = p <=> j = s
  BY OnePathOneInode, OneInodeOnePath

LEMMA BesideMoved ==
  ASSUME NEW E, NEW E2, NEW d1, NEW n1, NEW s, NEW p, NEW d2, NEW n2, NEW pd2, NEW N,
         Shifts(E, E2, d1, n1, s, p, d2, n2, pd2, N)
  PROVE  \A r, i : Leads(E, r, i) /\ ~ Extends(r, p) => Leads(E2, r, i)
<1>0. Treelike(E) /\ EdgeSet(E) /\ EdgeSet(E2) /\ Leads(E, p, s)
  BY ShiftTyped
<1>p. p \in Seq(Names)
  BY ShiftTyped
<1>1. PICK S : S = {x \in Universe : ~ Extends(x[1], p) => Leads(E2, x[1], x[2])}
  OBVIOUS
<1>2. AtRoot \in S
  BY <1>1, RootPair, LeadsRoot DEF AtRoot
<1>3. HandedDown(S, E)
  <2>. SUFFICES ASSUME NEW q, NEW a, NEW m, NEW j, Leads(E, q, a), <<q, a>> \in S,
                       <<a, m, j>> \in E, Leads(E, Append(q, m), j)
                PROVE  <<Append(q, m), j>> \in S
    BY DEF HandedDown
  <2>1. <<Append(q, m), j>> \in Universe
    BY DEF Leads
  <2>2. q \in Seq(Names) /\ m \in Names
    BY <1>0, LeadsTyped DEF EdgeSet
  <2>3. ASSUME ~ Extends(Append(q, m), p) PROVE Leads(E2, Append(q, m), j)
    <3>1. ~ Extends(q, p) /\ Append(q, m) # p
      BY <1>p, <2>2, <2>3, ExtendsOn
    <3>2. j # s
      BY <1>0, <3>1, MovedEdge
    <3>3. <<a, m, j>> \in E2
      BY <3>2 DEF Shifts
    <3>4. Leads(E2, q, a)
      BY <1>1, <3>1
    <3>. QED
      BY <1>0, <3>3, <3>4, LeadsOn
  <2>. QED
    BY <1>1, <2>1, <2>3
<1>4. \A r, i : Leads(E, r, i) => <<r, i>> \in S
  BY <1>0, <1>2, <1>3, LeadsInduct
<1>. QED
  BY <1>1, <1>4

(* The new path of s itself. *)
LEMMA ArrivedMoved ==
  ASSUME NEW E, NEW E2, NEW d1, NEW n1, NEW s, NEW p, NEW d2, NEW n2, NEW pd2, NEW N,
         Shifts(E, E2, d1, n1, s, p, d2, n2, pd2, N)
  PROVE  Leads(E2, Append(pd2, n2), s)
<1>1. <<d2, n2, s>> \in E2 /\ Leads(E, pd2, d2) /\ d2 \notin N
  BY DEF Shifts
<1>2. ~ Extends(pd2, p)
  <2>1. \A r, i : Leads(E, r, i) /\ Extends(r, p) => i \in N
    BY BelowMoved
  <2>. QED
    BY <1>1, <2>1
<1>3. Leads(E2, pd2, d2)
  <2>1. \A r, i : Leads(E, r, i) /\ ~ Extends(r, p) => Leads(E2, r, i)
    BY BesideMoved
  <2>. QED
    BY <1>1, <1>2, <2>1
<1>. QED
  BY <1>1, <1>3, LeadsOn, ShiftTyped

(* What was at p and below it is at q and below it. *)
Follows(E, E2, p, q, r, i) ==
  \A z \in Seq(Names) : r = p \o z => Leads(E2, q \o z, i)

LEMMA AlongMoved ==
  ASSUME NEW E, NEW E2, NEW d1, NEW n1, NEW s, NEW p, NEW d2, NEW n2, NEW pd2, NEW N,
         Shifts(E, E2, d1, n1, s, p, d2, n2, pd2, N)
  PROVE  \A r, i : Leads(E, r, i) => Follows(E, E2, p, Append(pd2, n2), r, i)
<1>0. Treelike(E) /\ EdgeSet(E) /\ EdgeSet(E2) /\ Leads(E, p, s)
  BY ShiftTyped
<1>p. p \in Seq(Names) /\ p # <<>>
  BY ShiftTyped
<1>q. PICK q \in Seq(Names) : q = Append(pd2, n2)
  BY ShiftTyped, FrontIs
<1>s. Leads(E2, q, s)
  BY <1>q, ArrivedMoved
<1>1. PICK S : S = {x \in Universe : Follows(E, E2, p, q, x[1], x[2])}
  OBVIOUS
<1>2. AtRoot \in S
  <2>1. Follows(E, E2, p, q, <<>>, Root)
    BY <1>p, EmptyExtends DEF Follows
  <2>. QED
    BY <1>1, <2>1, RootPair DEF AtRoot
<1>3. HandedDown(S, E)
  <2>. SUFFICES ASSUME NEW r, NEW a, NEW m, NEW j, Leads(E, r, a), <<r, a>> \in S,
                       <<a, m, j>> \in E, Leads(E, Append(r, m), j)
                PROVE  <<Append(r, m), j>> \in S
    BY DEF HandedDown
  <2>1. <<Append(r, m), j>> \in Universe
    BY DEF Leads
  <2>2. r \in Seq(Names) /\ m \in Names
    BY <1>0, LeadsTyped DEF EdgeSet
  <2>e. Append(r, m) = p <=> j = s
    BY <1>0, MovedEdge
  <2>x. \A z \in Seq(Names) : Append(r, m) = p \o z /\ z # <<>> =>
          \E y \in Seq(Names) : z = Append(y, m) /\ r = p \o y
    <3>1. p \in Seq(Names)
      BY <1>p
    <3>. QED
      BY <3>1, <2>2, ExtendsAppend, ZenonT(60)
  <2>3. ASSUME NEW z \in Seq(Names), Append(r, m) = p \o z PROVE Leads(E2, q \o z, j)
    <3>1. CASE z = <<>>
      <4>1. Append(r, m) = p /\ q \o z = q
        BY <1>p, <2>3, <3>1, ConcatEmptySeq
      <4>2. j = s
        BY <4>1, <2>e
      <4>. QED
        BY <1>s, <4>1, <4>2
    <3>2. CASE z # <<>>
      <4>1. PICK y \in Seq(Names) : z = Append(y, m) /\ r = p \o y
        BY <2>x, <2>3, <3>2
      <4>2. Leads(E2, q \o y, a)
        BY <1>1, <4>1 DEF Follows
      <4>3. p \o z # p
        BY <1>p, <3>2, ConcatEqualIffEmpty
      <4>4. j # s
        BY <2>e, <2>3, <4>3
      <4>5. <<a, m, j>> \in E2
        BY <4>4 DEF Shifts
      <4>6. Leads(E2, Append(q \o y, m), j)
        BY <1>0, <4>2, <4>5, LeadsOn
      <4>7. Append(q \o y, m) = q \o Append(y, m)
        BY <2>2, AppendExtends, ZenonT(60)
      <4>. QED
        BY <4>1, <4>6, <4>7
    <3>. QED
      BY <3>1, <3>2
  <2>4. Follows(E, E2, p, q, Append(r, m), j)
    BY <2>3 DEF Follows
  <2>. QED
    BY <1>1, <2>1, <2>4
<1>4. \A r, i : Leads(E, r, i) => <<r, i>> \in S
  BY <1>0, <1>2, <1>3, LeadsInduct
<1>. QED
  BY <1>1, <1>4, <1>q

(* Nothing else has a path. *)
Left(E, p, r, i) == Leads(E, r, i) /\ ~ Extends(r, p)
Came(E, p, q, r, i) == \E z \in Seq(Names) : r = q \o z /\ Leads(E, p \o z, i)

LEMMA PathsMove ==
  ASSUME NEW E, NEW E2, NEW d1, NEW n1, NEW s, NEW p, NEW d2, NEW n2, NEW pd2, NEW N,
         Shifts(E, E2, d1, n1, s, p, d2, n2, pd2, N)
  PROVE  \A r, i : Leads(E2, r, i) <=>
           Left(E, p, r, i) \/ Came(E, p, Append(pd2, n2), r, i)
<1>0. Treelike(E) /\ EdgeSet(E) /\ EdgeSet(E2) /\ Leads(E, p, s)
  BY ShiftTyped
<1>d. Leads(E, pd2, d2) /\ d2 \notin N
  BY DEF Shifts
<1>p. p \in Seq(Names) /\ p # <<>> /\ pd2 \in Seq(Names) /\ n2 \in Names
  BY ShiftTyped
<1>q. PICK q \in Seq(Names) : q = Append(pd2, n2)
  BY <1>p, FrontIs
<1>1. PICK S : S = {x \in Universe : Left(E, p, x[1], x[2]) \/ Came(E, p, q, x[1], x[2])}
  OBVIOUS
<1>2. AtRoot \in S
  <2>1. Left(E, p, <<>>, Root)
    BY <1>p, EmptyExtends, LeadsRoot DEF Left
  <2>. QED
    BY <1>1, <2>1, RootPair DEF AtRoot
<1>3. HandedDown(S, E2)
  <2>. SUFFICES ASSUME NEW r, NEW a, NEW m, NEW j, Leads(E2, r, a), <<r, a>> \in S,
                       <<a, m, j>> \in E2, Leads(E2, Append(r, m), j)
                PROVE  <<Append(r, m), j>> \in S
    BY DEF HandedDown
  <2>1. <<Append(r, m), j>> \in Universe
    BY DEF Leads
  <2>2. r \in Seq(Names) /\ m \in Names
    BY <1>0, LeadsTyped DEF EdgeSet
  <2>3. ASSUME Left(E, p, r, a), <<a, m, j>> \in E, j # s
        PROVE  Left(E, p, Append(r, m), j)
    <3>1. Leads(E, Append(r, m), j)
      BY <1>0, <2>3, LeadsOn DEF Left
    <3>2. Append(r, m) # p
      BY <1>0, <2>3, <3>1, MovedEdge
    <3>3. ~ Extends(Append(r, m), p)
      BY <1>p, <2>2, <2>3, <3>2, ExtendsOn DEF Left
    <3>. QED
      BY <3>1, <3>3 DEF Left
  <2>4. ASSUME Left(E, p, r, a), a = d2, m = n2, j = s
        PROVE  Came(E, p, q, Append(r, m), j)
    <3>1. r = pd2
      BY <1>0, <1>d, <2>4, OneInodeOnePath DEF Left
    <3>2. q \o <<>> = q /\ p \o <<>> = p /\ <<>> \in Seq(Names)
      BY <1>p, ConcatEmptySeq, EmptySeq
    <3>. QED
      BY <1>0, <1>q, <2>4, <3>1, <3>2 DEF Came
  <2>5. ASSUME Came(E, p, q, r, a) PROVE Came(E, p, q, Append(r, m), j)
    <3>1. PICK z \in Seq(Names) : r = q \o z /\ Leads(E, p \o z, a)
      BY <2>5 DEF Came
    <3>2. a \in N
      <4>1. Extends(p \o z, p)
        BY <1>p, ExtendsSelf
      <4>2. \A y, i : Leads(E, y, i) /\ Extends(y, p) => i \in N
        BY BelowMoved
      <4>. QED
        BY <3>1, <4>1, <4>2
    <3>3. <<a, m, j>> \in E
      BY <1>d, <3>2 DEF Shifts
    <3>4. Leads(E, Append(p \o z, m), j)
      BY <1>0, <3>1, <3>3, LeadsOn
    <3>5. Append(p \o z, m) = p \o Append(z, m)
      <4>1. p \in Seq(Names)
        BY <1>p
      <4>2. m \in Names
        BY <2>2
      <4>. QED
        BY <4>1, <4>2, AppendExtends
    <3>6. Append(q \o z, m) = q \o Append(z, m)
      BY <2>2, AppendExtends
    <3>7. PICK y \in Seq(Names) : y = Append(z, m)
      BY <2>2, FrontIs
    <3>. QED
      BY <3>1, <3>4, <3>5, <3>6, <3>7 DEF Came
  <2>6. \/ <<a, m, j>> \in E /\ j # s
        \/ a = d2 /\ m = n2 /\ j = s
    BY DEF Shifts
  <2>7. Left(E, p, r, a) \/ Came(E, p, q, r, a)
    BY <1>1
  <2>. QED
    BY <1>1, <2>1, <2>3, <2>4, <2>5, <2>6, <2>7
<1>4. ASSUME NEW r, NEW i, Leads(E2, r, i)
      PROVE  Left(E, p, r, i) \/ Came(E, p, q, r, i)
  <2>1. <<r, i>> \in S
    BY <1>0, <1>2, <1>3, <1>4, LeadsInduct
  <2>. QED
    BY <1>1, <2>1
<1>5. \A r, i : Left(E, p, r, i) => Leads(E2, r, i)
  BY BesideMoved DEF Left
<1>6. \A r, i : Came(E, p, q, r, i) => Leads(E2, r, i)
  <2>. SUFFICES ASSUME NEW i, NEW z \in Seq(Names), Leads(E, p \o z, i)
                PROVE  Leads(E2, q \o z, i)
    BY DEF Came
  <2>1. \A r, k : Leads(E, r, k) => Follows(E, E2, p, q, r, k)
    BY <1>q, AlongMoved
  <2>. QED
    BY <2>1 DEF Follows
<1>. QED
  BY <1>q, <1>4, <1>5, <1>6

-----------------------------------------------------------------------------
(* The tree of nodes that the edges E make of the nodes K. *)
IsTreeOf(t, E, K) ==
  /\ t = [p \in DOMAIN t |-> t[p]]
  /\ \A p : p \in DOMAIN t <=> \E i : Leads(E, p, i)
  /\ \A p, i : Leads(E, p, i) => t[p] = K[i]

LEMMA TreesEqual ==
  ASSUME NEW t, NEW u, NEW E, NEW E2, NEW K, NEW K2,
         IsTreeOf(t, E, K), IsTreeOf(u, E2, K2),
         \A p, i : Leads(E2, p, i) <=> Leads(E, p, i),
         \A p, i : Leads(E, p, i) => K2[i] = K[i]
  PROVE  u = t
<1>1. t = [p \in DOMAIN t |-> t[p]] /\ u = [p \in DOMAIN u |-> u[p]]
  BY DEF IsTreeOf
<1>2. \A p : p \in DOMAIN u <=> p \in DOMAIN t
  BY DEF IsTreeOf
<1>3. \A p \in DOMAIN t : u[p] = t[p]
  BY DEF IsTreeOf
<1>4. DOMAIN u = DOMAIN t
  BY <1>2
<1>. QED
  BY <1>1, <1>3, <1>4

LEMMA TreeMakes ==
  ASSUME NEW t, NEW u, NEW E, NEW E2, NEW K, NEW K2, NEW d, NEW n, NEW i, NEW pd,
         IsTreeOf(t, E, K), IsTreeOf(u, E2, K2), Grows(E, E2, d, n, i),
         Leads(E, pd, d), K[d].kind = "dir",
         \A j : <<d, n, j>> \notin E,
         \A p : ~ Leads(E, p, i),
         \A p, j : Leads(E, p, j) => K2[j] = K[j],
         K2[i] \in Promise!NewNodes
  PROVE  Promise!Make(t, u) /\ u = Promise!With(t, Append(pd, n), K2[i])
<1>0. Treelike(E) /\ EdgeSet(E) /\ pd \in Seq(Names) /\ n \in Names
  <2>1. <<d, n, i>> \in E2 /\ EdgeSet(E2) /\ Treelike(E)
    BY DEF Grows
  <2>. QED
    BY <2>1, LeadsTyped DEF Treelike, EdgeSet
<1>p. PICK p : p = Append(pd, n)
  OBVIOUS
<1>1. \A r, j : Leads(E2, r, j) <=> Leads(E, r, j) \/ (r = p /\ j = i)
  <2>1. \A r, j : Leads(E2, r, j) <=> Leads(E, r, j) \/ (r = Append(pd, n) /\ j = i)
    BY PathsEnter
  <2>. QED
    BY <1>p, <2>1
<1>2. SubSeq(p, 1, Len(p) - 1) = pd
  BY <1>0, <1>p, FrontIs
<1>3. p \notin DOMAIN t
  <2>. SUFFICES ASSUME NEW j, Leads(E, p, j) PROVE FALSE
    BY DEF IsTreeOf
  <2>1. EndsWith(E, p, j)
    BY <1>0, LeadsBack
  <2>2. PICK q \in Seq(Names), a \in Inodes, m \in Names :
          Leads(E, q, a) /\ <<a, m, j>> \in E /\ p = Append(q, m)
    BY <1>0, <1>p, <2>1, FrontIs DEF EndsWith
  <2>3. q = pd /\ m = n
    <3>1. Append(q, m) = Append(pd, n)
      BY <1>p, <2>2
    <3>. QED
      BY <1>0, <3>1, AppendUnique
  <2>4. a = d
    BY <1>0, <2>2, <2>3, OnePathOneInode
  <2>. QED
    BY <2>2, <2>3, <2>4
<1>4. p \in DOMAIN u /\ u[p] = K2[i]
  BY <1>1 DEF IsTreeOf
<1>5. Promise!IsDirectory(t, pd)
  BY DEF Promise!IsDirectory, IsTreeOf
<1>6. \A r : r \in DOMAIN u <=> r \in DOMAIN t \/ r = p
  BY <1>1 DEF IsTreeOf
<1>7. \A r \in DOMAIN t : u[r] = t[r]
  BY <1>1 DEF IsTreeOf
<1>8. u = Promise!With(t, p, u[p])
  <2>1. DOMAIN u = DOMAIN t \cup {p}
    BY <1>6
  <2>2. u = [r \in DOMAIN u |-> u[r]]
    BY DEF IsTreeOf
  <2>. QED
    BY <2>1, <2>2, <1>7 DEF Promise!With
<1>. QED
  BY <1>p, <1>2, <1>3, <1>4, <1>5, <1>8 DEF Promise!Make

(* What has no edges has nothing below it. *)
LEMMA NothingBelow ==
  ASSUME NEW E, Treelike(E), NEW p, NEW t, Leads(E, p, t), \A m, j : <<t, m, j>> \notin E
  PROVE  \A r, i : Leads(E, r, i) /\ Extends(r, p) => r = p
<1>0. EdgeSet(E) /\ p \in Seq(Names)
  BY LeadsTyped DEF Treelike
<1>1. PICK S : S = {x \in Universe : Extends(x[1], p) => x[1] = p}
  OBVIOUS
<1>2. AtRoot \in S
  <2>1. p # <<>> => ~ Extends(<<>>, p)
    BY <1>0, EmptyExtends
  <2>. QED
    BY <1>1, <2>1, RootPair DEF AtRoot
<1>3. HandedDown(S, E)
  <2>. SUFFICES ASSUME NEW q, NEW a, NEW m, NEW j, Leads(E, q, a), <<q, a>> \in S,
                       <<a, m, j>> \in E, Leads(E, Append(q, m), j)
                PROVE  <<Append(q, m), j>> \in S
    BY DEF HandedDown
  <2>1. <<Append(q, m), j>> \in Universe
    BY DEF Leads
  <2>2. q \in Seq(Names) /\ m \in Names
    BY <1>0, LeadsTyped DEF EdgeSet
  <2>3. ~ Extends(q, p)
    <3>1. a # t
      OBVIOUS
    <3>2. q # p
      BY <3>1, OnePathOneInode
    <3>. QED
      BY <1>1, <3>2
  <2>4. Extends(Append(q, m), p) => Append(q, m) = p
    BY <1>0, <2>2, <2>3, ExtendsOn
  <2>. QED
    BY <1>1, <2>1, <2>4
<1>4. \A r, i : Leads(E, r, i) => <<r, i>> \in S
  BY <1>0, <1>2, <1>3, LeadsInduct
<1>. QED
  BY <1>1, <1>4

(* The edge to a leaf goes. *)
Prunes(t, u, E, E2, K, K2, d, n, x) ==
  /\ IsTreeOf(t, E, K) /\ IsTreeOf(u, E2, K2) /\ Treelike(E) /\ EdgeSet(E2)
  /\ <<d, n, x>> \in E /\ \A m, j : <<x, m, j>> \notin E
  /\ \A a, m, j : <<a, m, j>> \in E2 <=> <<a, m, j>> \in E /\ j # x
  /\ \A p, j : Leads(E, p, j) /\ j # x => K2[j] = K[j]

LEMMA TreePruned ==
  ASSUME NEW t, NEW u, NEW E, NEW E2, NEW K, NEW K2, NEW d, NEW n, NEW x, NEW p,
         Prunes(t, u, E, E2, K, K2, d, n, x), Leads(E, p, x)
  PROVE  p \in DOMAIN t \ DOMAIN u /\ u = Promise!Without(t, p) /\ t[p] = K[x]
<1>1. \A r, j : Leads(E2, r, j) <=> Leads(E, r, j) /\ j # x
  BY PathsDrop DEF Prunes
<1>2. p \in DOMAIN t /\ t[p] = K[x]
  BY DEF IsTreeOf, Prunes
<1>3. \A r, j : Leads(E, r, j) => (r = p <=> j = x)
  BY OnePathOneInode, OneInodeOnePath DEF Prunes
<1>4. \A r : r \in DOMAIN u <=> r \in DOMAIN t /\ r # p
  BY <1>1, <1>3 DEF IsTreeOf, Prunes
<1>5. \A r \in DOMAIN u : u[r] = t[r]
  BY <1>1 DEF IsTreeOf, Prunes
<1>6. u = [r \in DOMAIN u |-> u[r]]
  BY DEF IsTreeOf, Prunes
<1>7. DOMAIN u = DOMAIN t \ {p}
  BY <1>4
<1>. QED
  BY <1>2, <1>4, <1>5, <1>6, <1>7 DEF Promise!Without

LEMMA TreePrunes ==
  ASSUME NEW t, NEW u, NEW E, NEW E2, NEW K, NEW K2, NEW d, NEW n, NEW x, NEW p,
         Prunes(t, u, E, E2, K, K2, d, n, x), Leads(E, p, x)
  PROVE  Promise!Drop(t, u)
<1>1. p \in DOMAIN t \ DOMAIN u /\ u = Promise!Without(t, p)
  BY TreePruned
<1>2. \A r, i : Leads(E, r, i) /\ Extends(r, p) => r = p
  BY NothingBelow DEF Prunes
<1>3. ASSUME NEW r \in DOMAIN t, Len(p) <= Len(r), SubSeq(r, 1, Len(p)) = p
      PROVE  r = p
  <2>1. PICK i : Leads(E, r, i)
    BY <1>3 DEF IsTreeOf, Prunes
  <2>2. r \in Seq(Names) /\ p \in Seq(Names)
    BY <2>1, LeadsTyped
  <2>3. Extends(r, p)
    BY <1>3, <2>2, Prefix
  <2>. QED
    BY <1>2, <2>1, <2>3
<1>4. p \in Promise!Under(t, p)
  <2>1. p \in Seq(Names)
    BY LeadsTyped
  <2>2. Len(p) <= Len(p) /\ SubSeq(p, 1, Len(p)) = p
    BY <2>1, SubSeqFull, LenProperties
  <2>. QED
    BY <1>1, <2>2 DEF Promise!Under
<1>5. Promise!Under(t, p) = {p}
  BY <1>3, <1>4 DEF Promise!Under
<1>. QED
  BY <1>1, <1>5 DEF Promise!Drop

LEMMA TreeLoses ==
  ASSUME NEW t, NEW u, NEW E, NEW E2, NEW K, NEW K2, NEW d, NEW n, NEW x, NEW p,
         Prunes(t, u, E, E2, K, K2, d, n, x), Leads(E, p, x), K[x].kind # "dir"
  PROVE  Promise!LoseTarget(t, u)
  BY TreePruned DEF Promise!LoseTarget, Promise!IsDirectory

(* A file gets another size. *)
LEMMA TreeResizes ==
  ASSUME NEW t, NEW u, NEW E, NEW K, NEW K2, NEW i, NEW p,
         IsTreeOf(t, E, K), IsTreeOf(u, E, K2), Treelike(E), Leads(E, p, i),
         K[i].kind = "reg", K2[i] # K[i],
         NEW size \in FileSizes, K2[i] = Promise!Node("reg", size),
         \A q, j : Leads(E, q, j) /\ j # i => K2[j] = K[j]
  PROVE  Promise!Resize(t, u)
<1>1. p \in DOMAIN t /\ p \in DOMAIN u /\ t[p] = K[i] /\ u[p] = K2[i]
  BY DEF IsTreeOf
<1>2. \A q, j : Leads(E, q, j) => (q = p <=> j = i)
  BY OnePathOneInode, OneInodeOnePath
<1>3. \A q : q \in DOMAIN u <=> q \in DOMAIN t
  BY DEF IsTreeOf
<1>4. \A q \in DOMAIN t : q # p => u[q] = t[q]
  BY <1>2 DEF IsTreeOf
<1>5. u = [q \in DOMAIN u |-> u[q]] /\ DOMAIN u = DOMAIN t \cup {p}
  BY <1>1, <1>3 DEF IsTreeOf
<1>6. u = Promise!With(t, p, u[p])
  BY <1>4, <1>5 DEF Promise!With
<1>. QED
  BY <1>1, <1>6 DEF Promise!Resize

(* s moves to another name, after x, if that name was x's, has gone. *)
Carries(t, u, E, E1, E2, K, K2, d1, n1, s, d2, n2, x, N) ==
  /\ IsTreeOf(t, E, K) /\ IsTreeOf(u, E2, K2) /\ Treelike(E) /\ Treelike(E2)
  /\ \A r, j : Leads(E1, r, j) <=> Leads(E, r, j) /\ j # x
  /\ \A j : <<d2, n2, j>> \in E <=> j = x /\ x # NoInode
  /\ \A m, j : <<x, m, j>> \notin E
  /\ x # NoInode => K[x].kind # "dir" /\ K[s].kind # "dir"
  /\ <<d1, n1, s>> \in E /\ s # x /\ ~ (d1 = d2 /\ n1 = n2) /\ K[d2].kind = "dir"
  /\ \A j : <<d1, n1, j>> \notin E2
  /\ \A r, j : Leads(E1, r, j) => K2[j] = K[j]

LEMMA TreeCarries ==
  ASSUME NEW t, NEW u, NEW E, NEW E1, NEW E2, NEW K, NEW K2, NEW d1, NEW n1, NEW s,
         NEW d2, NEW n2, NEW x, NEW N, NEW pd1, NEW pd2,
         Carries(t, u, E, E1, E2, K, K2, d1, n1, s, d2, n2, x, N),
         Leads(E, pd1, d1), Leads(E, pd2, d2),
         Shifts(E1, E2, d1, n1, s, Append(pd1, n1), d2, n2, pd2, N)
  PROVE  Promise!Move(t, u)
<1>0. /\ IsTreeOf(t, E, K) /\ IsTreeOf(u, E2, K2)
      /\ Treelike(E) /\ Treelike(E2) /\ EdgeSet(E) /\ EdgeSet(E2)
      /\ <<d1, n1, s>> \in E /\ s # x /\ K[d2].kind = "dir"
  BY DEF Carries, Treelike
<1>t. pd1 \in Seq(Names) /\ n1 \in Names
  BY <1>0, LeadsTyped DEF EdgeSet
<1>v. pd2 \in Seq(Names) /\ n2 \in Names
  BY ShiftTyped
<1>p. PICK p \in Seq(Names) : p = Append(pd1, n1)
  BY <1>t, FrontIs
<1>q. PICK q \in Seq(Names) : q = Append(pd2, n2)
  BY <1>v, FrontIs
<1>1. Shifts(E1, E2, d1, n1, s, p, d2, n2, pd2, N) /\ Leads(E, p, s)
  BY <1>0, <1>p, LeadsOn
<1>2. \A r, i : Leads(E2, r, i) <=> Left(E1, p, r, i) \/ Came(E1, p, q, r, i)
  <2>1. \A r, i : Leads(E2, r, i) <=> Left(E1, p, r, i) \/ Came(E1, p, Append(pd2, n2), r, i)
    BY <1>1, PathsMove
  <2>. QED
    BY <2>1, <1>q
<1>3. \A r, j : Leads(E1, r, j) <=> Leads(E, r, j) /\ j # x
  BY DEF Carries
(* The paths of E at or below p have nothing to do with q. *)
<1>4. p # q
  <2>. SUFFICES ASSUME p = q PROVE FALSE
    OBVIOUS
  <2>1. Append(pd1, n1) = Append(pd2, n2)
    BY <1>p, <1>q
  <2>2. pd1 = pd2 /\ n1 = n2
    BY <1>t, <1>v, <2>1, AppendUnique
  <2>3. d1 = d2
    BY <1>0, <2>2, OnePathOneInode
  <2>. QED
    BY <2>2, <2>3 DEF Carries
<1>5. ~ Extends(pd2, p)
  <2>1. \A r, i : Leads(E1, r, i) /\ Extends(r, p) => i \in N
    BY <1>1, BelowMoved
  <2>2. Leads(E1, pd2, d2) /\ d2 \notin N
    BY <1>1 DEF Shifts
  <2>. QED
    BY <2>1, <2>2
<1>6. ~ Extends(q, p)
  <2>1. Append(pd2, n2) # p
    BY <1>4, <1>q
  <2>2. ~ Extends(Append(pd2, n2), p)
    BY <1>5, <1>v, <2>1, ExtendsOn
  <2>. QED
    BY <1>q, <2>2
<1>7. \A j : Leads(E, q, j) <=> j = x /\ x # NoInode
  <2>1. ASSUME NEW j, Leads(E, q, j) PROVE j = x /\ x # NoInode
    <3>1. EndsWith(E, q, j)
      BY <1>0, <2>1, LeadsBack
    <3>2. PICK r \in Seq(Names), a \in Inodes, m \in Names :
            Leads(E, r, a) /\ <<a, m, j>> \in E /\ q = Append(r, m)
      BY <1>q, <1>v, <3>1, FrontIs DEF EndsWith
    <3>3. Append(r, m) = Append(pd2, n2)
      BY <1>q, <3>2
    <3>4. r = pd2 /\ m = n2
      BY <1>v, <3>3, AppendUnique, SMTT(30)
    <3>5. a = d2
      BY <1>0, <3>2, <3>4, OnePathOneInode
    <3>. QED
      BY <3>2, <3>4, <3>5 DEF Carries
  <2>2. ASSUME x # NoInode PROVE Leads(E, q, x)
    <3>1. <<d2, n2, x>> \in E
      BY <2>2 DEF Carries
    <3>. QED
      BY <1>0, <1>q, <3>1, LeadsOn
  <2>. QED
    BY <2>1, <2>2
<1>8. \A r, j : Leads(E, r, j) => (r = q <=> j = x) /\ j # NoInode
  <2>. SUFFICES ASSUME NEW r, NEW j, Leads(E, r, j)
                PROVE  (r = q <=> j = x) /\ j # NoInode
    OBVIOUS
  <2>1. j # NoInode
    BY LeadsTyped DEF Inodes, NoInode
  <2>2. r = q => j = x
    BY <1>7
  <2>3. j = x => r = q
    BY <1>0, <1>7, <2>1, OneInodeOnePath
  <2>. QED
    BY <2>1, <2>2, <2>3
(* The two sets of paths after the move. *)
<1>. DEFINE rest == DOMAIN t \ (Promise!Under(t, p) \cup {q})
<1>9. \A r : r \in Promise!Under(t, p) <=> r \in DOMAIN t /\ Extends(r, p)
  <2>. SUFFICES ASSUME NEW r, r \in DOMAIN t
                PROVE  Len(p) <= Len(r) /\ SubSeq(r, 1, Len(p)) = p <=> Extends(r, p)
    BY DEF Promise!Under
  <2>1. r \in Seq(Names)
    BY <1>0, LeadsTyped DEF IsTreeOf
  <2>. QED
    BY <2>1, Prefix
<1>10. \A r, i : Left(E1, p, r, i) <=> r \in rest /\ Leads(E, r, i)
  BY <1>0, <1>3, <1>8, <1>9 DEF Left, IsTreeOf
<1>11. ASSUME NEW z \in Seq(Names), NEW i, Leads(E, p \o z, i)
       PROVE  Leads(E1, p \o z, i)
  <2>1. Extends(p \o z, p)
    BY ExtendsSelf
  <2>. QED
    BY <1>3, <1>6, <1>8, <1>11, <2>1
<1>12. \A r \in rest : r \in DOMAIN u /\ u[r] = t[r]
  <2>. SUFFICES ASSUME NEW r \in rest PROVE r \in DOMAIN u /\ u[r] = t[r]
    OBVIOUS
  <2>1. PICK i : Leads(E, r, i)
    BY <1>0 DEF IsTreeOf
  <2>2. Left(E1, p, r, i)
    BY <1>10, <2>1
  <2>3. Leads(E1, r, i) /\ Leads(E2, r, i)
    BY <1>2, <2>2 DEF Left
  <2>4. K2[i] = K[i]
    BY <2>3 DEF Carries
  <2>. QED
    BY <1>0, <2>1, <2>3, <2>4 DEF IsTreeOf
<1>. DEFINE came == {q \o Promise!Suffix(r, p) : r \in Promise!Under(t, p)}
<1>13. \A z \in Seq(Names) : Promise!Suffix(p \o z, p) = z /\ Promise!Suffix(q \o z, q) = z
  BY SuffixIs DEF Promise!Suffix
<1>14. \A r : r \in came <=> \E z \in Seq(Names) : r = q \o z /\ p \o z \in DOMAIN t
  <2>1. ASSUME NEW s2 \in Promise!Under(t, p)
        PROVE  \E z \in Seq(Names) : q \o Promise!Suffix(s2, p) = q \o z /\ p \o z \in DOMAIN t
    <3>1. PICK z \in Seq(Names) : s2 = p \o z
      BY <1>9 DEF Extends
    <3>2. s2 \in DOMAIN t
      BY <1>9
    <3>. QED
      BY <1>13, <3>1, <3>2
  <2>2. ASSUME NEW z \in Seq(Names), p \o z \in DOMAIN t PROVE q \o z \in came
    <3>1. Extends(p \o z, p)
      BY ExtendsSelf
    <3>2. p \o z \in Promise!Under(t, p)
      BY <1>9, <2>2, <3>1
    <3>. QED
      BY <1>13, <3>2
  <2>. QED
    BY <2>1, <2>2
<1>15. \A r \in came : r \in DOMAIN u /\ u[r] = t[p \o Promise!Suffix(r, q)]
  <2>. SUFFICES ASSUME NEW r \in came
                PROVE  r \in DOMAIN u /\ u[r] = t[p \o Promise!Suffix(r, q)]
    OBVIOUS
  <2>1. PICK z \in Seq(Names) : r = q \o z /\ p \o z \in DOMAIN t
    BY <1>14
  <2>2. PICK i : Leads(E, p \o z, i)
    BY <1>0, <2>1 DEF IsTreeOf
  <2>3. Leads(E1, p \o z, i)
    BY <1>11, <2>2
  <2>4. Leads(E2, r, i)
    BY <1>2, <2>1, <2>3 DEF Came
  <2>5. K2[i] = K[i]
    BY <2>3 DEF Carries
  <2>6. u[r] = K2[i] /\ t[p \o z] = K[i] /\ r \in DOMAIN u
    BY <1>0, <2>2, <2>4 DEF IsTreeOf
  <2>7. Promise!Suffix(r, q) = z
    BY <1>13, <2>1
  <2>. QED
    BY <2>5, <2>6, <2>7
<1>16. DOMAIN u = rest \cup came
  <2>1. ASSUME NEW r \in DOMAIN u PROVE r \in rest \cup came
    <3>1. PICK i : Leads(E2, r, i)
      BY <1>0 DEF IsTreeOf
    <3>2. CASE Left(E1, p, r, i)
      BY <1>10, <3>2
    <3>3. CASE Came(E1, p, q, r, i)
      <4>1. PICK z \in Seq(Names) : r = q \o z /\ Leads(E1, p \o z, i)
        BY <3>3 DEF Came
      <4>2. p \o z \in DOMAIN t
        BY <1>0, <1>3, <4>1 DEF IsTreeOf
      <4>. QED
        BY <1>14, <4>1, <4>2
    <3>. QED
      BY <1>2, <3>1, <3>2, <3>3
  <2>. QED
    BY <1>12, <1>15, <2>1
(* What Move asks of p and q. *)
<1>17. p \in DOMAIN t /\ t[p] = K[s] /\ q \in DOMAIN u
  <2>1. Leads(E2, q, s)
    BY <1>1, <1>q, ArrivedMoved
  <2>. QED
    BY <1>0, <1>1, <2>1 DEF IsTreeOf
<1>18. p \notin DOMAIN u
  <2>. SUFFICES ASSUME NEW i, Leads(E2, p, i) PROVE FALSE
    BY <1>0 DEF IsTreeOf
  <2>1. EndsWith(E2, p, i)
    BY <1>0, LeadsBack
  <2>2. PICK r \in Seq(Names), a \in Inodes, m \in Names :
          Leads(E2, r, a) /\ <<a, m, i>> \in E2 /\ p = Append(r, m)
    BY <1>p, <1>t, <2>1, FrontIs DEF EndsWith
  <2>3. Append(r, m) = Append(pd1, n1)
    BY <1>p, <2>2
  <2>4. r = pd1 /\ m = n1
    BY <1>t, <2>3, AppendUnique
  <2>5. Leads(E2, pd1, d1)
    <3>1. ~ Extends(pd1, p)
      <4>1. Len(p) = Len(pd1) + 1 /\ Len(pd1) \in Nat
        BY <1>p, <1>t, FrontIs
      <4>2. ~ (Len(p) <= Len(pd1))
        BY <4>1
      <4>. QED
        BY <1>t, <4>2, Prefix
    <3>2. d1 # x
      BY <1>0 DEF Carries
    <3>3. Left(E1, p, pd1, d1)
      BY <1>3, <3>1, <3>2 DEF Left
    <3>. QED
      BY <1>2, <3>3
  <2>6. a = d1
    BY <1>0, <2>2, <2>4, <2>5, OnePathOneInode
  <2>. QED
    BY <2>2, <2>4, <2>6 DEF Carries
<1>19. q # <<>> /\ SubSeq(q, 1, Len(q) - 1) = pd2
  BY <1>q, <1>v, FrontIs
<1>20. Promise!IsDirectory(t, pd2) /\ pd2 \notin Promise!Under(t, p)
  BY <1>0, <1>5, <1>9 DEF Promise!IsDirectory, IsTreeOf
<1>21. q \notin DOMAIN t \/ ~ (Promise!IsDirectory(t, p) \/ Promise!IsDirectory(t, q))
  <2>. SUFFICES ASSUME q \in DOMAIN t
                PROVE  ~ (Promise!IsDirectory(t, p) \/ Promise!IsDirectory(t, q))
    OBVIOUS
  <2>1. x # NoInode /\ Leads(E, q, x)
    BY <1>0, <1>7 DEF IsTreeOf
  <2>2. t[q] = K[x]
    BY <1>0, <2>1 DEF IsTreeOf
  <2>. QED
    BY <1>17, <2>1, <2>2 DEF Carries, Promise!IsDirectory
<1>22. u = [r \in rest \cup came |-> IF r \in rest THEN t[r] ELSE t[p \o Promise!Suffix(r, q)]]
  <2>1. u = [r \in DOMAIN u |-> u[r]]
    BY <1>0 DEF IsTreeOf
  <2>. HIDE DEF rest, came
  <2>. QED
    BY <1>12, <1>15, <1>16, <2>1
<1>. QED
  BY <1>17, <1>18, <1>19, <1>20, <1>21, <1>22 DEF Promise!Move

-----------------------------------------------------------------------------
(* The program's edges are the entries of its directories, its nodes what  *)
(* the inodes show.                                                        *)
EdgesOf ==
  {x \in Inodes \X Names \X Inodes : x[1] \in DirRecs /\ Refers(Block(x[1]), x[2], x[3])}

NodesOf == [i \in Inodes |-> NodeOf(inodes[i])]

LEMMA EdgesAre ==
  ASSUME NoDotsInPaths, TreeIInv
  PROVE  /\ Treelike(EdgesOf)
         /\ \A d, n, i : <<d, n, i>> \in EdgesOf
              <=> d \in DirRecs /\ n \in Names /\ i \in Inodes /\ Refers(Block(d), n, i)
<1>0. IInv /\ TreeNow /\ Usable \subseteq Inodes /\ DirRecs \subseteq Usable
  BY UsableInodes DEF TreeIInv, TreeParts
<1>1. \A d, n, i : <<d, n, i>> \in EdgesOf
        <=> d \in DirRecs /\ n \in Names /\ i \in Inodes /\ Refers(Block(d), n, i)
  BY <1>0 DEF EdgesOf
<1>2. EdgeSet(EdgesOf)
  BY DEF EdgesOf, EdgeSet
<1>3. \A d, n, i, j : <<d, n, i>> \in EdgesOf /\ <<d, n, j>> \in EdgesOf => i = j
  BY <1>0, <1>1, NameIsOne
<1>4. \A d1, d2, n1, n2, i :
        <<d1, n1, i>> \in EdgesOf /\ <<d2, n2, i>> \in EdgesOf => d1 = d2 /\ n1 = n2
  BY <1>0, <1>1 DEF IInv, RefsUnique
<1>5. \A d, n : <<d, n, Root>> \notin EdgesOf
  <2>1. \A k \in Usable : Root \notin KidsOf[k]
    BY <1>0 DEF TreeNow, Rooted
  <2>2. \A k \in DirRecs : \A n \in Names : Refers(Block(k), n, Root) => Root \in KidsOf[k]
    BY <1>0, Constants DEF KidsOf
  <2>. QED
    BY <1>0, <1>1, <2>1, <2>2
<1>. QED
  BY <1>1, <1>2, <1>3, <1>4, <1>5 DEF Treelike

(* What is reached is what has a path. *)
LEMMA ReachedLed ==
  ASSUME NoDotsInPaths, TreeIInv
  PROVE  /\ \A p, i : Leads(EdgesOf, p, i) => i \in Reached
         /\ \A i \in Reached : \E p : Leads(EdgesOf, p, i)
<1>0. /\ IInv /\ TreeNow /\ Treelike(EdgesOf) /\ EdgeSet(EdgesOf)
      /\ Usable \subseteq Inodes /\ DirRecs \subseteq Usable
  BY UsableInodes, EdgesAre DEF TreeIInv, TreeParts, Treelike
<1>1. \A d, n, i : <<d, n, i>> \in EdgesOf
        <=> d \in DirRecs /\ n \in Names /\ i \in Inodes /\ Refers(Block(d), n, i)
  BY EdgesAre
<1>2. Root \in Reached /\ \A d \in DirRecs : KidsOf[d] \subseteq Reached
  BY <1>0, ReachedResolves
<1>3. \A d \in DirRecs : \A i : i \in KidsOf[d] <=> i \in Inodes /\ \E n \in Names : <<d, n, i>> \in EdgesOf
  BY <1>0, <1>1 DEF KidsOf
<1>4. \A p, i : Leads(EdgesOf, p, i) => i \in Reached
  <2>1. PICK S : S = {x \in Universe : x[2] \in Reached}
    OBVIOUS
  <2>2. AtRoot \in S
    BY <1>2, <2>1, RootPair DEF AtRoot
  <2>3. HandedDown(S, EdgesOf)
    <3>. SUFFICES ASSUME NEW q, NEW a, NEW m, NEW j, Leads(EdgesOf, q, a), <<q, a>> \in S,
                         <<a, m, j>> \in EdgesOf, Leads(EdgesOf, Append(q, m), j)
                  PROVE  <<Append(q, m), j>> \in S
      BY DEF HandedDown
    <3>1. <<Append(q, m), j>> \in Universe
      BY DEF Leads
    <3>2. j \in Reached
      BY <1>1, <1>2, <1>3
    <3>. QED
      BY <2>1, <3>1, <3>2
  <2>4. \A p, i : Leads(EdgesOf, p, i) => <<p, i>> \in S
    BY <1>0, <2>2, <2>3, LeadsInduct
  <2>. QED
    BY <2>1, <2>4
<1>5. \A i \in Reached : \E p : Leads(EdgesOf, p, i)
  <2>1. PICK T \in SUBSET Usable : T = {i \in Usable : \E p : Leads(EdgesOf, p, i)}
    OBVIOUS
  <2>2. Root \in T
    BY <1>0, <2>1, LeadsRoot DEF IInv, MetadataMarked
  <2>3. ClosedIn(T, KidsOf)
    <3>. SUFFICES ASSUME NEW d \in T, NEW j \in KidsOf[d] PROVE j \in T
      BY DEF ClosedIn
    <3>1. d \in DirRecs
      BY <1>0, <2>1 DEF TreeNow, Rooted
    <3>2. j \in Usable
      BY <1>0, <2>1 DEF TreeNow, Rooted
    <3>3. PICK n \in Names : <<d, n, j>> \in EdgesOf
      BY <1>3, <3>1
    <3>4. PICK p : Leads(EdgesOf, p, d)
      BY <2>1
    <3>5. Leads(EdgesOf, Append(p, n), j)
      BY <1>0, <3>3, <3>4, LeadsOn
    <3>. QED
      BY <2>1, <3>2, <3>5
  <2>4. Reached \subseteq T
    BY <2>2, <2>3, ReachLeast DEF Reached
  <2>. QED
    BY <2>1, <2>4
<1>. QED
  BY <1>4, <1>5

(* The entries the properties look at are the edges. *)
LEMMA NamedEdges ==
  ASSUME NoDotsInPaths, TreeIInv, NEW i \in Reached
  PROVE  \A n, j : <<i, n, j>> \in EdgesOf <=> \E e \in Named(i) : e.name = n /\ e.inode = j
<1>0. IInv /\ PlainFiles /\ TreeNow /\ i \in Usable /\ Usable \subseteq Inodes
  BY UsableInodes, TreeMeans DEF TreeIInv, TreeParts
<1>1. \A n, j : <<i, n, j>> \in EdgesOf
        <=> i \in DirRecs /\ n \in Names /\ j \in Inodes /\ Refers(Block(i), n, j)
  BY EdgesAre
<1>2. CASE i \in DirRecs
  <2>1. Named(i) = {e \in Block(i) : e.name \in Names}
    BY <1>2, TreeMeans
  <2>2. \A e \in Block(i) : e.name \in Names => e.inode \in Inodes
    BY <1>2, EntryMeans
  <2>. QED
    BY <1>1, <1>2, <2>1, <2>2 DEF Refers
<1>3. CASE i \notin DirRecs
  <2>1. Named(i) = {}
    <3>1. inodes[i].len \in Nat
      BY <1>0, InodeFields DEF IInv
    <3>2. DirEntries(inodes[i]) = {}
      BY <1>0, <1>3, <3>1 DEF DirEntries, PlainFiles
    <3>. QED
      BY <3>2 DEF Named, Live
  <2>. QED
    BY <1>1, <1>3, <2>1
<1>. QED
  BY <1>2, <1>3

-----------------------------------------------------------------------------
(* A path is no longer than there are inodes: each of its directories is   *)
(* another one.                                                            *)
Trail(E, U, p) ==
  \E A \in SUBSET U : /\ Cardinality(A) = Len(p) + 1
                      /\ \A a \in A : \E q : Leads(E, q, a) /\ Len(q) <= Len(p)

LEMMA PathsShort ==
  ASSUME NEW E, Treelike(E), NEW U, IsFiniteSet(U), \A p, i : Leads(E, p, i) => i \in U
  PROVE  \A p, i : Leads(E, p, i) => Len(p) \in Nat /\ Len(p) < Cardinality(U)
<1>0. EdgeSet(E)
  BY DEF Treelike
<1>1. PICK S : S = {x \in Universe : Trail(E, U, x[1])}
  OBVIOUS
<1>2. AtRoot \in S
  <2>1. Leads(E, <<>>, Root) /\ Root \in U
    BY LeadsRoot
  <2>2. Cardinality({Root}) = 1
    BY FS_Singleton
  <2>3. Trail(E, U, <<>>)
    <3>1. Len(<<>>) = 0
      OBVIOUS
    <3>. QED
      BY <2>1, <2>2, <3>1 DEF Trail
  <2>. QED
    BY <1>1, <2>3, RootPair DEF AtRoot
<1>3. HandedDown(S, E)
  <2>. SUFFICES ASSUME NEW q, NEW d, NEW n, NEW j, Leads(E, q, d), <<q, d>> \in S,
                       <<d, n, j>> \in E, Leads(E, Append(q, n), j)
                PROVE  <<Append(q, n), j>> \in S
    BY DEF HandedDown
  <2>1. q \in Seq(Names) /\ n \in Names /\ j \in U
    BY <1>0, LeadsTyped DEF EdgeSet
  <2>2. Len(Append(q, n)) = Len(q) + 1 /\ Len(q) \in Nat
    BY <2>1, FrontIs
  <2>3. PICK A \in SUBSET U :
          /\ Cardinality(A) = Len(q) + 1
          /\ \A a \in A : \E r : Leads(E, r, a) /\ Len(r) <= Len(q)
    <3>1. Trail(E, U, q)
      BY <1>1
    <3>. QED
      BY <3>1 DEF Trail
  <2>4. j \notin A
    <3>. SUFFICES ASSUME j \in A PROVE FALSE
      OBVIOUS
    <3>1. PICK r : Leads(E, r, j) /\ Len(r) <= Len(q)
      BY <2>3
    <3>2. r = Append(q, n)
      BY <3>1, OneInodeOnePath
    <3>. QED
      BY <2>2, <3>1, <3>2
  <2>5. IsFiniteSet(A)
    BY FS_Subset
  <2>6. Cardinality(A \cup {j}) = Len(q) + 2
    <3>1. Cardinality(A \cup {j}) = Cardinality(A) + 1
      BY <2>4, <2>5, FS_AddElement
    <3>. QED
      BY <2>2, <2>3, <3>1
  <2>7. \A a \in A \cup {j} : \E r : Leads(E, r, a) /\ Len(r) <= Len(q) + 1
    <3>1. ASSUME NEW a \in A PROVE \E r : Leads(E, r, a) /\ Len(r) <= Len(q) + 1
      <4>1. PICK r : Leads(E, r, a) /\ Len(r) <= Len(q)
        BY <2>3
      <4>2. Len(r) \in Nat
        BY <4>1, LeadsTyped
      <4>. QED
        BY <2>2, <4>1, <4>2
    <3>2. \E r : Leads(E, r, j) /\ Len(r) <= Len(q) + 1
      <4>1. Leads(E, Append(q, n), j) /\ Len(Append(q, n)) <= Len(q) + 1
        BY <2>2
      <4>. QED
        BY <4>1
    <3>. QED
      BY <3>1, <3>2
  <2>8. Trail(E, U, Append(q, n))
    <3>1. Cardinality(A \cup {j}) = Len(Append(q, n)) + 1
      BY <2>2, <2>6
    <3>2. \A a \in A \cup {j} : \E r : Leads(E, r, a) /\ Len(r) <= Len(Append(q, n))
      BY <2>2, <2>7
    <3>3. A \cup {j} \in SUBSET U
      BY <2>1
    <3>. QED
      BY <3>1, <3>2, <3>3 DEF Trail
  <2>9. <<Append(q, n), j>> \in Universe
    BY DEF Leads
  <2>. QED
    BY <1>1, <2>8, <2>9
<1>. SUFFICES ASSUME NEW p, NEW i, Leads(E, p, i)
              PROVE  Len(p) \in Nat /\ Len(p) < Cardinality(U)
  OBVIOUS
<1>4. <<p, i>> \in S
  BY <1>0, <1>2, <1>3, LeadsInduct
<1>5. PICK A \in SUBSET U : Cardinality(A) = Len(p) + 1
  <2>1. Trail(E, U, p)
    BY <1>1, <1>4
  <2>. QED
    BY <2>1 DEF Trail
<1>6. Len(p) \in Nat
  <2>1. p \in Seq(Names)
    BY LeadsTyped
  <2>. QED
    BY <2>1
<1>7. Cardinality(A) <= Cardinality(U) /\ Cardinality(U) \in Nat
  BY FS_Subset, FS_CardinalityType
<1>. QED
  BY <1>5, <1>6, <1>7

-----------------------------------------------------------------------------
(* The paths the properties look at, found by going on from the root one   *)
(* name at a time, are the paths of the edges.  First of any inodes ino    *)
(* and blocks blks.                                                        *)
Place(p, i) == [path |-> p, inode |-> i]

NamedIn(ino, blks, i) ==
  {e \in Live(IF ino[i].len = 0 THEN {} ELSE blks[ino[i].start]) : e.name \notin Dots}

PathsIn(ino, blks, N) ==
  LET root == [path |-> <<>>, inode |-> Root]
      upTo[k \in 0 .. N] ==
        {root} \cup
          (IF k = 0 THEN {}
           ELSE UNION {{[path |-> Append(x.path, e.name), inode |-> e.inode] :
                          e \in NamedIn(ino, blks, x.inode)} : x \in upTo[k - 1]})
  IN upTo[N]

(* The edges E are the names of what they lead to. *)
NamesAre(ino, blks, E) ==
  /\ EdgeSet(E)
  /\ \A p, i : Leads(E, p, i) =>
       \A n, j : <<i, n, j>> \in E <=> \E e \in NamedIn(ino, blks, i) : e.name = n /\ e.inode = j

FoundIn(E, k) ==
  {Place(x[1], x[2]) :
     x \in {y \in Universe : Leads(E, y[1], y[2]) /\ Len(y[1]) <= k}}

Onward(ino, blks, F) ==
  UNION {{[path |-> Append(x.path, e.name), inode |-> e.inode] :
            e \in NamedIn(ino, blks, x.inode)} : x \in F}

LEMMA IsFound ==
  ASSUME NEW E, NEW k, NEW x
  PROVE  x \in FoundIn(E, k) <=>
           x = Place(x.path, x.inode) /\ Leads(E, x.path, x.inode) /\ Len(x.path) <= k
<1>1. ASSUME x \in FoundIn(E, k)
      PROVE  x = Place(x.path, x.inode) /\ Leads(E, x.path, x.inode) /\ Len(x.path) <= k
  <2>1. PICK y \in Universe :
          x = Place(y[1], y[2]) /\ Leads(E, y[1], y[2]) /\ Len(y[1]) <= k
    BY <1>1 DEF FoundIn
  <2>2. x.path = y[1] /\ x.inode = y[2]
    BY <2>1 DEF Place
  <2>. QED
    BY <2>1, <2>2
<1>2. ASSUME x = Place(x.path, x.inode), Leads(E, x.path, x.inode), Len(x.path) <= k
      PROVE  x \in FoundIn(E, k)
  <2>1. PICK y : y = <<x.path, x.inode>>
    OBVIOUS
  <2>2. y \in Universe
    BY <1>2, <2>1 DEF Leads
  <2>3. x = Place(y[1], y[2]) /\ Leads(E, y[1], y[2]) /\ Len(y[1]) <= k
    BY <1>2, <2>1
  <2>. QED
    BY <2>2, <2>3 DEF FoundIn
<1>. QED
  BY <1>1, <1>2

LEMMA IsOnward ==
  ASSUME NEW ino, NEW blks, NEW F, NEW y
  PROVE  y \in Onward(ino, blks, F) <=>
           \E x \in F : \E e \in NamedIn(ino, blks, x.inode) :
             y = Place(Append(x.path, e.name), e.inode)
  BY DEF Onward, Place

LEMMA FoundFirst ==
  ASSUME NEW E, EdgeSet(E)
  PROVE  FoundIn(E, 0) = {Place(<<>>, Root)}
<1>1. Leads(E, <<>>, Root)
  BY LeadsRoot
<1>2. Place(<<>>, Root) \in FoundIn(E, 0)
  <2>1. PICK x : x = Place(<<>>, Root)
    OBVIOUS
  <2>2. x.path = <<>> /\ x.inode = Root
    BY <2>1 DEF Place
  <2>3. Len(<<>>) = 0
    OBVIOUS
  <2>4. x \in FoundIn(E, 0)
    BY <1>1, <2>1, <2>2, <2>3, IsFound
  <2>. QED
    BY <2>1, <2>4
<1>3. ASSUME NEW x \in FoundIn(E, 0) PROVE x = Place(<<>>, Root)
  <2>1. x = Place(x.path, x.inode) /\ Leads(E, x.path, x.inode) /\ Len(x.path) <= 0
    BY <1>3, IsFound
  <2>2. x.path \in Seq(Names)
    BY <2>1, LeadsTyped
  <2>3. x.path = <<>>
    BY <2>1, <2>2
  <2>4. x.inode = Root
    <3>1. EndsWith(E, x.path, x.inode)
      BY <2>1, LeadsBack
    <3>2. \A q \in Seq(Names), n \in Names : Append(q, n) # <<>>
      BY FrontIs
    <3>. QED
      BY <2>3, <3>1, <3>2 DEF EndsWith
  <2>. QED
    BY <2>1, <2>3, <2>4
<1>. QED
  BY <1>2, <1>3

LEMMA FoundNext ==
  ASSUME NEW E, NEW ino, NEW blks, NamesAre(ino, blks, E), NEW k \in Nat
  PROVE  FoundIn(E, k + 1) = {Place(<<>>, Root)} \cup Onward(ino, blks, FoundIn(E, k))
<1>0. EdgeSet(E)
  BY DEF NamesAre
<1>1. \A p, i : Leads(E, p, i) =>
        \A n, j : <<i, n, j>> \in E <=> \E e \in NamedIn(ino, blks, i) : e.name = n /\ e.inode = j
  BY DEF NamesAre
<1>2. ASSUME NEW y \in FoundIn(E, k + 1)
      PROVE  y \in {Place(<<>>, Root)} \cup Onward(ino, blks, FoundIn(E, k))
  <2>1. /\ y = Place(y.path, y.inode) /\ Leads(E, y.path, y.inode)
        /\ Len(y.path) <= k + 1
    BY <1>2, IsFound
  <2>2. EndsWith(E, y.path, y.inode)
    BY <1>0, <2>1, LeadsBack
  <2>3. CASE y.path = <<>> /\ y.inode = Root
    BY <2>1, <2>3
  <2>4. CASE \E q \in Seq(Names), d \in Inodes, n \in Names :
               Leads(E, q, d) /\ <<d, n, y.inode>> \in E /\ y.path = Append(q, n)
    <3>1. PICK q \in Seq(Names), d \in Inodes, n \in Names :
            Leads(E, q, d) /\ <<d, n, y.inode>> \in E /\ y.path = Append(q, n)
      BY <2>4
    <3>2. Len(q) <= k
      <4>1. Len(Append(q, n)) = Len(q) + 1 /\ Len(q) \in Nat
        BY FrontIs
      <4>. QED
        BY <2>1, <3>1, <4>1
    <3>3. PICK x : x = Place(q, d)
      OBVIOUS
    <3>4. x.path = q /\ x.inode = d
      BY <3>3 DEF Place
    <3>5. x \in FoundIn(E, k)
      BY <3>1, <3>2, <3>3, <3>4, IsFound
    <3>6. PICK e \in NamedIn(ino, blks, d) : e.name = n /\ e.inode = y.inode
      BY <1>1, <3>1
    <3>7. y = Place(Append(x.path, e.name), e.inode)
      BY <2>1, <3>1, <3>4, <3>6
    <3>8. y \in Onward(ino, blks, FoundIn(E, k))
      BY <3>4, <3>5, <3>6, <3>7, IsOnward
    <3>. QED
      BY <3>8
  <2>. QED
    BY <2>2, <2>3, <2>4 DEF EndsWith
<1>3. ASSUME NEW y \in Onward(ino, blks, FoundIn(E, k)) PROVE y \in FoundIn(E, k + 1)
  <2>1. PICK x \in FoundIn(E, k) :
          \E e \in NamedIn(ino, blks, x.inode) : y = Place(Append(x.path, e.name), e.inode)
    BY <1>3, IsOnward
  <2>2. PICK e \in NamedIn(ino, blks, x.inode) : y = Place(Append(x.path, e.name), e.inode)
    BY <2>1
  <2>3. Leads(E, x.path, x.inode) /\ Len(x.path) <= k
    BY IsFound
  <2>4. <<x.inode, e.name, e.inode>> \in E
    BY <1>1, <2>3
  <2>5. Leads(E, Append(x.path, e.name), e.inode)
    BY <1>0, <2>3, <2>4, LeadsOn
  <2>6. Len(Append(x.path, e.name)) <= k + 1
    <3>1. x.path \in Seq(Names) /\ e.name \in Names
      BY <1>0, <2>3, <2>4, LeadsTyped DEF EdgeSet
    <3>2. Len(Append(x.path, e.name)) = Len(x.path) + 1 /\ Len(x.path) \in Nat
      BY <3>1, FrontIs
    <3>. QED
      BY <2>3, <3>2
  <2>7. y.path = Append(x.path, e.name) /\ y.inode = e.inode
    BY <2>2 DEF Place
  <2>. QED
    BY <2>2, <2>5, <2>6, <2>7, IsFound
<1>4. Place(<<>>, Root) \in FoundIn(E, k + 1)
  <2>1. PICK x : x = Place(<<>>, Root)
    OBVIOUS
  <2>2. x.path = <<>> /\ x.inode = Root
    BY <2>1 DEF Place
  <2>3. Len(<<>>) <= k + 1
    OBVIOUS
  <2>4. Leads(E, <<>>, Root)
    BY LeadsRoot
  <2>5. x \in FoundIn(E, k + 1)
    BY <2>1, <2>2, <2>3, <2>4, IsFound
  <2>. QED
    BY <2>1, <2>5
<1>. QED
  BY <1>2, <1>3, <1>4

LEMMA PathsInAre ==
  ASSUME NEW E, NEW ino, NEW blks, NamesAre(ino, blks, E), NEW N \in Nat
  PROVE  PathsIn(ino, blks, N) = FoundIn(E, N)
<1>. DEFINE root == [path |-> <<>>, inode |-> Root]
            Step(f, k) ==
              {root} \cup
                (IF k = 0 THEN {}
                 ELSE UNION {{[path |-> Append(x.path, e.name), inode |-> e.inode] :
                                e \in NamedIn(ino, blks, x.inode)} : x \in f[k - 1]})
            upTo == CHOOSE h : h = [k \in 0 .. N |-> Step(h, k)]
<1>1. EdgeSet(E)
  BY DEF NamesAre
<1>2. PathsIn(ino, blks, N) = upTo[N]
  BY DEF PathsIn
<1>3. \A f : \A k : Step(f, k) = {root} \cup IF k = 0 THEN {} ELSE Onward(ino, blks, f[k - 1])
  BY DEF Onward
<1>4. root = Place(<<>>, Root)
  BY DEF Place
<1>. HIDE DEF Step, root
<1>5. PICK f : f = [k \in 0 .. N |-> FoundIn(E, k)]
  OBVIOUS
<1>6. \A k \in 0 .. N : f[k] = Step(f, k)
  <2>. SUFFICES ASSUME NEW k \in 0 .. N PROVE f[k] = Step(f, k)
    OBVIOUS
  <2>1. CASE k = 0
    BY <1>1, <1>3, <1>4, <1>5, <2>1, FoundFirst
  <2>2. CASE k # 0
    <3>1. k - 1 \in Nat /\ k - 1 \in 0 .. N /\ (k - 1) + 1 = k
      BY <2>2
    <3>2. FoundIn(E, (k - 1) + 1) = {Place(<<>>, Root)} \cup Onward(ino, blks, FoundIn(E, k - 1))
      BY <3>1, FoundNext
    <3>. QED
      BY <1>3, <1>4, <1>5, <2>2, <3>1, <3>2
  <2>. QED
    BY <2>1, <2>2
<1>7. upTo = [k \in 0 .. N |-> Step(upTo, k)]
  <2>1. f = [k \in 0 .. N |-> Step(f, k)]
    BY <1>5, <1>6
  <2>. QED
    BY <2>1
<1>. HIDE DEF upTo
<1>8. \A k \in 0 .. N : upTo[k] = Step(upTo, k)
  BY <1>7
<1>9. upTo[N] = FoundIn(E, N)
  <2>1. PICK T : T = {m \in Nat : m <= N => upTo[m] = FoundIn(E, m)}
    OBVIOUS
  <2>2. 0 \in T
    <3>1. upTo[0] = Step(upTo, 0)
      BY <1>8
    <3>. QED
      BY <1>1, <1>3, <1>4, <2>1, <3>1, FoundFirst
  <2>3. ASSUME NEW m \in Nat, m \in T PROVE m + 1 \in T
    <3>. SUFFICES ASSUME m + 1 <= N PROVE upTo[m + 1] = FoundIn(E, m + 1)
      BY <2>1
    <3>1. upTo[m] = FoundIn(E, m)
      BY <2>1, <2>3
    <3>2. upTo[m + 1] = Step(upTo, m + 1)
      BY <1>8
    <3>3. m + 1 # 0 /\ (m + 1) - 1 = m
      OBVIOUS
    <3>4. upTo[m + 1] = {root} \cup Onward(ino, blks, upTo[m])
      BY <1>3, <3>2, <3>3
    <3>5. FoundIn(E, m + 1) = {Place(<<>>, Root)} \cup Onward(ino, blks, FoundIn(E, m))
      BY FoundNext
    <3>. QED
      BY <1>4, <3>1, <3>4, <3>5
  <2>4. N \in T
    BY <2>2, <2>3, NatSetInduction
  <2>. QED
    BY <2>1, <2>4
<1>. QED
  BY <1>2, <1>9

(* Then of the program's. *)
LEMMA EdgesWalk ==
  ASSUME NoDotsInPaths, TreeIInv
  PROVE  NamesAre(inodes, dirBlocks, EdgesOf)
<1>1. EdgeSet(EdgesOf) /\ \A p, i : Leads(EdgesOf, p, i) => i \in Reached
  BY EdgesAre, ReachedLed DEF Treelike
<1>2. \A i : NamedIn(inodes, dirBlocks, i) = Named(i)
  BY DEF NamedIn, Named, DirEntries
<1>3. \A i \in Reached : \A n, j :
        <<i, n, j>> \in EdgesOf <=> \E e \in Named(i) : e.name = n /\ e.inode = j
  BY NamedEdges
<1>. QED
  BY <1>1, <1>2, <1>3 DEF NamesAre

LEMMA NamedPathsAre ==
  ASSUME NoDotsInPaths, TreeIInv
  PROVE  NamedPaths = FoundIn(EdgesOf, Cardinality(Usable))
<1>1. NamedPaths = PathsIn(inodes, dirBlocks, Cardinality(Usable))
  BY DEF NamedPaths, PathsIn, Named, NamedIn, DirEntries
<1>2. Cardinality(Usable) \in Nat
  BY UsableFinite, FS_CardinalityType DEF TreeIInv
<1>. QED
  BY <1>1, <1>2, EdgesWalk, PathsInAre

LEMMA NamedPathsLed ==
  ASSUME NoDotsInPaths, TreeIInv
  PROVE  /\ \A x : x \in NamedPaths
                  <=> x = Place(x.path, x.inode) /\ Leads(EdgesOf, x.path, x.inode)
         /\ \A p, i : Leads(EdgesOf, p, i) => Len(p) \in Nat /\ Len(p) < Cardinality(Usable)
         /\ Cardinality(Usable) \in Nat
<1>1. \A p, i : Leads(EdgesOf, p, i) => Len(p) \in Nat /\ Len(p) < Cardinality(Usable)
  <2>1. \A p, i : Leads(EdgesOf, p, i) => i \in Usable
    BY ReachedLed, TreeMeans
  <2>2. IsFiniteSet(Usable)
    BY UsableFinite DEF TreeIInv
  <2>3. Treelike(EdgesOf)
    BY EdgesAre
  <2>. QED
    BY <2>1, <2>2, <2>3, PathsShort
<1>2. Cardinality(Usable) \in Nat
  BY UsableFinite, FS_CardinalityType DEF TreeIInv
<1>3. \A x : Leads(EdgesOf, x.path, x.inode) => Len(x.path) <= Cardinality(Usable)
  BY <1>1, <1>2
<1>4. \A x : x \in NamedPaths <=> x = Place(x.path, x.inode) /\ Leads(EdgesOf, x.path, x.inode)
  BY <1>3, NamedPathsAre, IsFound
<1>. QED
  BY <1>1, <1>2, <1>4

(* The program's tree is the tree of its edges.                            *)
LEMMA TreeIs ==
  NoDotsInPaths /\ TreeIInv => IsTreeOf(Tree, EdgesOf, NodesOf)
<1>. SUFFICES ASSUME NoDotsInPaths, TreeIInv PROVE IsTreeOf(Tree, EdgesOf, NodesOf)
  OBVIOUS
<1>1. Treelike(EdgesOf)
  BY EdgesAre
<1>2. \A x : x \in NamedPaths <=> x = Place(x.path, x.inode) /\ Leads(EdgesOf, x.path, x.inode)
  BY NamedPathsLed
<1>3. PICK F : F = NamedPaths
  OBVIOUS
<1>4. \A p, i : Leads(EdgesOf, p, i) <=> \E x \in F : x.path = p /\ x.inode = i
  <2>. SUFFICES ASSUME NEW p, NEW i
                PROVE  Leads(EdgesOf, p, i) <=> \E x \in F : x.path = p /\ x.inode = i
    OBVIOUS
  <2>1. PICK y : y = Place(p, i)
    OBVIOUS
  <2>2. y.path = p /\ y.inode = i
    BY <2>1 DEF Place
  <2>. QED
    BY <1>2, <1>3, <2>1, <2>2
<1>5. Tree = [p \in {x.path : x \in F} |->
                NodeOf(inodes[(CHOOSE x \in F : x.path = p).inode])]
  BY <1>3 DEF Tree
<1>6. \A p : p \in DOMAIN Tree <=> \E i : Leads(EdgesOf, p, i)
  BY <1>4, <1>5, ZenonT(60)
<1>7. \A p, i : Leads(EdgesOf, p, i) => Tree[p] = NodesOf[i]
  <2>. SUFFICES ASSUME NEW p, NEW i, Leads(EdgesOf, p, i) PROVE Tree[p] = NodesOf[i]
    OBVIOUS
  <2>1. PICK c : c = CHOOSE x \in F : x.path = p
    OBVIOUS
  <2>2. c \in F /\ c.path = p
    BY <1>4, <2>1
  <2>3. Leads(EdgesOf, p, c.inode)
    BY <1>2, <1>3, <2>2
  <2>4. c.inode = i
    BY <1>1, <2>3, OnePathOneInode
  <2>5. Tree[p] = NodeOf(inodes[c.inode])
    BY <1>5, <1>6, <2>1
  <2>6. i \in Inodes
    BY LeadsTyped
  <2>. QED
    BY <2>4, <2>5, <2>6 DEF NodesOf
<1>8. Tree = [p \in DOMAIN Tree |-> Tree[p]]
  BY <1>5
<1>. QED
  BY <1>6, <1>7, <1>8 DEF IsTreeOf

-----------------------------------------------------------------------------
(* The tree, the edges and the nodes on the two sides of a step.           *)
Sides(t, u, E, E2, K, K2) ==
  /\ t = Tree /\ u = Tree' /\ IsTreeOf(t, E, K) /\ IsTreeOf(u, E2, K2)
  /\ Treelike(E) /\ Treelike(E2)
  /\ \A d, n, i : <<d, n, i>> \in E
       <=> d \in DirRecs /\ n \in Names /\ i \in Inodes /\ Refers(Block(d), n, i)
  /\ \A d, n, i : <<d, n, i>> \in E2
       <=> d \in DirRecs' /\ n \in Names /\ i \in Inodes /\ Refers(Block(d)', n, i)
  /\ \A p, i : Leads(E, p, i) => i \in Reached /\ i \in Usable /\ i \in Inodes
  /\ \A i \in Reached : \E p : Leads(E, p, i)
  /\ \A i \in Inodes : K[i] = NodeOf(inodes[i]) /\ K2[i] = NodeOf(inodes'[i])

LEMMA StepSides ==
  ASSUME NoDotsInPaths, TreeIInv, TreeIInv'
  PROVE  \E t, u, E, E2, K, K2 :
           Sides(t, u, E, E2, K, K2) /\ E = EdgesOf /\ E2 = EdgesOf'
<1>1. PICK t, u, E, E2, K, K2 :
        /\ t = Tree /\ u = Tree' /\ E = EdgesOf /\ E2 = EdgesOf'
        /\ K = NodesOf /\ K2 = NodesOf'
  OBVIOUS
<1>2. IsTreeOf(t, E, K)
  BY <1>1, TreeIs
<1>3. IsTreeOf(u, E2, K2)
  <2>1. (NoDotsInPaths /\ TreeIInv => IsTreeOf(Tree, EdgesOf, NodesOf))'
    BY TreeIs, PTL
  <2>2. NoDotsInPaths'
    BY DEF NoDotsInPaths
  <2>. QED
    BY <1>1, <2>1, <2>2
<1>4. /\ Treelike(E)
      /\ \A d, n, i : <<d, n, i>> \in E
           <=> d \in DirRecs /\ n \in Names /\ i \in Inodes /\ Refers(Block(d), n, i)
  BY <1>1, EdgesAre
<1>5. /\ Treelike(E2)
      /\ \A d, n, i : <<d, n, i>> \in E2
           <=> d \in DirRecs' /\ n \in Names /\ i \in Inodes /\ Refers(Block(d)', n, i)
  <2>1. (NoDotsInPaths /\ TreeIInv =>
          /\ Treelike(EdgesOf)
          /\ \A d, n, i : <<d, n, i>> \in EdgesOf
               <=> d \in DirRecs /\ n \in Names /\ i \in Inodes /\ Refers(Block(d), n, i))'
    BY EdgesAre, PTL
  <2>2. NoDotsInPaths'
    BY DEF NoDotsInPaths
  <2>. QED
    BY <1>1, <2>1, <2>2
<1>6. \A p, i : Leads(E, p, i) => i \in Reached /\ i \in Usable /\ i \in Inodes
  BY <1>1, ReachedLed, TreeMeans, UsableInodes DEF TreeIInv
<1>7. \A i \in Reached : \E p : Leads(E, p, i)
  BY <1>1, ReachedLed
<1>8. \A i \in Inodes : K[i] = NodeOf(inodes[i]) /\ K2[i] = NodeOf(inodes'[i])
  BY <1>1 DEF NodesOf
<1>9. t = Tree /\ u = Tree'
  BY <1>1
<1>. QED
  BY <1>1, <1>2, <1>3, <1>4, <1>5, <1>6, <1>7, <1>8, <1>9 DEF Sides

(* A node shows the kind and, but for a directory, the size.               *)
LEMMA NodeSame ==
  ASSUME NEW r1, NEW r2, r1.kind = r2.kind, r1.size = r2.size
  PROVE  NodeOf(r1) = NodeOf(r2)
  BY DEF NodeOf

(* Entries and nodes as before: the tree is as before.                     *)
LEMMA TreeStays ==
  ASSUME NoDotsInPaths, TreeIInv, TreeIInv',
         \A d \in DirRecs : d \in DirRecs' /\ \A n \in Names, i \in Inodes :
           Refers(Block(d)', n, i) <=> Refers(Block(d), n, i),
         \A d \in DirRecs' \ DirRecs : \A n \in Names, i \in Inodes : ~ Refers(Block(d)', n, i),
         \A i \in Usable : inodes'[i].kind = inodes[i].kind /\ inodes'[i].size = inodes[i].size
  PROVE  Tree' = Tree
<1>1. PICK t, u, E, E2, K, K2 : Sides(t, u, E, E2, K, K2)
  BY StepSides
<1>2. /\ t = Tree /\ u = Tree' /\ IsTreeOf(t, E, K) /\ IsTreeOf(u, E2, K2)
      /\ Treelike(E) /\ Treelike(E2)
      /\ \A d, n, i : <<d, n, i>> \in E
           <=> d \in DirRecs /\ n \in Names /\ i \in Inodes /\ Refers(Block(d), n, i)
      /\ \A d, n, i : <<d, n, i>> \in E2
           <=> d \in DirRecs' /\ n \in Names /\ i \in Inodes /\ Refers(Block(d)', n, i)
      /\ \A p, i : Leads(E, p, i) => i \in Reached /\ i \in Usable /\ i \in Inodes
      /\ \A i \in Inodes : K[i] = NodeOf(inodes[i]) /\ K2[i] = NodeOf(inodes'[i])
  BY <1>1 DEF Sides
<1>3. E2 = E
  <2>1. \A d, n, i : <<d, n, i>> \in E2 <=> <<d, n, i>> \in E
    BY <1>2
  <2>2. E2 \subseteq Inodes \X Names \X Inodes /\ E \subseteq Inodes \X Names \X Inodes
    BY <1>2 DEF Treelike, EdgeSet
  <2>. QED
    BY <2>1, <2>2
<1>4. \A p, i : Leads(E, p, i) => K2[i] = K[i]
  BY <1>2, NodeSame
<1>5. u = t
  BY <1>2, <1>3, <1>4, TreesEqual
<1>. QED
  BY <1>2, <1>5

(* What a call makes of the tree, by what it returns.                      *)
Promised ==
  /\ outcome' = "ok" => Promise!Change(Tree, Tree')
  /\ outcome' = "same" => Tree' = Tree
  /\ outcome' \notin {"ok", "same"} => Promise!Failure(Tree, Tree')

LEMMA StaysIsPromised ==
  ASSUME Tree' = Tree, outcome' # "ok" PROVE Promised
  BY DEF Promised, Promise!Failure

LEMMA DiskKeepsTree ==
  ASSUME NoDotsInPaths, TreeIInv, TreeIInv', UNCHANGED disk
  PROVE  Tree' = Tree
<1>1. UNCHANGED <<inodeBitmap, inodes, dirBlocks>>
  BY DEF disk
<1>2. DirRecs' = DirRecs
  BY <1>1 DEF DirRecs, Usable
<1>3. \A d : Block(d)' = Block(d)
  BY <1>1 DEF Block
<1>. QED
  BY <1>1, <1>2, <1>3, TreeStays

LEMMA IdlePromised ==
  ASSUME NoDotsInPaths, TreeIInv, TreeIInv',
         \/ Refuse \/ NoInodeLeft \/ Reopen
         \/ outcome' = "same" /\ UNCHANGED <<disk, diskCounts, counts>>
  PROVE  Promised /\ Tree' = Tree
<1>1. UNCHANGED disk /\ outcome' # "ok"
  BY DEF Refuse, NoInodeLeft, Reopen
<1>. QED
  BY <1>1, DiskKeepsTree, StaysIsPromised

-----------------------------------------------------------------------------
(* create_file, mkdir and symlink: what became of the name asked for in d. *)
Inserted(d, name, node) ==
  /\ outcome' \in {"ok", "refused", "nospace", "full"}
  /\ outcome' # "ok" => Tree' = Tree
  /\ outcome' = "refused" => ~ CanInsert(d, name)
  /\ outcome' = "ok" =>
       \A p : Leads(EdgesOf, p, d) => Tree' = Promise!With(Tree, Append(p, name), node)

LEMMA SidesEdges ==
  ASSUME NoDotsInPaths, TreeIInv, NEW t, NEW u, NEW E, NEW E2, NEW K, NEW K2,
         Sides(t, u, E, E2, K, K2)
  PROVE  E = EdgesOf
<1>1. EdgeSet(E) /\ EdgeSet(EdgesOf)
  BY EdgesAre DEF Sides, Treelike
<1>2. \A d, n, i : <<d, n, i>> \in E <=> <<d, n, i>> \in EdgesOf
  BY EdgesAre DEF Sides
<1>. QED
  BY <1>1, <1>2 DEF EdgeSet

LEMMA BitPromised ==
  ASSUME NoDotsInPaths, TreeIInv, TreeIInv', NEW i \in Inodes, i \notin inodeBitmap, NEW n,
         NoRunLeft(i, n)
  PROVE  Promised /\ Tree' = Tree
<1>0. IInv
  BY DEF TreeIInv
<1>1. UNCHANGED <<inodes, dirBlocks>> /\ inodeBitmap' = inodeBitmap \cup {i}
      /\ outcome' = "nospace"
  BY DEF NoRunLeft
<1>2. i \notin Usable /\ Usable' = Usable \cup {i}
  <2>1. i \notin Reserved /\ i # Root
    BY <1>0 DEF IInv, MetadataMarked, Reserved, Root
  <2>. QED
    BY <1>1, <2>1 DEF Usable
<1>3. inodes[i].len = 0
  BY <1>0, <1>2 DEF IInv, FreedBlank
<1>4. DirRecs' = DirRecs
  BY <1>1, <1>2, <1>3 DEF DirRecs
<1>5. \A k : Block(k)' = Block(k)
  BY <1>1 DEF Block
<1>6. Tree' = Tree
  BY <1>1, <1>4, <1>5, TreeStays
<1>. QED
  BY <1>1, <1>6, StaysIsPromised

LEMMA PlacedMakes ==
  ASSUME NoDotsInPaths, TreeIInv, TreeIInv', NEW i \in Inodes, NEW d, NEW name, NEW rec,
         Placed(i, d, name, rec), NEW added \in BOOLEAN, d \in Reached,
         IF added THEN Linked(i, d, name, rec) ELSE ParentFull(i, d, name, rec),
         NodeOf(rec) \in Promise!NewNodes
  PROVE  /\ Promised
         /\ IF added
              THEN /\ outcome' = "ok"
                   /\ \A p : Leads(EdgesOf, p, d) =>
                        Tree' = Promise!With(Tree, Append(p, name), NodeOf(rec))
              ELSE outcome' = "full" /\ Tree' = Tree
<1>0. NoDotsInPaths /\ IInv
  BY DEF TreeIInv
<1>1. /\ d \in DirRecs /\ i \notin Usable /\ i \notin DirRecs /\ name \in Names
      /\ \A e \in Block(d) : e.name # name
      /\ DirRecs' = DirRecs \cup (IF rec.kind = "dir" THEN {i} ELSE {})
      /\ inodes'[i] = rec
      /\ \A j \in Inodes \ {i} : inodes'[j].kind = inodes[j].kind
                                 /\ inodes'[j].size = inodes[j].size
  BY DEF Placed, NewInode, DirRecs
<1>2. Usable \subseteq Inodes
  BY <1>0, UsableInodes
<1>3. \A k \in DirRecs : \A n, j :
        Refers(Block(k)', n, j) <=> \/ Refers(Block(k), n, j)
                                    \/ added /\ k = d /\ n = name /\ j = i
  <2>1. \A k \in DirRecs : \A n, j, f :
          Lists(Block(k)', n, j, f)
            <=> \/ Lists(Block(k), n, j, f)
                \/ added /\ k = d /\ n = name /\ j = i /\ f = FtOf(rec.kind)
    BY <1>0, PlacedLists
  <2>. QED
    BY <2>1, RefersLists
<1>4. i \in DirRecs' => \A n \in Names : \A j : ~ Refers(Block(i)', n, j)
  <2>1. rec.kind = "dir" => Block(i)' = FreshBlock(i, d)
    BY <1>0, PlacedLists
  <2>2. \A n, j, f : Lists(FreshBlock(i, d), n, j, f) => n = "." \/ n = ".."
    BY FreshLists
  <2>3. \A n \in Names : n # "." /\ n # ".."
    BY <1>0, Constants
  <2>. QED
    BY <1>1, <2>1, <2>2, <2>3, RefersLists
<1>5. CASE ~ added
  <2>1. outcome' = "full"
    BY <1>5 DEF ParentFull
  <2>2. \A j \in Usable : inodes'[j].kind = inodes[j].kind /\ inodes'[j].size = inodes[j].size
    BY <1>1, <1>2
  <2>3. \A k \in DirRecs : k \in DirRecs' /\ \A n \in Names, j \in Inodes :
          Refers(Block(k)', n, j) <=> Refers(Block(k), n, j)
    BY <1>1, <1>3, <1>5
  <2>4. \A k \in DirRecs' \ DirRecs : \A n \in Names, j \in Inodes : ~ Refers(Block(k)', n, j)
    BY <1>1, <1>4
  <2>5. Tree' = Tree
    BY <2>2, <2>3, <2>4, TreeStays
  <2>. QED
    BY <1>5, <2>1, <2>5, StaysIsPromised
<1>6. CASE added
  <2>1. outcome' = "ok"
    BY <1>6 DEF Linked
  <2>2. PICK t, u, E, E2, K, K2 : Sides(t, u, E, E2, K, K2)
    BY StepSides
  <2>3. /\ t = Tree /\ u = Tree' /\ IsTreeOf(t, E, K) /\ IsTreeOf(u, E2, K2)
        /\ Treelike(E) /\ Treelike(E2)
        /\ \A a, n, j : <<a, n, j>> \in E
             <=> a \in DirRecs /\ n \in Names /\ j \in Inodes /\ Refers(Block(a), n, j)
        /\ \A a, n, j : <<a, n, j>> \in E2
             <=> a \in DirRecs' /\ n \in Names /\ j \in Inodes /\ Refers(Block(a)', n, j)
        /\ \A p, j : Leads(E, p, j) => j \in Reached /\ j \in Usable /\ j \in Inodes
        /\ \A j \in Reached : \E p : Leads(E, p, j)
        /\ \A j \in Inodes : K[j] = NodeOf(inodes[j]) /\ K2[j] = NodeOf(inodes'[j])
    BY <2>2 DEF Sides
  <2>4. PICK pd : Leads(E, pd, d)
    BY <2>3
  <2>5. \A a, n, j : <<a, n, j>> \in E2 <=> <<a, n, j>> \in E \/ (a = d /\ n = name /\ j = i)
    <3>. SUFFICES ASSUME NEW a, NEW n, NEW j
                  PROVE  <<a, n, j>> \in E2
                           <=> <<a, n, j>> \in E \/ (a = d /\ n = name /\ j = i)
      OBVIOUS
    <3>1. CASE a \in DirRecs
      <4>1. Refers(Block(a)', n, j)
              <=> Refers(Block(a), n, j) \/ (a = d /\ n = name /\ j = i)
        BY <1>3, <1>6, <3>1
      <4>2. a \in DirRecs'
        BY <1>1, <3>1
      <4>3. <<a, n, j>> \in E2 <=> n \in Names /\ j \in Inodes /\ Refers(Block(a)', n, j)
        BY <2>3, <4>2
      <4>4. <<a, n, j>> \in E <=> n \in Names /\ j \in Inodes /\ Refers(Block(a), n, j)
        BY <2>3, <3>1
      <4>. QED
        BY <1>1, <4>1, <4>3, <4>4
    <3>2. CASE a \notin DirRecs
      <4>1. <<a, n, j>> \notin E /\ a # d
        BY <1>1, <2>3, <3>2
      <4>2. <<a, n, j>> \notin E2
        BY <1>1, <1>4, <2>3, <3>2
      <4>. QED
        BY <4>1, <4>2
    <3>. QED
      BY <3>1, <3>2
  <2>6. \A n, j : <<i, n, j>> \notin E2
    BY <1>4, <2>3
  <2>7. Grows(E, E2, d, name, i)
    BY <2>3, <2>5, <2>6 DEF Grows, Treelike
  <2>8. K[d].kind = "dir"
    <3>1. d \in Inodes /\ inodes[d].kind = "dir"
      BY <1>1, <1>2 DEF DirRecs
    <3>2. K[d] = NodeOf(inodes[d])
      BY <2>3, <3>1
    <3>. QED
      BY <3>1, <3>2 DEF NodeOf
  <2>9. \A j : <<d, name, j>> \notin E
    BY <1>1, <2>3 DEF Refers
  <2>10. \A p : ~ Leads(E, p, i)
    BY <1>1, <2>3
  <2>11. \A p, j : Leads(E, p, j) => K2[j] = K[j]
    BY <1>1, <2>3, NodeSame
  <2>12. K2[i] \in Promise!NewNodes
    BY <1>1, <2>3
  <2>13. \A p : Leads(E, p, d) => Promise!Make(t, u)
                                 /\ u = Promise!With(t, Append(p, name), K2[i])
    BY <2>3, <2>7, <2>8, <2>9, <2>10, <2>11, <2>12, TreeMakes
  <2>14. Promised
    BY <2>1, <2>3, <2>4, <2>13 DEF Promised, Promise!Change
  <2>15. K2[i] = NodeOf(rec)
    BY <1>1, <2>3
  <2>16. E = EdgesOf
    BY <2>2, SidesEdges
  <2>. QED
    BY <1>6, <2>1, <2>3, <2>13, <2>14, <2>15, <2>16
<1>. QED
  BY <1>5, <1>6

LEMMA InsertPromised ==
  ASSUME NoDotsInPaths, TreeIInv, TreeIInv', NEW path \in Paths, NEW name \in PathNames,
         NEW kind, NEW links \in Nat, NEW size, NEW n, Shape(kind, size, n),
         kind = "reg" => size \in FileSizes, kind = "lnk" => size \in TargetSizes,
         Insert(OpenPath(path), name, kind, links, size, n)
  PROVE  /\ Promised
         /\ Inserted(OpenPath(path), name,
                     Promise!Node(kind, IF kind = "dir" THEN 0 ELSE size))
<1>. DEFINE d == OpenPath(path)
            node == Promise!Node(kind, IF kind = "dir" THEN 0 ELSE size)
            Done == Promised /\ Inserted(d, name, node)
<1>0. NoDotsInPaths /\ IInv /\ TreeNow
  BY DEF TreeIInv, TreeParts
<1>1. CASE (~ CanInsert(d, name) /\ Refuse) \/ NoInodeLeft
  <2>1. Promised /\ Tree' = Tree
    BY <1>1, IdlePromised
  <2>. QED
    BY <1>1, <2>1 DEF Inserted, Refuse, NoInodeLeft
<1>2. ASSUME NEW i \in Inodes, FirstFreeInode(i), NoRunLeft(i, n) PROVE Done
  <2>1. Promised /\ Tree' = Tree
    BY <1>2, FirstFreeIsFree, BitPromised
  <2>. QED
    BY <1>2, <2>1 DEF Inserted, NoRunLeft
<1>3. ASSUME CanInsert(d, name), NEW i \in Inodes, FirstFreeInode(i),
             NEW s \in Blocks, Allocates(n, s), NEW rec,
             rec = Inode(kind, links, size, s, n),
             NEW added \in BOOLEAN,
             IF added THEN Linked(i, d, name, rec) ELSE ParentFull(i, d, name, rec)
      PROVE  Done
  <2>1. Placed(i, d, name, rec)
    BY <1>0, <1>3, NewObject
  <2>2. d \in Reached
    BY <1>0, <1>3, FoundReached DEF CanInsert
  <2>. HIDE DEF d
  <2>3. NodeOf(rec) \in Promise!NewNodes /\ NodeOf(rec) = node
    <3>1. rec.kind = kind /\ rec.size = size
      BY <1>3 DEF Inode
    <3>. QED
      BY <3>1 DEF NodeOf, Shape, Promise!NewNodes, Promise!Node
  <2>. HIDE DEF node
  <2>4. /\ Promised
        /\ IF added
             THEN /\ outcome' = "ok"
                  /\ \A p : Leads(EdgesOf, p, d) =>
                       Tree' = Promise!With(Tree, Append(p, name), NodeOf(rec))
             ELSE outcome' = "full" /\ Tree' = Tree
    BY <1>3, <2>1, <2>2, <2>3, PlacedMakes
  <2>. QED
    BY <2>3, <2>4 DEF Inserted
<1>4. ASSUME CanInsert(d, name), NEW i \in Inodes, FirstFreeInode(i),
             NEW s \in Blocks, Allocates(n, s),
             \/ ParentFull(i, d, name, Inode(kind, links, size, s, n))
             \/ Linked(i, d, name, Inode(kind, links, size, s, n))
      PROVE  Done
  <2>1. \E added \in BOOLEAN :
          IF added THEN Linked(i, d, name, Inode(kind, links, size, s, n))
                   ELSE ParentFull(i, d, name, Inode(kind, links, size, s, n))
    BY <1>4
  <2>. QED
    BY <1>3, <1>4, <2>1
<1>. QED
  BY <1>1, <1>2, <1>4 DEF Insert

-----------------------------------------------------------------------------
(* unlink, rmdir, and the rename that lost its destination: a leaf goes.   *)
Leaf(d, name, t) ==
  /\ d \in DirRecs /\ name \in Names /\ t \in Usable /\ t # d
  /\ Refers(Block(d), name, t)
  /\ t \in DirRecs => IsEmptyDir(t)
  /\ FreesInode(t) /\ dirBlocks' = WithoutEntry(d, t, name)

LEMMA LeafPrunes ==
  ASSUME NoDotsInPaths, TreeIInv, TreeIInv', NEW d, NEW name, NEW t, Leaf(d, name, t),
         NEW tt, NEW u, NEW E, NEW E2, NEW K, NEW K2, Sides(tt, u, E, E2, K, K2)
  PROVE  Prunes(tt, u, E, E2, K, K2, d, name, t) /\ \E p : Leads(E, p, t)
<1>0. NoDotsInPaths /\ IInv /\ TreeNow
  BY DEF TreeIInv, TreeParts
<1>1. /\ d \in DirRecs /\ name \in Names /\ t \in Usable /\ t # d /\ Refers(Block(d), name, t)
      /\ t \in DirRecs => IsEmptyDir(t)
      /\ FreesInode(t) /\ dirBlocks' = WithoutEntry(d, t, name)
  BY DEF Leaf
<1>2. /\ IsTreeOf(tt, E, K) /\ IsTreeOf(u, E2, K2) /\ Treelike(E) /\ Treelike(E2)
      /\ \A a, n, j : <<a, n, j>> \in E
           <=> a \in DirRecs /\ n \in Names /\ j \in Inodes /\ Refers(Block(a), n, j)
      /\ \A a, n, j : <<a, n, j>> \in E2
           <=> a \in DirRecs' /\ n \in Names /\ j \in Inodes /\ Refers(Block(a)', n, j)
      /\ \A p, j : Leads(E, p, j) => j \in Reached /\ j \in Usable /\ j \in Inodes
      /\ \A j \in Reached : \E p : Leads(E, p, j)
      /\ \A j \in Inodes : K[j] = NodeOf(inodes[j]) /\ K2[j] = NodeOf(inodes'[j])
  BY DEF Sides
<1>3. Usable \subseteq Inodes /\ DirRecs \subseteq Usable /\ t \in Inodes
  BY <1>0, <1>1, UsableInodes
<1>4. <<d, name, t>> \in E
  BY <1>1, <1>2, <1>3
<1>5. t # Root
  BY <1>2, <1>4 DEF Treelike
<1>6. DirRecs' = DirRecs \ {t}
  BY <1>0, <1>1, <1>5, FreedOwns
<1>7. t \in KidsOf[d] /\ KidsOf[t] = {} /\ t \in Reached
  <2>1. t \in KidsOf[d]
    BY <1>1, <1>3 DEF KidsOf
  <2>2. KidsOf[t] = {}
    BY <1>0, <1>1, <1>3, EmptyKids
  <2>3. KidsOf[d] \subseteq Reached
    BY <1>0, <1>1, ReachedResolves
  <2>. QED
    BY <2>1, <2>2, <2>3
<1>8. \A m, j : <<t, m, j>> \notin E
  BY <1>2, <1>3, <1>7 DEF KidsOf
<1>9. \A k \in DirRecs \ {t} : \A n, j :
        Refers(Block(k)', n, j) <=> Refers(Block(k), n, j) /\ ~ (k = d /\ n = name)
  <2>1. AllSound(dirBlocks) /\ \A k : At(dirBlocks, k) = Block(k)
    BY <1>0, InvIsSound DEF At, Block
  <2>2. dirBlocks' = RemovedAt(dirBlocks, d, t, name)
    BY <1>1 DEF WithoutEntry, RemovedAt
  <2>3. \A k \in DirRecs \ {t} : Block(k)' = At(dirBlocks', k)
    BY <1>1, <1>3 DEF Block, At, FreesInode
  <2>4. \A k \in DirRecs : \A n, j, f :
          Lists(At(RemovedAt(dirBlocks, d, t, name), k), n, j, f)
            <=> Lists(At(dirBlocks, k), n, j, f) /\ ~ (k = d /\ n = name)
    BY <1>0, <1>1, <1>3, <2>1, RemovedLists
  <2>5. \A k \in DirRecs \ {t} : \A n, j, f :
          Lists(Block(k)', n, j, f) <=> Lists(Block(k), n, j, f) /\ ~ (k = d /\ n = name)
    BY <2>1, <2>2, <2>3, <2>4
  <2>. QED
    BY <2>5, RefersLists
<1>10. \A a, m, j : <<a, m, j>> \in E => (a = d /\ m = name <=> j = t)
  BY <1>2, <1>4 DEF Treelike
<1>11. \A a, m, j : <<a, m, j>> \in E2 <=> <<a, m, j>> \in E /\ j # t
  <2>. SUFFICES ASSUME NEW a, NEW m, NEW j
                PROVE  <<a, m, j>> \in E2 <=> <<a, m, j>> \in E /\ j # t
    OBVIOUS
  <2>1. CASE a \in DirRecs \ {t}
    <3>1. Refers(Block(a)', m, j) <=> Refers(Block(a), m, j) /\ ~ (a = d /\ m = name)
      BY <1>9, <2>1
    <3>2. <<a, m, j>> \in E2 <=> m \in Names /\ j \in Inodes /\ Refers(Block(a)', m, j)
      BY <1>2, <1>6, <2>1
    <3>3. <<a, m, j>> \in E <=> m \in Names /\ j \in Inodes /\ Refers(Block(a), m, j)
      BY <1>2, <2>1
    <3>. QED
      BY <1>10, <3>1, <3>2, <3>3
  <2>2. CASE a \notin DirRecs \ {t}
    BY <1>2, <1>6, <1>8, <2>2
  <2>. QED
    BY <2>1, <2>2
<1>12. \A p, j : Leads(E, p, j) /\ j # t => K2[j] = K[j]
  <2>. SUFFICES ASSUME NEW p, NEW j, Leads(E, p, j), j # t PROVE K2[j] = K[j]
    OBVIOUS
  <2>1. j \in Inodes
    BY <1>2
  <2>2. inodes'[j].kind = inodes[j].kind /\ inodes'[j].size = inodes[j].size
    BY <1>1, <2>1 DEF FreesInode
  <2>. QED
    BY <1>2, <2>1, <2>2, NodeSame
<1>13. \E p : Leads(E, p, t)
  BY <1>2, <1>7
<1>14. Prunes(tt, u, E, E2, K, K2, d, name, t)
  BY <1>2, <1>4, <1>8, <1>11, <1>12 DEF Prunes, Treelike
<1>. QED
  BY <1>13, <1>14

LEMMA LeafPromised ==
  ASSUME NoDotsInPaths, TreeIInv, TreeIInv', NEW d, NEW name, NEW t, Leaf(d, name, t)
  PROVE  /\ outcome' = "ok" => Promised
         /\ outcome' = "full" /\ ~ IsDir(t) => Promised
<1>1. PICK tt, u, E, E2, K, K2 : Sides(tt, u, E, E2, K, K2)
  BY StepSides
<1>2. Prunes(tt, u, E, E2, K, K2, d, name, t)
  BY <1>1, LeafPrunes
<1>3. PICK p : Leads(E, p, t)
  BY <1>1, LeafPrunes
<1>4. tt = Tree /\ u = Tree'
  BY <1>1 DEF Sides
<1>5. Promise!Drop(tt, u)
  BY <1>2, <1>3, TreePrunes
<1>6. ~ IsDir(t) => Promise!LoseTarget(tt, u)
  <2>. SUFFICES ASSUME ~ IsDir(t) PROVE Promise!LoseTarget(tt, u)
    OBVIOUS
  <2>1. t \in Inodes /\ K[t] = NodeOf(inodes[t])
    BY <1>1, <1>3 DEF Sides
  <2>2. K[t].kind # "dir"
    BY <2>1 DEF IsDir, NodeOf
  <2>. QED
    BY <1>2, <1>3, <2>2, TreeLoses
<1>. QED
  BY <1>4, <1>5, <1>6 DEF Promised, Promise!Change, Promise!Failure

LEMMA UnlinkLeaf ==
  ASSUME NoDotsInPaths, TreeIInv, NEW path \in Paths, NEW name \in PathNames,
         Unlink(path, name), NEW d, d = OpenPath(path), NEW t, t = Found(d, name)
  PROVE  Refuse \/ (Leaf(d, name, t) /\ outcome' = "ok")
<1>0. NoDotsInPaths /\ IInv
  BY DEF TreeIInv
<1>1. CASE Refuse
  BY <1>1
<1>2. CASE /\ t \in Inodes /\ ~ IsDir(t)
           /\ blockBitmap' = blockBitmap \ OwnRun(inodes[t])
           /\ inodeBitmap' = inodeBitmap \ {t}
           /\ inodes' = [inodes EXCEPT ![t] = Deleted(@)]
           /\ dirBlocks' = WithoutEntry(d, t, name)
           /\ counts' = Freed(counts, inodes[t])
           /\ Flush /\ outcome' = "ok"
  <2>1. t # NoInode
    BY <1>0, <1>2, Constants DEF NoInode
  <2>2. d \in DirRecs /\ Refers(Block(d), name, t) /\ Resolved(t)
    BY <1>0, <2>1, FoundResolves
  <2>3. t \in Usable /\ t # d /\ t \notin DirRecs
    BY <1>0, <1>2, <2>2, UsableInodes DEF Resolved, DirRecs, IsDir
  <2>4. inodes \in [Inodes -> InodeType]
    BY <1>0 DEF IInv, TypeOK
  <2>5. FreesInode(t)
    <3>1. Deleted(inodes[t]) \in InodeType /\ Deleted(inodes[t]).kind = inodes[t].kind
          /\ Deleted(inodes[t]).size = 0 /\ Deleted(inodes[t]).len = 0
      BY <1>0, <1>2, <2>4, DeletedType
    <3>. QED
      BY <1>2, <2>4, <3>1 DEF FreesInode
  <2>6. name \in Names
    BY <1>0, Constants
  <2>7. Leaf(d, name, t)
    BY <1>2, <2>2, <2>3, <2>5, <2>6 DEF Leaf
  <2>. QED
    BY <1>2, <2>7
<1>. QED
  BY <1>1, <1>2 DEF Unlink, Found

LEMMA RmdirLeaf ==
  ASSUME NoDotsInPaths, TreeIInv, NEW path \in Paths, NEW name \in PathNames,
         Rmdir(path, name), NEW d, d = OpenPath(path), NEW t, t = Found(d, name)
  PROVE  Refuse \/ (Leaf(d, name, t) /\ outcome' = "ok")
<1>0. NoDotsInPaths /\ IInv
  BY DEF TreeIInv
<1>1. CASE Refuse
  BY <1>1
<1>2. CASE /\ t # Root /\ IsDir(t) /\ IsEmptyDir(t)
           /\ blockBitmap' = blockBitmap \ OwnRun(inodes[t])
           /\ inodeBitmap' = inodeBitmap \ {t}
           /\ inodes' = [inodes EXCEPT
                           ![t] = Deleted(@),
                           ![d] = [inodes[d] EXCEPT !.links = SatSub(@, 1)]]
           /\ dirBlocks' = WithoutEntry(d, t, name)
           /\ counts' = [Freed(counts, inodes[t]) EXCEPT !.usedDirs = SatSub(@, 1)]
           /\ Flush /\ outcome' = "ok"
  <2>1. t # NoInode /\ t \in Inodes
    BY <1>0, <1>2, Constants DEF NoInode, IsDir
  <2>2. d \in DirRecs /\ Refers(Block(d), name, t) /\ Resolved(t)
    BY <1>0, <2>1, FoundResolves
  <2>3. t \in Usable /\ d \in Inodes
    BY <1>0, <2>2, UsableInodes DEF Resolved
  <2>4. name \in Names
    BY <1>0, Constants
  <2>5. d # t
    <3>1. KidsOf[t] = {}
      BY <1>0, <1>2, <2>1, EmptyKids, SMTT(30)
    <3>2. d = t => t \in KidsOf[t]
      BY <2>1, <2>2, <2>4 DEF KidsOf
    <3>. QED
      BY <3>1, <3>2
  <2>6. inodes \in [Inodes -> InodeType]
    BY <1>0 DEF IInv, TypeOK
  <2>. DEFINE parent == [inodes[d] EXCEPT !.links = SatSub(@, 1)]
  <2>7. /\ parent \in InodeType /\ parent.kind = inodes[d].kind
        /\ parent.size = inodes[d].size /\ parent.start = inodes[d].start
        /\ parent.len = inodes[d].len
    <3>1. inodes[d] \in InodeType
      BY <2>3, <2>6
    <3>. QED
      BY <3>1 DEF InodeType, SatSub
  <2>8. inodes' = [inodes EXCEPT ![t] = Deleted(inodes[t]), ![d] = parent]
    BY <1>2
  <2>. HIDE DEF parent
  <2>9. FreesInode(t)
    <3>1. Deleted(inodes[t]) \in InodeType /\ Deleted(inodes[t]).kind = inodes[t].kind
          /\ Deleted(inodes[t]).size = 0 /\ Deleted(inodes[t]).len = 0
      BY <1>0, <2>1, <2>6, DeletedType
    <3>. QED
      BY <1>2, <2>1, <2>3, <2>5, <2>6, <2>7, <2>8, <3>1 DEF FreesInode
  <2>10. Leaf(d, name, t)
    BY <1>2, <2>2, <2>3, <2>4, <2>5, <2>9 DEF Leaf
  <2>. QED
    BY <1>2, <2>10
<1>. QED
  BY <1>1, <1>2 DEF Rmdir, Found

LEMMA RemovalPromised ==
  ASSUME NoDotsInPaths, TreeIInv, TreeIInv', NEW path \in Paths, NEW name \in PathNames,
         Unlink(path, name) \/ Rmdir(path, name)
  PROVE  Promised
<1>1. PICK d, t : d = OpenPath(path) /\ t = Found(d, name)
  OBVIOUS
<1>2. Refuse \/ (Leaf(d, name, t) /\ outcome' = "ok")
  BY <1>1, UnlinkLeaf, RmdirLeaf
<1>. QED
  BY <1>2, IdlePromised, LeafPromised

-----------------------------------------------------------------------------
(* rename. *)
LEMMA MoveFullPromised ==
  ASSUME NoDotsInPaths, TreeIInv, TreeIInv', NEW d1, NEW s, NEW oldName, NEW d2, NEW t,
         NEW newName, Renames(d1, s, oldName, d2, t, newName),
         MoveFull(s, d2, t, newName)
  PROVE  Promised
<1>0. NoDotsInPaths /\ IInv
  BY DEF TreeIInv
<1>1. Displaces(t) /\ outcome' = "full" /\ dirBlocks' = AfterUnlink(d2, t, newName)
  BY <1>0, MoveFullRows DEF MoveFull
<1>2. CASE t = NoInode
  <2>1. KeepsInodes /\ UNCHANGED dirBlocks /\ Usable \subseteq Inodes
    BY <1>0, <1>1, <1>2, UsableInodes, Constants DEF Displaces, AfterUnlink, NoInode
  <2>2. Usable' = Usable
    BY <2>1 DEF KeepsInodes, Usable
  <2>3. DirRecs' = DirRecs /\ \A k \in DirRecs : Block(k)' = Block(k)
    BY <2>1, <2>2 DEF KeepsInodes, DirRecs, Block
  <2>4. \A j \in Usable : inodes'[j].kind = inodes[j].kind /\ inodes'[j].size = inodes[j].size
    BY <2>1 DEF KeepsInodes
  <2>5. Tree' = Tree
    BY <2>3, <2>4, TreeStays
  <2>. QED
    BY <1>1, <2>5, StaysIsPromised
<1>3. CASE t # NoInode
  <2>1. t \in Usable /\ ~ IsDir(t) /\ FreesInode(t)
    BY <1>1, <1>3 DEF Displaces
  <2>2. /\ d2 \in DirRecs /\ newName \in Names /\ Refers(Block(d2), newName, t)
        /\ t \notin DirRecs /\ t # d2
    BY <1>0, <1>3, <2>1, UsableInodes DEF Renames, IsDir, DirRecs
  <2>3. dirBlocks' = WithoutEntry(d2, t, newName)
    BY <1>1, <1>3 DEF AfterUnlink
  <2>4. Leaf(d2, newName, t)
    BY <2>1, <2>2, <2>3 DEF Leaf
  <2>. QED
    BY <1>1, <2>1, <2>4, LeafPromised
<1>. QED
  BY <1>2, <1>3

(* Without t the edges are still those of a tree.                          *)
LEMMA EdgesLess ==
  ASSUME NEW E, Treelike(E), NEW E1, E1 \subseteq E
  PROVE  Treelike(E1)
  BY DEF Treelike, EdgeSet

Moving(s, d1, oldName, d2, t, newName) ==
  /\ Renames(d1, s, oldName, d2, t, newName) /\ s # t /\ ~ (d1 = d2 /\ oldName = newName)
  /\ d1 \in Reached /\ d2 \in Reached /\ ~ Below(s, d2)
  /\ Moved(s, d1, oldName, d2, t, newName)

LEMMA MovedCarries ==
  ASSUME NoDotsInPaths, TreeIInv, TreeIInv', NEW d1, NEW s, NEW oldName, NEW d2, NEW t,
         NEW newName, Moving(s, d1, oldName, d2, t, newName),
         NEW tt, NEW u, NEW E, NEW E2, NEW K, NEW K2, Sides(tt, u, E, E2, K, K2),
         NEW E1, E1 = {e \in E : e[3] # t}
  PROVE  \E N, pd1, pd2 :
           /\ Leads(E, pd1, d1) /\ Leads(E, pd2, d2)
           /\ Shifts(E1, E2, d1, oldName, s, Append(pd1, oldName), d2, newName, pd2, N)
           /\ Carries(tt, u, E, E1, E2, K, K2, d1, oldName, s, d2, newName, t, N)
<1>. USE DEF Moving
<1>0. NoDotsInPaths /\ IInv /\ PlainFiles /\ TreeNow
  BY DEF TreeIInv, TreeParts
<1>1. Displaces(t)
  BY <1>0, MovedRows
<1>2. /\ outcome' = "ok"
      /\ Fits(At(AfterUnlink(d2, t, newName), d2), newName)
      /\ dirBlocks' = AfterMove(AfterUnlink(d2, t, newName), s, d1, oldName, d2, newName)
  BY DEF Moved, At
<1>3. DirRecs' = DirRecs /\ \A j \in Inodes : inodes'[j].kind = inodes[j].kind
  BY <1>0, <1>1, DisplacedOwns
<1>4. /\ d1 \in DirRecs /\ d2 \in DirRecs /\ newName \in Names /\ oldName \in Names
      /\ s \in Inodes /\ Resolved(s) /\ Refers(Block(d1), oldName, s)
      /\ \/ t = NoInode /\ \A e \in Block(d2) : e.name # newName
         \/ /\ t \in Inodes /\ Resolved(t) /\ Refers(Block(d2), newName, t)
            /\ ~ IsDir(t) /\ ~ IsDir(s)
  BY DEF Renames
<1>5. /\ Usable \subseteq Inodes /\ DirRecs \subseteq Usable
      /\ NoInode \notin Inodes /\ ".." \notin Names
  BY <1>0, UsableInodes, Constants DEF NoInode
<1>6. t \notin DirRecs /\ \A j \in Usable \ {t} : inodes'[j].size = inodes[j].size
  BY <1>1, <1>5 DEF Displaces, KeepsInodes, FreesInode, DirRecs, IsDir
<1>7. \A k \in DirRecs : \A n \in Names : \A j :
        Refers(Block(k)', n, j) <=>
          \/ Refers(Block(k), n, j) /\ ~ (k = d2 /\ n = newName) /\ ~ (k = d1 /\ n = oldName)
          \/ k = d2 /\ n = newName /\ j = s
  <2>1. \A k \in DirRecs : \A n, j, f :
          Lists(Block(k)', n, j, f) <=>
            IF k = s /\ d1 # d2 /\ n = ".."
              THEN j = d2 /\ \E q : Lists(Block(k), n, q, f)
              ELSE \/ /\ Lists(Block(k), n, j, f)
                      /\ ~ (k = d2 /\ n = newName) /\ ~ (k = d1 /\ n = oldName)
                   \/ k = d2 /\ n = newName /\ j = s /\ f = FtOf(inodes[s].kind)
    BY <1>0, <1>1, <1>2, RenamedLists
  <2>2. \A k \in DirRecs : \A n \in Names : \A j, f :
          Lists(Block(k)', n, j, f) <=>
            \/ /\ Lists(Block(k), n, j, f)
               /\ ~ (k = d2 /\ n = newName) /\ ~ (k = d1 /\ n = oldName)
            \/ k = d2 /\ n = newName /\ j = s /\ f = FtOf(inodes[s].kind)
    BY <1>5, <2>1
  <2>. QED
    BY <2>2, RefersLists
<1>9. /\ tt = Tree /\ u = Tree' /\ IsTreeOf(tt, E, K) /\ IsTreeOf(u, E2, K2)
      /\ Treelike(E) /\ Treelike(E2)
      /\ \A a, n, j : <<a, n, j>> \in E
           <=> a \in DirRecs /\ n \in Names /\ j \in Inodes /\ Refers(Block(a), n, j)
      /\ \A a, n, j : <<a, n, j>> \in E2
           <=> a \in DirRecs' /\ n \in Names /\ j \in Inodes /\ Refers(Block(a)', n, j)
      /\ \A p, j : Leads(E, p, j) => j \in Reached /\ j \in Usable /\ j \in Inodes
      /\ \A j \in Reached : \E p : Leads(E, p, j)
      /\ \A j \in Inodes : K[j] = NodeOf(inodes[j]) /\ K2[j] = NodeOf(inodes'[j])
  BY DEF Sides
<1>10. PICK pd1 : Leads(E, pd1, d1)
  BY <1>9
<1>11. PICK pd2 : Leads(E, pd2, d2)
  BY <1>9
<1>12. <<d1, oldName, s>> \in E
  BY <1>4, <1>9
<1>13. \A j : <<d2, newName, j>> \in E <=> j = t /\ t # NoInode
  <2>1. CASE t = NoInode
    BY <1>4, <1>5, <1>9, <2>1 DEF Refers
  <2>2. CASE t # NoInode
    <3>1. <<d2, newName, t>> \in E
      BY <1>4, <1>9, <2>2
    <3>. QED
      BY <1>9, <2>2, <3>1 DEF Treelike
  <2>. QED
    BY <2>1, <2>2
<1>15. \A a, m, j : <<a, m, j>> \in E1 <=> <<a, m, j>> \in E /\ j # t
  OBVIOUS
<1>16. Treelike(E1)
  BY <1>9, EdgesLess
<1>17. \A m, j : <<t, m, j>> \notin E
  BY <1>6, <1>9
<1>18. \A r, j : Leads(E1, r, j) <=> Leads(E, r, j) /\ j # t
  <2>1. CASE t = NoInode
    <3>1. E1 = E
      <4>1. \A e \in E : e[3] \in Inodes
        BY <1>9 DEF Treelike, EdgeSet
      <4>. QED
        BY <1>5, <2>1, <4>1
    <3>2. \A r, j : Leads(E, r, j) => j # t
      BY <1>5, <1>9, <2>1
    <3>. QED
      BY <3>1, <3>2
  <2>2. CASE t # NoInode
    <3>1. <<d2, newName, t>> \in E
      BY <1>13, <2>2
    <3>2. EdgeSet(E1)
      BY <1>16 DEF Treelike
    <3>3. Treelike(E)
      BY <1>9
    <3>. QED
      BY <1>15, <1>17, <3>1, <3>2, <3>3, PathsDrop
  <2>. QED
    BY <2>1, <2>2
<1>19. \A a, m, j : <<a, m, j>> \in E2
         <=> (<<a, m, j>> \in E1 /\ j # s) \/ (a = d2 /\ m = newName /\ j = s)
  <2>1. \A a, m, j : <<a, m, j>> \in E => (a = d1 /\ m = oldName <=> j = s)
    BY <1>9, <1>12 DEF Treelike
  <2>2. \A a, m, j : <<a, m, j>> \in E => (a = d2 /\ m = newName <=> j = t)
    <3>1. CASE t = NoInode
      BY <1>5, <1>9, <1>13, <3>1
    <3>2. CASE t # NoInode
      <4>1. <<d2, newName, t>> \in E
        BY <1>13, <3>2
      <4>. QED
        BY <1>9, <4>1 DEF Treelike
    <3>. QED
      BY <3>1, <3>2
  <2>. SUFFICES ASSUME NEW a, NEW m, NEW j
                PROVE  <<a, m, j>> \in E2
                  <=> (<<a, m, j>> \in E1 /\ j # s) \/ (a = d2 /\ m = newName /\ j = s)
    OBVIOUS
  <2>3. <<a, m, j>> \in E1 <=> <<a, m, j>> \in E /\ j # t
    BY <1>15
  <2>4. CASE a \in DirRecs /\ m \in Names
    <3>1. Refers(Block(a)', m, j) <=>
            \/ Refers(Block(a), m, j) /\ ~ (a = d2 /\ m = newName) /\ ~ (a = d1 /\ m = oldName)
            \/ a = d2 /\ m = newName /\ j = s
      BY <1>7, <2>4
    <3>2. <<a, m, j>> \in E2 <=> j \in Inodes /\ Refers(Block(a)', m, j)
      BY <1>3, <1>9, <2>4
    <3>3. <<a, m, j>> \in E <=> j \in Inodes /\ Refers(Block(a), m, j)
      BY <1>9, <2>4
    <3>4. <<a, m, j>> \in E => (a = d1 /\ m = oldName <=> j = s) /\ (a = d2 /\ m = newName <=> j = t)
      BY <2>1, <2>2
    <3>. QED
      BY <1>4, <2>3, <3>1, <3>2, <3>3, <3>4
  <2>5. CASE ~ (a \in DirRecs /\ m \in Names)
    <3>1. <<a, m, j>> \notin E2
      BY <1>3, <1>9, <2>5
    <3>2. <<a, m, j>> \notin E
      BY <1>9, <2>5
    <3>. QED
      BY <1>4, <2>3, <2>5, <3>1, <3>2
  <2>. QED
    BY <2>4, <2>5
<1>20. PICK N \in SUBSET Usable : s \in N /\ Closed(N) /\ d2 \notin N
  BY DEF Below
<1>21. \A a, m, j : <<a, m, j>> \in E1 /\ a \in N => j \in N
  <2>1. \A k \in N : KidsOf[k] \subseteq N
    BY <1>0, <1>20, ChildrenAre DEF Closed
  <2>2. \A a, m, j : <<a, m, j>> \in E => j \in KidsOf[a]
    BY <1>5, <1>9 DEF KidsOf
  <2>. QED
    BY <1>15, <2>1, <2>2
<1>22. Leads(E1, Append(pd1, oldName), s)
  <2>1. Leads(E, Append(pd1, oldName), s)
    BY <1>9, <1>10, <1>12, LeadsOn DEF Treelike
  <2>. QED
    BY <1>18, <2>1
<1>23. Shifts(E1, E2, d1, oldName, s, Append(pd1, oldName), d2, newName, pd2, N)
  <2>1. <<d1, oldName, s>> \in E1
    BY <1>12, <1>15
  <2>2. Leads(E1, pd2, d2)
    BY <1>4, <1>6, <1>11, <1>18
  <2>3. EdgeSet(E2)
    BY <1>9 DEF Treelike
  <2>. QED
    BY <1>16, <1>19, <1>20, <1>21, <1>22, <2>1, <2>2, <2>3 DEF Shifts
<1>24. Carries(tt, u, E, E1, E2, K, K2, d1, oldName, s, d2, newName, t, N)
  <2>1. t # NoInode => K[t].kind # "dir" /\ K[s].kind # "dir"
    <3>. SUFFICES ASSUME t # NoInode PROVE K[t].kind # "dir" /\ K[s].kind # "dir"
      OBVIOUS
    <3>1. t \in Inodes /\ inodes[t].kind # "dir" /\ s \in Inodes /\ inodes[s].kind # "dir"
      BY <1>4 DEF IsDir
    <3>2. K[t] = NodeOf(inodes[t]) /\ K[s] = NodeOf(inodes[s])
      BY <1>9, <3>1
    <3>. QED
      BY <3>1, <3>2 DEF NodeOf
  <2>2. K[d2].kind = "dir"
    <3>1. d2 \in Inodes /\ inodes[d2].kind = "dir" /\ K[d2] = NodeOf(inodes[d2])
      BY <1>4, <1>5, <1>9 DEF DirRecs
    <3>. QED
      BY <3>1 DEF NodeOf
  <2>3. \A j : <<d1, oldName, j>> \notin E2
    <3>1. \A j : <<d1, oldName, j>> \in E => j = s
      BY <1>9, <1>12 DEF Treelike
    <3>. QED
      BY <1>15, <1>19, <3>1
  <2>4. \A r, j : Leads(E1, r, j) => K2[j] = K[j]
    <3>. SUFFICES ASSUME NEW r, NEW j, Leads(E1, r, j) PROVE K2[j] = K[j]
      OBVIOUS
    <3>1. j \in Usable \ {t} /\ j \in Inodes
      BY <1>9, <1>18
    <3>2. inodes'[j].kind = inodes[j].kind /\ inodes'[j].size = inodes[j].size
      BY <1>3, <1>6, <3>1
    <3>. QED
      BY <1>9, <3>1, <3>2, NodeSame
  <2>. QED
    BY <1>9, <1>12, <1>13, <1>17, <1>18, <2>1, <2>2, <2>3, <2>4 DEF Carries
<1>. QED
  BY <1>10, <1>11, <1>23, <1>24

LEMMA MovedPromised ==
  ASSUME NoDotsInPaths, TreeIInv, TreeIInv', NEW d1, NEW s, NEW oldName, NEW d2, NEW t,
         NEW newName, Moving(s, d1, oldName, d2, t, newName)
  PROVE  Promised
<1>1. PICK tt, u, E, E2, K, K2 : Sides(tt, u, E, E2, K, K2)
  BY StepSides
<1>2. PICK E1 : E1 = {e \in E : e[3] # t}
  OBVIOUS
<1>3. PICK N, pd1, pd2 :
        /\ Leads(E, pd1, d1) /\ Leads(E, pd2, d2)
        /\ Shifts(E1, E2, d1, oldName, s, Append(pd1, oldName), d2, newName, pd2, N)
        /\ Carries(tt, u, E, E1, E2, K, K2, d1, oldName, s, d2, newName, t, N)
  BY <1>1, <1>2, MovedCarries
<1>4. Promise!Move(tt, u)
  BY <1>3, TreeCarries
<1>5. tt = Tree /\ u = Tree' /\ outcome' = "ok"
  BY <1>1 DEF Sides, Moving, Moved
<1>. QED
  BY <1>4, <1>5 DEF Promised, Promise!Change

LEMMA RenameMoves ==
  ASSUME NoDotsInPaths, ~ SubtreeMoves, TreeIInv,
         NEW oldPath \in Paths, NEW newPath \in Paths,
         NEW oldName \in PathNames, NEW newName \in PathNames,
         Rename(oldPath, oldName, newPath, newName),
         NEW d1, d1 = OpenPath(oldPath), NEW s, s = Found(d1, oldName),
         NEW d2, d2 = OpenPath(newPath), NEW t, t = Found(d2, newName)
  PROVE  \/ Refuse \/ (outcome' = "same" /\ UNCHANGED <<disk, diskCounts, counts>>)
         \/ Renames(d1, s, oldName, d2, t, newName) /\ MoveFull(s, d2, t, newName)
         \/ Moving(s, d1, oldName, d2, t, newName)
<1>0. NoDotsInPaths /\ IInv /\ TreeNow
  BY DEF TreeIInv, TreeParts
<1>1. CASE Refuse \/ (outcome' = "same" /\ UNCHANGED <<disk, diskCounts, counts>>)
  BY <1>1
<1>2. CASE /\ s \in Inodes /\ IsDir(d2) /\ t # s
           /\ t # NoInode => ~ IsDir(t) /\ ~ IsDir(s)
           /\ ~ Below(s, d2)
           /\ \/ MoveFull(s, d2, t, newName)
              \/ Moved(s, d1, oldName, d2, t, newName)
  <2>1. Renames(d1, s, oldName, d2, t, newName)
    BY <1>0, <1>2, RenameChecks
  <2>2. ~ (d1 = d2 /\ oldName = newName)
    BY <1>2
  <2>3. d2 \in Reached
    BY <1>0, <1>2, FoundReached
  <2>4. d1 \in Reached
    <3>1. IsDir(d1)
      BY <1>0, <1>2, Constants DEF Found, NoInode
    <3>. QED
      BY <1>0, <3>1, FoundReached
  <2>. QED
    BY <1>2, <2>1, <2>2, <2>3, <2>4 DEF Moving
<1>. QED
  BY <1>1, <1>2 DEF Rename, Found

LEMMA RenamePromised ==
  ASSUME NoDotsInPaths, ~ SubtreeMoves, TreeIInv, TreeIInv',
         NEW oldPath \in Paths, NEW newPath \in Paths,
         NEW oldName \in PathNames, NEW newName \in PathNames,
         Rename(oldPath, oldName, newPath, newName)
  PROVE  Promised
<1>1. PICK d1, d2 : d1 = OpenPath(oldPath) /\ d2 = OpenPath(newPath)
  OBVIOUS
<1>2. PICK s, t : s = Found(d1, oldName) /\ t = Found(d2, newName)
  OBVIOUS
<1>3. \/ Refuse \/ (outcome' = "same" /\ UNCHANGED <<disk, diskCounts, counts>>)
      \/ Renames(d1, s, oldName, d2, t, newName) /\ MoveFull(s, d2, t, newName)
      \/ Moving(s, d1, oldName, d2, t, newName)
  BY <1>1, <1>2, RenameMoves
<1>. QED
  BY <1>3, IdlePromised, MoveFullPromised, MovedPromised

-----------------------------------------------------------------------------
(* truncate gives a file another size and leaves every entry. *)
LEMMA TruncatePromised ==
  ASSUME NoDotsInPaths, TreeIInv, TreeIInv', NEW path \in FullPaths, NEW size \in FileSizes,
         Truncate(path, size)
  PROVE  Promised
<1>. DEFINE i == OpenPath(path)
<1>0. NoDotsInPaths /\ IInv /\ TreeNow /\ size \in Nat
  BY Constants DEF TreeIInv, TreeParts
<1>1. CASE Refuse \/ (outcome' = "same" /\ UNCHANGED <<disk, diskCounts, counts>>)
  BY <1>1, IdlePromised
<1>2. ASSUME i \in Inodes, inodes[i].kind = "reg", ~ Refuse,
             Grow(i, size) \/ Shrink(i, size)
      PROVE  Promised
  <2>1. i \in Usable /\ i \in Reached
    <3>1. i # NoInode
      BY <1>0, <1>2, Constants DEF NoInode
    <3>. QED
      BY <1>0, <3>1, PathResolves, PathReached DEF Resolved
  <2>. HIDE DEF i
  <2>2. inodes \in [Inodes -> InodeType] /\ inodes[i] \in InodeType /\ inodes[i].size \in Nat
    BY <1>0, <1>2, InodeFields DEF IInv, TypeOK
  <2>3. /\ \A j \in Inodes \ {i} : inodes'[j] = inodes[j]
        /\ inodes'[i].kind = "reg" /\ inodes'[i].size = size /\ size # inodes[i].size
        /\ outcome' = "ok" /\ UNCHANGED <<inodeBitmap, dirBlocks>>
    BY <1>0, <1>2, <2>2 DEF Grow, Shrink, InodeType
  <2>4. Usable' = Usable /\ Usable \subseteq Inodes
    BY <1>0, <2>3, UsableInodes DEF Usable
  <2>5. DirRecs' = DirRecs /\ i \notin DirRecs
    BY <1>2, <2>3, <2>4 DEF DirRecs
  <2>6. \A k \in DirRecs : Block(k)' = Block(k)
    BY <2>3, <2>4, <2>5 DEF Block, DirRecs
  <2>7. PICK t, u, E, E2, K, K2 : Sides(t, u, E, E2, K, K2)
    BY StepSides
  <2>8. /\ t = Tree /\ u = Tree' /\ IsTreeOf(t, E, K) /\ IsTreeOf(u, E2, K2)
        /\ Treelike(E) /\ Treelike(E2)
        /\ \A a, n, j : <<a, n, j>> \in E
             <=> a \in DirRecs /\ n \in Names /\ j \in Inodes /\ Refers(Block(a), n, j)
        /\ \A a, n, j : <<a, n, j>> \in E2
             <=> a \in DirRecs' /\ n \in Names /\ j \in Inodes /\ Refers(Block(a)', n, j)
        /\ \A p, j : Leads(E, p, j) => j \in Reached /\ j \in Usable /\ j \in Inodes
        /\ \A j \in Reached : \E p : Leads(E, p, j)
        /\ \A j \in Inodes : K[j] = NodeOf(inodes[j]) /\ K2[j] = NodeOf(inodes'[j])
    BY <2>7 DEF Sides
  <2>9. E2 = E
    <3>1. \A a, n, j : <<a, n, j>> \in E2 <=> <<a, n, j>> \in E
      <4>. SUFFICES ASSUME NEW a, NEW n, NEW j
                    PROVE  <<a, n, j>> \in E2 <=> <<a, n, j>> \in E
        OBVIOUS
      <4>1. a \in DirRecs => Block(a)' = Block(a)
        BY <2>6
      <4>2. a \in DirRecs <=> a \in DirRecs'
        BY <2>5
      <4>. QED
        BY <2>8, <4>1, <4>2
    <3>2. E2 \subseteq Inodes \X Names \X Inodes /\ E \subseteq Inodes \X Names \X Inodes
      BY <2>8 DEF Treelike, EdgeSet
    <3>. QED
      BY <3>1, <3>2
  <2>10. PICK p : Leads(E, p, i)
    BY <2>1, <2>8
  <2>11. K[i] = NodeOf(inodes[i]) /\ K2[i] = NodeOf(inodes'[i])
    BY <1>2, <2>8
  <2>12. K[i].kind = "reg" /\ K2[i] # K[i]
    BY <1>2, <2>3, <2>11 DEF NodeOf
  <2>13. K2[i] = Promise!Node("reg", size)
    BY <2>3, <2>11 DEF NodeOf, Promise!Node
  <2>14. \A q, j : Leads(E, q, j) /\ j # i => K2[j] = K[j]
    <3>. SUFFICES ASSUME NEW q, NEW j, Leads(E, q, j), j # i PROVE K2[j] = K[j]
      OBVIOUS
    <3>1. j \in Inodes \ {i}
      BY <2>8
    <3>. QED
      BY <2>3, <2>8, <3>1
  <2>15. IsTreeOf(t, E, K) /\ IsTreeOf(u, E, K2) /\ Treelike(E)
    BY <2>8, <2>9
  <2>16. Promise!Resize(t, u)
    BY <2>10, <2>12, <2>13, <2>14, <2>15, TreeResizes
  <2>. QED
    BY <2>3, <2>8, <2>16 DEF Promised, Promise!Change
<1>. QED
  BY <1>1, <1>2 DEF Truncate

-----------------------------------------------------------------------------
(* Every call keeps its promise. *)
LEMMA CreatesPromised ==
  ASSUME NoDotsInPaths, TreeIInv, TreeIInv', NEW path \in Paths, NEW name \in PathNames,
         \/ Mkdir(path, name)
         \/ \E size \in FileSizes : CreateFile(path, name, size)
         \/ \E size \in TargetSizes : Symlink(path, name, size)
  PROVE  Promised
<1>1. CASE Mkdir(path, name)
  <2>1. Shape("dir", BlockSize, 1)
    BY Constants DEF Shape
  <2>. QED
    BY <1>1, <2>1, InsertPromised DEF Mkdir
<1>2. ASSUME NEW size \in FileSizes, CreateFile(path, name, size) PROVE Promised
  <2>1. Shape("reg", size, CeilDiv(size, BlockSize))
    BY Constants, CeilDivBounds DEF Shape
  <2>. QED
    BY <1>2, <2>1, InsertPromised DEF CreateFile
<1>3. ASSUME NEW size \in TargetSizes, Symlink(path, name, size) PROVE Promised
  <2>1. CASE Refuse
    BY <2>1, IdlePromised
  <2>2. CASE Insert(OpenPath(path), name, "lnk", 1, size, 0)
    <3>1. Shape("lnk", size, 0)
      BY Constants DEF Shape
    <3>. QED
      BY <2>2, <3>1, InsertPromised
  <2>. QED
    BY <1>3, <2>1, <2>2 DEF Symlink
<1>. QED
  BY <1>1, <1>2, <1>3

LEMMA NextPromised ==
  ASSUME NoDotsInPaths, ~ SubtreeMoves, TreeIInv, TreeIInv', Next
  PROVE  Promised
<1>1. ASSUME NEW path \in Paths, NEW name \in PathNames,
             \/ Mkdir(path, name)
             \/ \E size \in FileSizes : CreateFile(path, name, size)
             \/ \E size \in TargetSizes : Symlink(path, name, size)
      PROVE  Promised
  BY <1>1, CreatesPromised
<1>2. ASSUME NEW path \in Paths, NEW name \in PathNames, Unlink(path, name)
      PROVE  Promised
  BY <1>2, RemovalPromised
<1>3. ASSUME NEW path \in Paths, NEW name \in PathNames, Rmdir(path, name)
      PROVE  Promised
  BY <1>3, RemovalPromised
<1>4. ASSUME NEW path \in Paths, NEW name \in PathNames,
             NEW newPath \in Paths, NEW newName \in PathNames,
             Rename(path, name, newPath, newName)
      PROVE  Promised
  BY <1>4, RenamePromised
<1>5. ASSUME NEW path \in FullPaths, NEW size \in FileSizes, Truncate(path, size)
      PROVE  Promised
  BY <1>5, TruncatePromised
<1>6. ASSUME NEW path \in FullPaths, SetAttr(path) PROVE Promised
  BY <1>6, IdlePromised DEF SetAttr
<1>7. ASSUME Reopen PROVE Promised
  BY <1>7, IdlePromised
<1>. QED
  BY <1>1, <1>2, <1>3, <1>4, <1>5, <1>6, <1>7 DEF Next

(* The tree that mkfs writes. *)
LEMMA InitPromised ==
  ASSUME NoDotsInPaths, Init PROVE Promise!Init
<1>0. TreeIInv /\ outcome = "same" /\ Root \in Inodes
  BY InitTree, Constants DEF Init
<1>1. Usable = {Root} /\ inodes[Root].kind = "dir"
  BY InitImage
<1>2. IsTreeOf(Tree, EdgesOf, NodesOf) /\ Treelike(EdgesOf)
  BY <1>0, TreeIs, EdgesAre
<1>3. \A p, i : Leads(EdgesOf, p, i) => i = Root
  BY <1>0, <1>1, ReachedLed, TreeMeans
<1>4. Leads(EdgesOf, <<>>, Root)
  BY LeadsRoot
<1>5. \A p, i : Leads(EdgesOf, p, i) => p = <<>> /\ i = Root
  BY <1>2, <1>3, <1>4, OneInodeOnePath
<1>6. DOMAIN Tree = {<<>>}
  BY <1>2, <1>4, <1>5 DEF IsTreeOf
<1>7. Tree[<<>>] = Promise!Node("dir", 0)
  <2>1. Tree[<<>>] = NodesOf[Root]
    BY <1>2, <1>4 DEF IsTreeOf
  <2>2. NodesOf[Root] = NodeOf(inodes[Root])
    BY <1>0 DEF NodesOf
  <2>. QED
    BY <1>1, <2>1, <2>2 DEF NodeOf, Promise!Node
<1>8. Tree = [p \in {<<>>} |-> Promise!Node("dir", 0)]
  <2>1. Tree = [p \in DOMAIN Tree |-> Tree[p]]
    BY <1>2 DEF IsTreeOf
  <2>. QED
    BY <1>6, <1>7, <2>1
<1>. QED
  BY <1>0, <1>8 DEF Promise!Init

(* The handle implements the namespace.  As long as callers name no dots   *)
(* and move no directory below itself, each call that returns Ok changes   *)
(* the tree of paths in one place, as calls of its kind do, and one that   *)
(* fails changes nothing, but for the rename that had already removed the  *)
(* file it was to replace.                                                 *)
THEOREM HandleIsNamespace ==
  ASSUME NoDotsInPaths, ~ SubtreeMoves PROVE Spec => IsNamespace
<1>1. Init => Promise!Init
  BY InitPromised
<1>2. TreeIInv /\ TreeIInv' /\ [Next]_vars
        => [Promise!Next]_<<Tree, IF outcome \in {"ok", "same"} THEN outcome ELSE "failed">>
  <2>. SUFFICES ASSUME TreeIInv, TreeIInv', [Next]_vars
                PROVE  [Promise!Next]_<<Tree, IF outcome \in {"ok", "same"} THEN outcome
                                                                            ELSE "failed">>
    OBVIOUS
  <2>1. CASE Next
    <3>1. Promised
      BY <2>1, NextPromised
    <3>2. Promise!Next
      <4>1. CASE outcome' = "ok"
        BY <3>1, <4>1 DEF Promised, Promise!Next
      <4>2. CASE outcome' = "same"
        BY <3>1, <4>2 DEF Promised, Promise!Next
      <4>3. CASE outcome' \notin {"ok", "same"}
        BY <3>1, <4>3 DEF Promised, Promise!Next
      <4>. QED
        BY <4>1, <4>2, <4>3
    <3>. QED
      BY <3>2
  <2>2. CASE UNCHANGED vars
    <3>1. Tree' = Tree
      BY <2>2, DiskKeepsTree DEF vars
    <3>2. outcome' = outcome
      BY <2>2 DEF vars
    <3>. QED
      BY <3>1, <3>2
  <2>. QED
    BY <2>1, <2>2
<1>. QED
  BY <1>1, <1>2, TreeInvariant, PTL DEF Spec, IsNamespace, Promise!Spec

-----------------------------------------------------------------------------
(* The walk over a host's tree.  open_path finds what a path leads to.     *)
LEMMA PathSteps ==
  ASSUME NEW path \in Seq(Names), NEW m \in Nat, m + 1 <= Len(path)
  PROVE  /\ SubSeq(path, 1, m) \in Seq(Names) /\ path[m + 1] \in Names
         /\ SubSeq(path, 1, m + 1) = Append(SubSeq(path, 1, m), path[m + 1])
<1>0. Len(path) \in Nat
  BY LenProperties
<1>1. path[m + 1] \in Names
  BY <1>0, ElementOfSeq
<1>2. SubSeq(path, 1, m) \in Seq(Names)
  <2>1. \A i \in 1 .. m : path[i] \in Names
    BY <1>0, ElementOfSeq
  <2>. QED
    BY <2>1, SubSeqProperties
<1>3. SubSeq(path, 1, m + 1) = SubSeq(path, 1, m) \o <<path[m + 1]>>
  <2>1. 1 \in 1 .. Len(path) /\ m + 1 \in 1 .. Len(path)
    BY <1>0
  <2>2. SubSeq(path, 1, m + 1) = SubSeq(path, 1, (m + 1) - 1) \o <<path[m + 1]>>
    BY <2>1, SubSeqRecursiveSecond
  <2>3. (m + 1) - 1 = m
    OBVIOUS
  <2>. QED
    BY <2>2, <2>3
<1>. QED
  BY <1>1, <1>2, <1>3, AppendIsConcat

LEMMA LeadsOpens ==
  ASSUME NoDotsInPaths, TreeIInv, NEW path \in FullPaths, NEW i, Leads(EdgesOf, path, i)
  PROVE  OpenPath(path) = i
<1>0. /\ IInv /\ Treelike(EdgesOf) /\ EdgeSet(EdgesOf)
      /\ \A d, n, j : <<d, n, j>> \in EdgesOf
           <=> d \in DirRecs /\ n \in Names /\ j \in Inodes /\ Refers(Block(d), n, j)
  BY EdgesAre DEF TreeIInv, Treelike
<1>. DEFINE n == Len(path)
<1>1. /\ n \in Nat /\ path \in [1 .. n -> PathNames] /\ path \in Seq(Names)
      /\ \E at : Opens(path, at) /\ OpenPath(path) = at[n]
  <2>1. PICK G : /\ Root \in G
                 /\ \A j \in G : \A name \in PathNames : Walk(j, name) \in G
    BY <1>0, WalksResolve
  <2>2. path \in Seq(Names)
    BY LeadsTyped
  <2>. QED
    BY <2>1, <2>2, OpenPathRuns
<1>2. PICK at : Opens(path, at) /\ OpenPath(path) = at[n]
  BY <1>1
<1>3. \A k \in 0 .. n : at[k] = IF k = 0 THEN Root ELSE Walk(at[k - 1], path[k])
  BY <1>2 DEF Opens
<1>. HIDE DEF n
<1>4. ASSUME NEW d, NEW name \in PathNames, NEW j, <<d, name, j>> \in EdgesOf
      PROVE  Walk(d, name) = j
  <2>1. d \in DirRecs /\ IsDir(d)
    BY <1>0, <1>4, UsableInodes DEF DirRecs, IsDir
  <2>2. Lookup(d, name) \in Inodes /\ Refers(Block(d), name, Lookup(d, name))
    BY <1>0, <1>4, <2>1, LookupFinds DEF Refers
  <2>3. <<d, name, Lookup(d, name)>> \in EdgesOf
    BY <1>0, <1>4, <2>1, <2>2
  <2>4. Lookup(d, name) = j
    BY <1>0, <1>4, <2>3 DEF Treelike
  <2>. QED
    BY <2>1, <2>4 DEF Walk
<1>. DEFINE T == {m \in Nat : m <= n =>
                    \A j : Leads(EdgesOf, SubSeq(path, 1, m), j) => at[m] = j}
<1>5. 0 \in T
  <2>1. SubSeq(path, 1, 0) = <<>>
    BY SubSeqEmpty
  <2>2. at[0] = Root
    BY <1>1, <1>3
  <2>. QED
    BY <1>0, <2>1, <2>2, LeadsRoot, OnePathOneInode
<1>6. ASSUME NEW m \in Nat, m \in T PROVE m + 1 \in T
  <2>. SUFFICES ASSUME m + 1 <= n, NEW j, Leads(EdgesOf, SubSeq(path, 1, m + 1), j)
                PROVE  at[m + 1] = j
    OBVIOUS
  <2>1. PICK p, name : p = SubSeq(path, 1, m) /\ name = path[m + 1]
    OBVIOUS
  <2>2. /\ p \in Seq(Names) /\ name \in PathNames /\ name \in Names
        /\ SubSeq(path, 1, m + 1) = Append(p, name)
    BY <1>1, <2>1, PathSteps DEF n
  <2>3. EndsWith(EdgesOf, Append(p, name), j)
    BY <1>0, <2>2, LeadsBack
  <2>4. PICK q \in Seq(Names), d \in Inodes, e \in Names :
          Leads(EdgesOf, q, d) /\ <<d, e, j>> \in EdgesOf /\ Append(p, name) = Append(q, e)
    BY <2>2, <2>3, FrontIs DEF EndsWith
  <2>5. q = p /\ e = name
    BY <2>2, <2>4, AppendUnique
  <2>6. at[m] = d
    BY <1>1, <1>6, <2>1, <2>4, <2>5
  <2>7. at[m + 1] = Walk(at[m], name)
    BY <1>1, <1>3, <2>1
  <2>. QED
    BY <1>4, <2>2, <2>4, <2>5, <2>6, <2>7
<1>7. n \in T
  <2>. HIDE DEF T
  <2>. QED
    BY <1>1, <1>5, <1>6, NatSetInduction
<1>8. SubSeq(path, 1, n) = path
  BY <1>1, SubSeqFull DEF n
<1>9. \A j : Leads(EdgesOf, SubSeq(path, 1, n), j) => at[n] = j
  BY <1>1, <1>7
<1>10. at[n] = i
  BY <1>8, <1>9
<1>. QED
  BY <1>2, <1>10

(* A directory of the tree has no entry for a name that the tree has not.  *)
LEMMA RoomForName ==
  ASSUME NoDotsInPaths, TreeIInv, NEW path \in Paths, NEW name \in PathNames,
         path \in DOMAIN Tree, Tree[path].kind = "dir", Append(path, name) \notin DOMAIN Tree
  PROVE  Leads(EdgesOf, path, OpenPath(path)) /\ CanInsert(OpenPath(path), name)
<1>0. /\ IInv /\ Treelike(EdgesOf) /\ EdgeSet(EdgesOf)
      /\ \A d, n, j : <<d, n, j>> \in EdgesOf
           <=> d \in DirRecs /\ n \in Names /\ j \in Inodes /\ Refers(Block(d), n, j)
  BY EdgesAre DEF TreeIInv, Treelike
<1>1. IsTreeOf(Tree, EdgesOf, NodesOf)
  BY TreeIs
<1>2. PICK d : Leads(EdgesOf, path, d)
  BY <1>1 DEF IsTreeOf
<1>3. OpenPath(path) = d
  BY <1>2, LeadsOpens, PathsAreFull
<1>4. IsDir(d)
  <2>1. Tree[path] = NodesOf[d] /\ d \in Inodes
    BY <1>1, <1>2, LeadsTyped DEF IsTreeOf
  <2>2. Tree[path] = NodeOf(inodes[d])
    BY <2>1 DEF NodesOf
  <2>. QED
    BY <2>1, <2>2 DEF NodeOf, IsDir
<1>5. d \in DirRecs
  BY <1>0, <1>3, <1>4, PathIsDir
<1>6. Lookup(d, name) = NoInode
  <2>. SUFFICES ASSUME Lookup(d, name) # NoInode PROVE FALSE
    OBVIOUS
  <2>1. Lookup(d, name) \in Inodes /\ Refers(Block(d), name, Lookup(d, name)) /\ name \in Names
    BY <1>0, <1>5, LookupFinds, Constants
  <2>2. <<d, name, Lookup(d, name)>> \in EdgesOf
    BY <1>0, <1>5, <2>1
  <2>3. Leads(EdgesOf, Append(path, name), Lookup(d, name))
    BY <1>0, <1>2, <2>2, LeadsOn
  <2>. QED
    BY <1>1, <2>3 DEF IsTreeOf
<1>. QED
  BY <1>2, <1>3, <1>4, <1>6 DEF CanInsert

(* What is above something in the tree is in the tree. *)
LEMMA TreeHasParents ==
  ASSUME NoDotsInPaths, TreeIInv, NEW p \in Seq(Names), NEW n \in Names,
         Append(p, n) \in DOMAIN Tree
  PROVE  p \in DOMAIN Tree
<1>0. IsTreeOf(Tree, EdgesOf, NodesOf) /\ EdgeSet(EdgesOf)
  BY TreeIs, EdgesAre DEF Treelike
<1>1. PICK i : Leads(EdgesOf, Append(p, n), i)
  BY <1>0 DEF IsTreeOf
<1>2. EndsWith(EdgesOf, Append(p, n), i)
  BY <1>0, <1>1, LeadsBack
<1>3. PICK q \in Seq(Names), d \in Inodes, m \in Names :
        Leads(EdgesOf, q, d) /\ <<d, m, i>> \in EdgesOf /\ Append(p, n) = Append(q, m)
  BY <1>2, FrontIs DEF EndsWith
<1>4. q = p
  BY <1>3, AppendUnique
<1>. QED
  BY <1>0, <1>3, <1>4 DEF IsTreeOf

-----------------------------------------------------------------------------
(* Paths of the host and of the image. *)
LEMMA HostNoDots == NoDotsInPaths
BY HostAssumption DEF NoDotsInPaths, Dots

LEMMA PathTyped ==
  ASSUME NEW p \in Paths
  PROVE  p \in Seq(PathNames) /\ p \in Seq(Names) /\ p \in Seq(HostNames)
<1>1. PICK k \in 0 .. MaxDepth : p \in [1 .. k -> PathNames]
  BY DEF Paths, PathsUpTo
<1>2. p \in Seq(PathNames)
  BY <1>1, FilesystemAssumption
<1>3. PathNames \subseteq Names /\ PathNames \subseteq HostNames
  BY HostNoDots, Constants, HostAssumption
<1>. QED
  BY <1>2, <1>3, SeqMonotonic

LEMMA PathIs ==
  ASSUME NEW p \in Seq(PathNames), Len(p) <= MaxDepth
  PROVE  p \in Paths
<1>1. Len(p) \in 0 .. MaxDepth /\ p \in [1 .. Len(p) -> PathNames]
  BY LenProperties, FilesystemAssumption
<1>. QED
  BY <1>1 DEF Paths, PathsUpTo

LEMMA ChildrenThere ==
  ASSUME NEW h \in HostTrees, NEW p \in Seq(HostNames), NEW n \in ChildrenOf(h, p)
  PROVE  n \in HostNames /\ Append(p, n) \in DOMAIN h
<1>1. ASSUME NEW q \in DOMAIN h, Len(q) = Len(p) + 1, SubSeq(q, 1, Len(p)) = p
      PROVE  q[Len(q)] \in HostNames /\ q = Append(p, q[Len(q)])
  <2>1. q \in Seq(HostNames) /\ Len(p) \in Nat /\ Len(q) \in Nat
    BY HostAssumption, LenProperties
  <2>2. q[Len(q)] \in HostNames
    BY <1>1, <2>1, ElementOfSeq
  <2>3. 1 \in 1 .. Len(q) /\ Len(q) \in 1 .. Len(q) /\ Len(q) - 1 = Len(p)
    BY <1>1, <2>1
  <2>4. SubSeq(q, 1, Len(q)) = SubSeq(q, 1, Len(q) - 1) \o <<q[Len(q)]>>
    BY <2>1, <2>3, SubSeqRecursiveSecond
  <2>5. q = p \o <<q[Len(q)]>>
    BY <1>1, <2>1, <2>3, <2>4, SubSeqFull
  <2>. QED
    BY <2>2, <2>5, AppendIsConcat
<1>2. PICK q \in DOMAIN h :
        Len(q) = Len(p) + 1 /\ SubSeq(q, 1, Len(p)) = p /\ n = q[Len(q)]
  BY DEF ChildrenOf
<1>3. q[Len(q)] \in HostNames /\ q = Append(p, q[Len(q)])
  BY <1>1, <1>2
<1>. QED
  BY <1>2, <1>3

LEMMA ThereAreChildren ==
  ASSUME NEW h \in HostTrees, NEW p \in Seq(HostNames), NEW n \in HostNames,
         Append(p, n) \in DOMAIN h
  PROVE  n \in ChildrenOf(h, p)
<1>1. PICK q : q = Append(p, n)
  OBVIOUS
<1>2. Len(q) = Len(p) + 1 /\ q[Len(p) + 1] = n
  BY <1>1, AppendProperties
<1>3. SubSeq(q, 1, Len(p)) = p
  <2>1. Len(p) \in Nat
    BY LenProperties
  <2>2. \A i \in 1 .. Len(p) : q[i] = p[i] /\ p[i] \in HostNames
    BY <1>1, AppendProperties, ElementOfSeq
  <2>3. /\ SubSeq(q, 1, Len(p)) \in Seq(HostNames)
        /\ Len(SubSeq(q, 1, Len(p))) = Len(p)
        /\ \A i \in 1 .. Len(p) : SubSeq(q, 1, Len(p))[i] = q[i]
    <3>1. \A i \in 1 .. Len(p) : q[i] \in HostNames
      BY <2>2
    <3>2. /\ SubSeq(q, 1, Len(p)) \in Seq(HostNames)
          /\ Len(SubSeq(q, 1, Len(p))) = IF 1 <= Len(p) THEN Len(p) - 1 + 1 ELSE 0
          /\ \A i \in 1 .. Len(p) - 1 + 1 : SubSeq(q, 1, Len(p))[i] = q[1 + i - 1]
      BY <2>1, <3>1, SubSeqProperties
    <3>. QED
      BY <2>1, <3>2
  <2>. QED
    BY <2>1, <2>2, <2>3, SeqEqual
<1>. QED
  BY <1>1, <1>2, <1>3 DEF ChildrenOf

(* What the host has below something is below a directory.                 *)
LEMMA HostParents ==
  ASSUME NEW h \in HostTrees, NEW p \in Seq(HostNames), NEW n \in HostNames,
         Append(p, n) \in DOMAIN h, p # <<>>
  PROVE  p \in DOMAIN h /\ h[p].kind = "dir"
<1>1. SubSeq(Append(p, n), 1, Len(Append(p, n)) - 1) = p
  <2>1. PICK q : q = Append(p, n)
    OBVIOUS
  <2>2. /\ q \in Seq(HostNames) /\ Len(q) = Len(p) + 1 /\ Len(p) \in Nat
        /\ \A i \in 1 .. Len(p) : q[i] = p[i]
    BY <2>1, AppendProperties, LenProperties
  <2>3. \A i \in 1 .. Len(p) : q[i] \in HostNames
    BY <2>2, ElementOfSeq
  <2>4. /\ SubSeq(q, 1, Len(p)) \in Seq(HostNames)
        /\ Len(SubSeq(q, 1, Len(p))) = IF 1 <= Len(p) THEN Len(p) - 1 + 1 ELSE 0
        /\ \A i \in 1 .. Len(p) - 1 + 1 : SubSeq(q, 1, Len(p))[i] = q[1 + i - 1]
    BY <2>2, <2>3, SubSeqProperties
  <2>5. SubSeq(q, 1, Len(p)) = p
    <3>1. Len(SubSeq(q, 1, Len(p))) = Len(p)
      BY <2>2, <2>4
    <3>2. \A i \in 1 .. Len(p) : SubSeq(q, 1, Len(p))[i] = p[i]
      BY <2>2, <2>4
    <3>. QED
      BY <2>4, <3>1, <3>2, SeqEqual
  <2>6. Len(q) - 1 = Len(p)
    BY <2>2
  <2>. QED
    BY <2>1, <2>5, <2>6
<1>2. \A q \in DOMAIN h :
        LET parent == SubSeq(q, 1, Len(q) - 1) IN
        parent # <<>> => parent \in DOMAIN h /\ h[parent].kind = "dir"
  BY HostAssumption
<1>3. PICK q : q = Append(p, n)
  OBVIOUS
<1>4. q \in DOMAIN h /\ SubSeq(q, 1, Len(q) - 1) = p
  BY <1>1, <1>3
<1>. QED
  BY <1>2, <1>4

-----------------------------------------------------------------------------
(* What the replica holds is what callers can name, and its directories    *)
(* are no deeper than the parents of a path.                               *)
LEMMA ReplicaPaths ==
  ASSUME NEW h \in HostTrees
  PROVE  /\ \A p : p \in DOMAIN Replica(h) <=> p \in Replicable(h) \/ p = <<>>
         /\ \A p \in Replicable(h) : p \in DOMAIN h /\ p # <<>> /\ p \in Seq(PathNames)
         /\ \A p \in DOMAIN Replica(h) : Replica(h)[p].kind = "dir" => p \in Paths
<1>1. \A p : p \in DOMAIN Replica(h) <=> p \in Replicable(h) \/ p = <<>>
  BY DEF Replica
<1>2. ASSUME NEW p \in Replicable(h)
      PROVE  p \in DOMAIN h /\ p # <<>> /\ p \in Seq(PathNames)
  <2>1. p \in DOMAIN h /\ \A k \in DOMAIN p : p[k] \in PathNames
    BY DEF Replicable
  <2>2. p \in Seq(HostNames) /\ p # <<>>
    BY <2>1, HostAssumption
  <2>3. p \in Seq(PathNames)
    BY <2>1, <2>2
  <2>. QED
    BY <2>1, <2>2, <2>3
<1>3. <<>> \in Paths
  <2>1. <<>> \in Seq(PathNames) /\ Len(<<>>) = 0 /\ MaxDepth \in Nat
    BY EmptySeq, FilesystemAssumption
  <2>2. Len(<<>>) <= MaxDepth
    BY <2>1
  <2>. QED
    BY <2>1, <2>2, PathIs
<1>4. ASSUME NEW p \in DOMAIN Replica(h), Replica(h)[p].kind = "dir" PROVE p \in Paths
  <2>1. CASE p = <<>>
    BY <1>3, <2>1
  <2>2. CASE p # <<>>
    <3>1. p \in Replicable(h) /\ p \in DOMAIN h /\ p \in Seq(PathNames)
      BY <1>1, <1>2, <2>2
    <3>2. h[p].kind = "dir"
      BY <1>4, <2>2 DEF Replica, Stored
    <3>3. Len(p) <= MaxDepth
      BY <3>1, <3>2, HostWithin
    <3>. QED
      BY <3>1, <3>3, PathIs
  <2>. QED
    BY <2>1, <2>2
<1>. QED
  BY <1>1, <1>2, <1>4

(* The directories on the walk's stack, each once. *)
OnIt(s, p) == \E k \in 1 .. Len(s) : s[k] = p
Distinct(s) == \A j, k \in 1 .. Len(s) : s[j] = s[k] => j = k

LEMMA OnPushed ==
  ASSUME NEW s \in Seq(Paths), NEW q \in Paths, NEW s2, s2 = Append(s, q)
  PROVE  /\ s2 \in Seq(Paths)
         /\ \A p : OnIt(s2, p) <=> OnIt(s, p) \/ p = q
         /\ Distinct(s) /\ ~ OnIt(s, q) => Distinct(s2)
<1>. DEFINE n == Len(s)
<1>1. /\ s2 \in Seq(Paths) /\ n \in Nat /\ Len(s2) = n + 1 /\ s2[n + 1] = q
      /\ \A k \in 1 .. n : s2[k] = s[k]
  BY AppendProperties, LenProperties
<1>. HIDE DEF n
<1>2. OnIt(s2, q)
  BY <1>1 DEF OnIt
<1>3. ASSUME NEW p, OnIt(s, p) PROVE OnIt(s2, p)
  <2>1. PICK k \in 1 .. n : s[k] = p
    BY <1>3 DEF OnIt, n
  <2>. QED
    BY <1>1, <2>1 DEF OnIt
<1>4. ASSUME NEW p, OnIt(s2, p) PROVE OnIt(s, p) \/ p = q
  <2>1. PICK k \in 1 .. (n + 1) : s2[k] = p
    BY <1>1, <1>4 DEF OnIt
  <2>2. k \in 1 .. n \/ k = n + 1
    BY <1>1
  <2>. QED
    BY <1>1, <2>1, <2>2 DEF OnIt, n
<1>5. ASSUME Distinct(s), ~ OnIt(s, q) PROVE Distinct(s2)
  <2>. SUFFICES ASSUME NEW j \in 1 .. (n + 1), NEW k \in 1 .. (n + 1), s2[j] = s2[k]
                PROVE  j = k
    BY <1>1 DEF Distinct
  <2>1. \A i \in 1 .. n : s[i] # q
    BY <1>5 DEF OnIt, n
  <2>2. \A i \in 1 .. (n + 1) : i \in 1 .. n \/ i = n + 1
    BY <1>1
  <2>3. CASE j \in 1 .. n /\ k \in 1 .. n
    BY <1>1, <1>5, <2>3 DEF Distinct, n
  <2>4. CASE j = n + 1 \/ k = n + 1
    BY <1>1, <2>1, <2>2, <2>4
  <2>. QED
    BY <2>2, <2>3, <2>4
<1>. QED
  BY <1>1, <1>2, <1>3, <1>4, <1>5

LEMMA OnPopped ==
  ASSUME NEW s \in Seq(Paths), s # <<>>, Distinct(s),
         NEW s2, s2 = SubSeq(s, 1, Len(s) - 1)
  PROVE  /\ s2 \in Seq(Paths) /\ Distinct(s2)
         /\ OnIt(s, s[Len(s)])
         /\ \A p : OnIt(s2, p) <=> OnIt(s, p) /\ p # s[Len(s)]
<1>. DEFINE n == Len(s)
<1>1. n \in Nat \ {0} /\ \A k \in 1 .. n : s[k] \in Paths
  BY EmptySeq, ElementOfSeq
<1>2. /\ s2 \in Seq(Paths) /\ Len(s2) = n - 1
      /\ \A k \in 1 .. (n - 1) : s2[k] = s[k]
  <2>1. \A k \in 1 .. (n - 1) : s[k] \in Paths
    BY <1>1
  <2>2. /\ s2 \in Seq(Paths)
        /\ Len(s2) = IF 1 <= n - 1 THEN (n - 1) - 1 + 1 ELSE 0
        /\ \A k \in 1 .. ((n - 1) - 1 + 1) : s2[k] = s[1 + k - 1]
    BY <1>1, <2>1, SubSeqProperties
  <2>. HIDE DEF n
  <2>. QED
    BY <1>1, <2>2
<1>. HIDE DEF n
<1>3. n \in 1 .. n /\ \A k \in 1 .. n : k \in 1 .. (n - 1) \/ k = n
  BY <1>1
<1>4. \A k \in 1 .. (n - 1) : k \in 1 .. n /\ k # n
  BY <1>1
<1>5. \A j, k \in 1 .. n : s[j] = s[k] => j = k
  BY DEF Distinct, n
<1>6. Distinct(s2)
  BY <1>2, <1>4, <1>5 DEF Distinct
<1>7. OnIt(s, s[n])
  BY <1>3 DEF OnIt, n
<1>8. ASSUME NEW p, OnIt(s2, p) PROVE OnIt(s, p) /\ p # s[n]
  <2>1. PICK k \in 1 .. (n - 1) : s2[k] = p
    BY <1>2, <1>8 DEF OnIt
  <2>2. k \in 1 .. n /\ s[k] = p /\ k # n
    BY <1>2, <1>4, <2>1
  <2>. QED
    BY <1>3, <1>5, <2>2 DEF OnIt, n
<1>9. ASSUME NEW p, OnIt(s, p), p # s[n] PROVE OnIt(s2, p)
  <2>1. PICK k \in 1 .. n : s[k] = p
    BY <1>9 DEF OnIt, n
  <2>2. k \in 1 .. (n - 1)
    BY <1>3, <1>9, <2>1
  <2>. QED
    BY <1>2, <2>1, <2>2 DEF OnIt
<1>. QED
  BY <1>2, <1>6, <1>7, <1>8, <1>9 DEF n

-----------------------------------------------------------------------------
(* How far the walk of h has come when the image shows T: s is the stack,  *)
(* d the directory being read, l its entries to be seen, r the result.     *)
(* The image shows part of the replica.                                    *)
PartShown(T, h) == \A p \in DOMAIN T : p \in DOMAIN Replica(h) /\ T[p] = Replica(h)[p]

(* Nothing is below p that callers can name. *)
Bare(T, p) == \A n \in PathNames : Append(p, n) \notin DOMAIN T

(* The directories to be read are there, with nothing in them yet; so is   *)
(* the one being read, without the entries not yet seen.                   *)
Opened(T, h, s, d, l) ==
  /\ h \in HostTrees /\ s \in Seq(Paths) /\ Distinct(s)
  /\ \A p : OnIt(s, p) => /\ p \in DOMAIN T /\ T[p].kind = "dir"
                          /\ d # <<p>> /\ Bare(T, p)
  /\ d = <<>> \/ \E p \in Paths : d = <<p>>
  /\ \A p : d = <<p>> =>
       /\ p \in DOMAIN T /\ T[p].kind = "dir"
       /\ \A n \in l : /\ n \in ChildrenOf(h, p)
                       /\ n \in PathNames => Append(p, n) \notin DOMAIN T

(* What the replica has below something shown is shown or still awaited.   *)
Awaited(s, d, l, p, n) == OnIt(s, p) \/ (d = <<p>> /\ n \in l)

NoneForgotten(T, h, s, d, l) ==
  \A p \in DOMAIN T, n \in PathNames :
    Append(p, n) \in Replicable(h) => Append(p, n) \in DOMAIN T \/ Awaited(s, d, l, p, n)

Progress(T, h, s, d, l, r) ==
  /\ PartShown(T, h) /\ Opened(T, h, s, d, l)
  /\ r # "failed" => NoneForgotten(T, h, s, d, l)
  /\ r = "ok" => s = <<>> /\ d = <<>>

LEMMA StartProgress ==
  ASSUME NEW h \in HostTrees, NEW T, NEW s,
         T = [p \in {<<>>} |-> Promise!Node("dir", 0)], s = << <<>> >>
  PROVE  Progress(T, h, s, <<>>, {}, "running")
<1>0. DOMAIN T = {<<>>} /\ T[<<>>] = [kind |-> "dir", size |-> 0]
  BY DEF Promise!Node
<1>1. Replica(h)[<<>>] = [kind |-> "dir", size |-> 0] /\ <<>> \in DOMAIN Replica(h)
  BY DEF Replica
<1>2. <<>> \in Paths
  <2>1. Replica(h)[<<>>].kind = "dir"
    BY <1>1
  <2>. QED
    BY <1>1, <2>1, ReplicaPaths
<1>3. s \in Seq(Paths) /\ Len(s) = 1 /\ s[1] = <<>>
  BY <1>2
<1>4. \A p : OnIt(s, p) <=> p = <<>>
  BY <1>3 DEF OnIt
<1>5. Distinct(s)
  BY <1>3 DEF Distinct
<1>6. Bare(T, <<>>)
  <2>1. \A n \in PathNames : Append(<<>>, n) # <<>>
    BY EmptySeq, AppendProperties
  <2>. QED
    BY <1>0, <2>1 DEF Bare
<1>7. PartShown(T, h)
  BY <1>0, <1>1 DEF PartShown
<1>8. \A p : <<>> # <<p>>
  OBVIOUS
<1>9. Opened(T, h, s, <<>>, {})
  BY <1>0, <1>3, <1>4, <1>5, <1>6, <1>8 DEF Opened
<1>10. NoneForgotten(T, h, s, <<>>, {})
  BY <1>0, <1>4 DEF NoneForgotten, Awaited
<1>. QED
  BY <1>7, <1>9, <1>10 DEF Progress

LEMMA TakeProgress ==
  ASSUME NEW T, NEW h, NEW s, NEW l, Progress(T, h, s, <<>>, l, "running"), s # <<>>,
         NEW s2, s2 = SubSeq(s, 1, Len(s) - 1), NEW t, t = s[Len(s)]
  PROVE  Progress(T, h, s2, <<t>>, ChildrenOf(h, t), "running")
<1>1. /\ PartShown(T, h) /\ NoneForgotten(T, h, s, <<>>, l) /\ h \in HostTrees
      /\ s \in Seq(Paths) /\ Distinct(s)
      /\ \A p : OnIt(s, p) => p \in DOMAIN T /\ T[p].kind = "dir" /\ Bare(T, p)
  BY DEF Progress, Opened
<1>2. /\ s2 \in Seq(Paths) /\ Distinct(s2) /\ OnIt(s, t)
      /\ \A p : OnIt(s2, p) <=> OnIt(s, p) /\ p # t
  BY <1>1, OnPopped
<1>3. t \in Paths
  <2>1. \A k \in 1 .. Len(s) : s[k] \in Paths
    BY <1>1, ElementOfSeq
  <2>. QED
    BY <1>2, <2>1 DEF OnIt
<1>4. t \in DOMAIN T /\ T[t].kind = "dir" /\ Bare(T, t)
  BY <1>1, <1>2
<1>5. \A p : <<t>> = <<p>> <=> p = t
  OBVIOUS
<1>6. Opened(T, h, s2, <<t>>, ChildrenOf(h, t))
  BY <1>1, <1>2, <1>3, <1>4, <1>5 DEF Opened, Bare
<1>7. NoneForgotten(T, h, s2, <<t>>, ChildrenOf(h, t))
  <2>. SUFFICES ASSUME NEW p \in DOMAIN T, NEW n \in PathNames,
                       Append(p, n) \in Replicable(h), Append(p, n) \notin DOMAIN T
                PROVE  Awaited(s2, <<t>>, ChildrenOf(h, t), p, n)
    BY DEF NoneForgotten
  <2>1. OnIt(s, p)
    <3>1. Awaited(s, <<>>, l, p, n)
      BY <1>1 DEF NoneForgotten
    <3>2. <<>> # <<p>>
      OBVIOUS
    <3>. QED
      BY <3>1, <3>2 DEF Awaited
  <2>2. CASE p # t
    BY <1>2, <2>1, <2>2 DEF Awaited
  <2>3. CASE p = t
    <3>1. t \in Seq(HostNames) /\ n \in HostNames
      BY <1>3, PathTyped, HostAssumption
    <3>2. Append(t, n) \in DOMAIN h
      BY <1>1, <2>3, ReplicaPaths
    <3>3. n \in ChildrenOf(h, t)
      BY <1>1, <3>1, <3>2, ThereAreChildren
    <3>. QED
      BY <2>3, <3>3 DEF Awaited
  <2>. QED
    BY <2>2, <2>3
<1>. QED
  BY <1>1, <1>6, <1>7 DEF Progress

LEMMA CloseProgress ==
  ASSUME NEW T, NEW h, NEW s, NEW d, NEW l, Progress(T, h, s, d, l, "running"), l = {}
  PROVE  Progress(T, h, s, <<>>, l, "running")
<1>1. PartShown(T, h) /\ Opened(T, h, s, d, l) /\ NoneForgotten(T, h, s, d, l)
  BY DEF Progress
<1>2. \A p : <<>> # <<p>>
  OBVIOUS
<1>3. Opened(T, h, s, <<>>, l)
  BY <1>1, <1>2 DEF Opened
<1>4. NoneForgotten(T, h, s, <<>>, l)
  BY <1>1 DEF NoneForgotten, Awaited
<1>. QED
  BY <1>1, <1>3, <1>4 DEF Progress

LEMMA FinishProgress ==
  ASSUME NEW T, NEW h, NEW s, NEW d, NEW l, Progress(T, h, s, d, l, "running"),
         s = <<>>, d = <<>>
  PROVE  Progress(T, h, s, d, l, "ok")
BY DEF Progress

LEMMA FailProgress ==
  ASSUME NEW T, NEW h, NEW s, NEW d, NEW l, Progress(T, h, s, d, l, "running"),
         NEW l2, l2 \subseteq l
  PROVE  Progress(T, h, s, d, l2, "failed")
<1>1. PartShown(T, h) /\ Opened(T, h, s, d, l)
  BY DEF Progress
<1>2. Opened(T, h, s, d, l2)
  BY <1>1 DEF Opened
<1>. QED
  BY <1>1, <1>2 DEF Progress

LEMMA SkipProgress ==
  ASSUME NEW T, NEW h, NEW s, NEW d, NEW p, d = <<p>>, NEW l,
         Progress(T, h, s, d, l, "running"), NEW name,
         name \in PathNames => Append(p, name) \notin Replicable(h)
  PROVE  Progress(T, h, s, d, l \ {name}, "running")
<1>1. PartShown(T, h) /\ Opened(T, h, s, d, l) /\ NoneForgotten(T, h, s, d, l)
  BY DEF Progress
<1>2. Opened(T, h, s, d, l \ {name})
  BY <1>1 DEF Opened
<1>3. NoneForgotten(T, h, s, d, l \ {name})
  <2>. SUFFICES ASSUME NEW q \in DOMAIN T, NEW n \in PathNames,
                       Append(q, n) \in Replicable(h), Append(q, n) \notin DOMAIN T
                PROVE  Awaited(s, d, l \ {name}, q, n)
    BY DEF NoneForgotten
  <2>1. Awaited(s, d, l, q, n)
    BY <1>1 DEF NoneForgotten
  <2>2. d = <<q>> => q = p
    OBVIOUS
  <2>3. d = <<q>> => n # name
    BY <2>2
  <2>. QED
    BY <2>1, <2>3 DEF Awaited
<1>. QED
  BY <1>1, <1>2, <1>3 DEF Progress

(* An entry is made: what it shows is what the replica has there. *)
Entered(T, h, p, name, q, node) ==
  /\ name \in PathNames /\ p \in Paths /\ q = Append(p, name)
  /\ q \in Replicable(h) /\ node = Replica(h)[q]

LEMMA EnterOpened ==
  ASSUME NoDotsInPaths, NEW T, NEW h, NEW s, NEW d, NEW p, d = <<p>>, NEW l,
         Opened(T, h, s, d, l), NEW name \in l, NEW q, NEW node,
         Entered(T, h, p, name, q, node),
         \A r \in Seq(Names), n \in Names : Append(r, n) \in DOMAIN T => r \in DOMAIN T,
         PartShown(T, h),
         NEW T2, T2 = Promise!With(T, q, node),
         NEW s2, s2 = IF node.kind = "dir" THEN Append(s, q) ELSE s
  PROVE  Opened(T2, h, s2, d, l \ {name})
<1>1. /\ h \in HostTrees /\ s \in Seq(Paths) /\ Distinct(s)
      /\ \A r : OnIt(s, r) => r \in DOMAIN T /\ T[r].kind = "dir" /\ d # <<r>> /\ Bare(T, r)
      /\ p \in DOMAIN T /\ T[p].kind = "dir"
      /\ \A n \in l : n \in ChildrenOf(h, p) /\ (n \in PathNames => Append(p, n) \notin DOMAIN T)
  BY DEF Opened
<1>2. /\ name \in PathNames /\ name \in Names /\ p \in Paths /\ p \in Seq(Names)
      /\ q = Append(p, name) /\ q \in Seq(Names) /\ q # p /\ q \notin DOMAIN T
  <2>1. name \in PathNames /\ name \in Names /\ p \in Paths /\ q = Append(p, name)
    BY Constants DEF Entered
  <2>2. p \in Seq(Names)
    BY <2>1, PathTyped
  <2>3. q \in Seq(Names) /\ Len(q) = Len(p) + 1 /\ Len(p) \in Nat
    BY <2>1, <2>2, FrontIs
  <2>4. q # p
    BY <2>3
  <2>. QED
    BY <1>1, <2>1, <2>2, <2>3, <2>4
<1>3. /\ \A r : r \in DOMAIN T2 <=> r \in DOMAIN T \/ r = q
      /\ \A r \in DOMAIN T : T2[r] = T[r]
      /\ T2[q] = node
  BY <1>2 DEF Promise!With
<1>4. PathNames \subseteq Names /\ Paths \subseteq Seq(Names)
  BY Constants, PathTyped
<1>5. ASSUME NEW r, OnIt(s, r) PROVE r # p /\ r # q /\ Bare(T2, r)
  <2>1. r \in DOMAIN T /\ d # <<r>> /\ Bare(T, r)
    BY <1>1, <1>5
  <2>2. r \in Seq(Names)
    <3>1. \A k \in 1 .. Len(s) : s[k] \in Paths
      BY <1>1, ElementOfSeq
    <3>. QED
      BY <1>4, <1>5, <3>1 DEF OnIt
  <2>3. ASSUME NEW n \in PathNames PROVE Append(r, n) # q
    BY <1>2, <1>4, <2>1, <2>2, AppendUnique
  <2>. QED
    BY <1>2, <1>3, <2>1, <2>3 DEF Bare
<1>6. Bare(T2, q)
  <2>. SUFFICES ASSUME NEW n \in PathNames, Append(q, n) \in DOMAIN T2 PROVE FALSE
    BY DEF Bare
  <2>1. n \in Names /\ Len(Append(q, n)) = Len(q) + 1 /\ Len(q) \in Nat
    BY <1>2, <1>4, FrontIs
  <2>2. Append(q, n) # q
    BY <2>1
  <2>3. Append(q, n) \in DOMAIN T
    BY <1>3, <2>2
  <2>. QED
    BY <1>2, <2>1, <2>3
<1>7. /\ s2 \in Seq(Paths) /\ Distinct(s2)
      /\ \A r : OnIt(s2, r) <=> OnIt(s, r) \/ (r = q /\ node.kind = "dir")
  <2>1. CASE node.kind = "dir"
    <3>1. q \in Paths
      BY <1>1, <2>1, ReplicaPaths DEF Entered
    <3>2. ~ OnIt(s, q)
      BY <1>1, <1>2
    <3>. QED
      BY <1>1, <2>1, <3>1, <3>2, OnPushed
  <2>2. CASE node.kind # "dir"
    BY <1>1, <2>2
  <2>. QED
    BY <2>1, <2>2
<1>8. ASSUME NEW r, OnIt(s2, r)
      PROVE  r \in DOMAIN T2 /\ T2[r].kind = "dir" /\ d # <<r>> /\ Bare(T2, r)
  <2>1. CASE OnIt(s, r)
    BY <1>1, <1>3, <1>5, <2>1
  <2>2. CASE r = q /\ node.kind = "dir"
    <3>1. d # <<q>>
      BY <1>2
    <3>. QED
      BY <1>3, <1>6, <2>2, <3>1
  <2>. QED
    BY <1>7, <1>8, <2>1, <2>2
<1>9. ASSUME NEW r, d = <<r>>
      PROVE  /\ r \in DOMAIN T2 /\ T2[r].kind = "dir"
             /\ \A n \in l \ {name} :
                  n \in ChildrenOf(h, r) /\ (n \in PathNames => Append(r, n) \notin DOMAIN T2)
  <2>1. r = p
    BY <1>9
  <2>2. p \in DOMAIN T2 /\ T2[p].kind = "dir"
    BY <1>1, <1>3
  <2>3. ASSUME NEW n \in l \ {name}, n \in PathNames PROVE Append(p, n) \notin DOMAIN T2
    <3>1. Append(p, n) # q
      BY <1>2, <1>4, <2>3, AppendUnique
    <3>2. Append(p, n) \notin DOMAIN T
      BY <1>1, <2>3
    <3>. QED
      BY <1>3, <3>1, <3>2
  <2>. QED
    BY <1>1, <2>1, <2>2, <2>3
<1>. QED
  BY <1>1, <1>2, <1>7, <1>8, <1>9 DEF Opened

LEMMA EnterProgress ==
  ASSUME NoDotsInPaths, NEW T, NEW h, NEW s, NEW d, NEW p, d = <<p>>, NEW l,
         Progress(T, h, s, d, l, "running"), NEW name \in l, NEW q, NEW node,
         Entered(T, h, p, name, q, node),
         \A r \in Seq(Names), n \in Names : Append(r, n) \in DOMAIN T => r \in DOMAIN T,
         NEW T2, T2 = Promise!With(T, q, node),
         NEW s2, s2 = IF node.kind = "dir" THEN Append(s, q) ELSE s
  PROVE  Progress(T2, h, s2, d, l \ {name}, "running")
<1>1. PartShown(T, h) /\ Opened(T, h, s, d, l) /\ NoneForgotten(T, h, s, d, l)
  BY DEF Progress
<1>2. Opened(T2, h, s2, d, l \ {name})
  BY <1>1, EnterOpened
<1>3. /\ \A r : r \in DOMAIN T2 <=> r \in DOMAIN T \/ r = q
      /\ \A r \in DOMAIN T : r # q => T2[r] = T[r]
      /\ T2[q] = node
  BY DEF Promise!With
<1>4. h \in HostTrees /\ s \in Seq(Paths)
  BY <1>1 DEF Opened
<1>5. PartShown(T2, h)
  <2>1. q \in DOMAIN Replica(h) /\ node = Replica(h)[q]
    BY <1>4, ReplicaPaths DEF Entered
  <2>. QED
    BY <1>1, <1>3, <2>1 DEF PartShown
<1>6. ASSUME NEW r, OnIt(s, r) PROVE OnIt(s2, r)
  <2>1. CASE node.kind = "dir"
    <3>1. q \in Paths
      BY <1>4, <2>1, ReplicaPaths DEF Entered
    <3>. QED
      BY <1>4, <1>6, <2>1, <3>1, OnPushed
  <2>2. CASE node.kind # "dir"
    BY <1>6, <2>2
  <2>. QED
    BY <2>1, <2>2
<1>7. NoneForgotten(T2, h, s2, d, l \ {name})
  <2>. SUFFICES ASSUME NEW r \in DOMAIN T2, NEW n \in PathNames,
                       Append(r, n) \in Replicable(h), Append(r, n) \notin DOMAIN T2
                PROVE  Awaited(s2, d, l \ {name}, r, n)
    BY DEF NoneForgotten
  <2>1. CASE r \in DOMAIN T
    <3>1. Awaited(s, d, l, r, n)
      BY <1>1, <1>3, <2>1 DEF NoneForgotten
    <3>2. d = <<r>> => n # name
      <4>1. d = <<r>> => r = p
        OBVIOUS
      <4>. QED
        BY <1>3, <4>1 DEF Entered
    <3>. QED
      BY <1>6, <3>1, <3>2 DEF Awaited
  <2>2. CASE r = q
    <3>1. q \in Replicable(h) /\ node = Replica(h)[q]
      BY DEF Entered
    <3>2. q \in DOMAIN h /\ q # <<>> /\ q \in Seq(PathNames) /\ Append(q, n) \in DOMAIN h
      BY <1>4, <2>2, <3>1, ReplicaPaths
    <3>3. q \in Seq(HostNames) /\ n \in HostNames
      BY <1>4, <3>2, HostAssumption
    <3>4. h[q].kind = "dir"
      BY <1>4, <3>2, <3>3, HostParents
    <3>5. node.kind = "dir"
      BY <3>1, <3>2, <3>4 DEF Replica, Stored
    <3>6. q \in Paths
      BY <1>4, <3>1, <3>5, ReplicaPaths
    <3>7. OnIt(s2, q)
      BY <1>4, <3>5, <3>6, OnPushed
    <3>. QED
      BY <2>2, <3>7 DEF Awaited
  <2>. QED
    BY <1>3, <2>1, <2>2
<1>. QED
  BY <1>2, <1>5, <1>7 DEF Progress

(* A walk that is through has shown the whole replica. *)
LEMMA DoneProgress ==
  ASSUME NEW T, NEW h, NEW s, NEW d, NEW l, Progress(T, h, s, d, l, "ok"),
         <<>> \in DOMAIN T, T = [p \in DOMAIN T |-> T[p]]
  PROVE  T = Replica(h)
<1>1. /\ PartShown(T, h) /\ h \in HostTrees
      /\ \A p \in DOMAIN T, n \in PathNames :
           Append(p, n) \in Replicable(h) => Append(p, n) \in DOMAIN T
  <2>1. PartShown(T, h) /\ h \in HostTrees /\ s = <<>> /\ d = <<>> /\ NoneForgotten(T, h, s, d, l)
    BY DEF Progress, Opened
  <2>2. \A p : ~ OnIt(<<>>, p) /\ <<>> # <<p>>
    BY DEF OnIt
  <2>. QED
    BY <2>1, <2>2 DEF NoneForgotten, Awaited
<1>2. ASSUME NEW f \in Seq(PathNames), NEW n \in PathNames, f # <<>>,
             Append(f, n) \in Replicable(h)
      PROVE  f \in Replicable(h)
  <2>1. Append(f, n) \in DOMAIN h
    BY <1>1, <1>2, ReplicaPaths
  <2>2. f \in Seq(HostNames) /\ n \in HostNames
    <3>1. PathNames \subseteq HostNames
      BY HostAssumption
    <3>. QED
      BY <3>1, SeqMonotonic
  <2>3. f \in DOMAIN h /\ h[f].kind = "dir"
    BY <1>1, <1>2, <2>1, <2>2, HostParents
  <2>4. \A k \in DOMAIN f : f[k] \in PathNames
    BY <1>2
  <2>. QED
    BY <2>3, <2>4 DEF Replicable
<1>. DEFINE S == {k \in Nat : \A p \in Replicable(h) : Len(p) = k => p \in DOMAIN T}
<1>3. 0 \in S
  <2>1. \A p \in Replicable(h) : p # <<>> /\ p \in Seq(PathNames)
    BY <1>1, ReplicaPaths
  <2>. QED
    BY <2>1, EmptySeq
<1>4. ASSUME NEW k \in Nat, k \in S PROVE k + 1 \in S
  <2>. SUFFICES ASSUME NEW p \in Replicable(h), Len(p) = k + 1 PROVE p \in DOMAIN T
    OBVIOUS
  <2>1. p \in Seq(PathNames) /\ p # <<>>
    BY <1>1, ReplicaPaths
  <2>2. PICK f \in Seq(PathNames), n \in PathNames : p = Append(f, n)
    BY <2>1, SequenceEmptyOrAppend
  <2>3. Len(f) = k
    <3>1. Len(p) = Len(f) + 1 /\ Len(f) \in Nat
      BY <2>2, AppendProperties, LenProperties
    <3>. QED
      BY <3>1
  <2>4. f \in DOMAIN T
    <3>1. CASE f = <<>>
      BY <3>1
    <3>2. CASE f # <<>>
      <4>1. f \in Replicable(h)
        BY <1>2, <2>2, <3>2
      <4>. QED
        BY <1>4, <2>3, <4>1
    <3>. QED
      BY <3>1, <3>2
  <2>. QED
    BY <1>1, <2>2, <2>4
<1>5. \A k \in Nat : k \in S
  <2>. HIDE DEF S
  <2>. QED
    BY <1>3, <1>4, NatSetInduction
<1>6. \A p \in Replicable(h) : p \in DOMAIN T
  <2>1. \A p \in Replicable(h) : Len(p) \in Nat
    BY <1>1, ReplicaPaths, LenProperties
  <2>. QED
    BY <1>5, <2>1
<1>7. DOMAIN T = DOMAIN Replica(h)
  BY <1>1, <1>6, ReplicaPaths DEF PartShown
<1>8. \A p \in DOMAIN T : T[p] = Replica(h)[p]
  BY <1>1 DEF PartShown
<1>9. Replica(h) = [p \in DOMAIN Replica(h) |-> Replica(h)[p]]
  BY DEF Replica
<1>. QED
  BY <1>7, <1>8, <1>9

-----------------------------------------------------------------------------
(* The walk's own steps.                                                   *)
WalkIInv ==
  /\ TreeIInv /\ Progress(Tree, host, stack, dir, left, result)
  /\ FailsForRoomOnly

LEMMA VarsStay ==
  ASSUME TreeIInv, UNCHANGED vars
  PROVE  TreeIInv' /\ Tree' = Tree
<1>1. TreeParts'
  BY HostNoDots, IdleTree DEF Kept
<1>2. IInv'
  BY DiskUnchanged DEF TreeIInv, vars, IInv, TypeOK, Outcomes
<1>3. TreeIInv'
  BY <1>1, <1>2 DEF TreeIInv
<1>4. UNCHANGED disk
  BY DEF vars
<1>. QED
  BY <1>3, <1>4, HostNoDots, DiskKeepsTree

LEMMA WalkStarts == HostInit => WalkIInv
<1>. SUFFICES ASSUME HostInit PROVE WalkIInv
  OBVIOUS
<1>1. Init /\ host \in HostTrees /\ stack = << <<>> >> /\ dir = <<>> /\ left = {}
      /\ result = "running"
  BY DEF HostInit
<1>2. TreeIInv /\ Promise!Init
  BY <1>1, HostNoDots, InitTree, InitPromised
<1>3. Tree = [p \in {<<>>} |-> Promise!Node("dir", 0)]
  BY <1>2 DEF Promise!Init
<1>4. Progress(Tree, host, stack, <<>>, {}, "running")
  BY <1>1, <1>3, StartProgress
<1>. QED
  BY <1>1, <1>2, <1>4 DEF WalkIInv, FailsForRoomOnly

(* The steps that make no call of the handle. *)
LEMMA CallFreeSteps ==
  ASSUME WalkIInv, TakeDir \/ CloseDir \/ Finish \/ HostError \/ UNCHANGED hostVars
  PROVE  WalkIInv'
<1>0. UNCHANGED vars /\ UNCHANGED host
  BY DEF TakeDir, CloseDir, Finish, HostError, hostVars, walk
<1>1. TreeIInv' /\ Tree' = Tree
  BY <1>0, VarsStay DEF WalkIInv
<1>2. Progress(Tree, host, stack, dir, left, result) /\ FailsForRoomOnly
  BY DEF WalkIInv
<1>t. PICK t : t = Tree
  OBVIOUS
<1>3. Progress(t, host, stack, dir, left, result)
  BY <1>2, <1>t
<1>4. SUFFICES Progress(t, host', stack', dir', left', result') /\ FailsForRoomOnly'
  BY <1>1, <1>t DEF WalkIInv
<1>5. CASE TakeDir
  <2>1. /\ result = "running" /\ dir = <<>> /\ stack # <<>>
        /\ dir' = <<stack[Len(stack)]>> /\ left' = ChildrenOf(host, stack[Len(stack)])
        /\ stack' = SubSeq(stack, 1, Len(stack) - 1) /\ host' = host /\ result' = result
    BY <1>5 DEF TakeDir, Between, Running, Popped
  <2>2. Progress(t, host, stack, <<>>, left, "running")
    BY <1>3, <2>1
  <2>3. \A s2, u : s2 = SubSeq(stack, 1, Len(stack) - 1) /\ u = stack[Len(stack)]
          => Progress(t, host, s2, <<u>>, ChildrenOf(host, u), "running")
    BY <2>1, <2>2, TakeProgress
  <2>4. Progress(t, host', stack', dir', left', result')
    BY <2>1, <2>3
  <2>. QED
    BY <2>1, <2>4 DEF FailsForRoomOnly
<1>6. CASE CloseDir
  <2>1. /\ result = "running" /\ left = {} /\ dir' = <<>>
        /\ left' = left /\ stack' = stack /\ host' = host /\ result' = result
    BY <1>6 DEF CloseDir, Reading, Running
  <2>2. Progress(t, host, stack, dir, left, "running")
    BY <1>3, <2>1
  <2>3. Progress(t, host, stack, <<>>, left, "running")
    BY <2>1, <2>2, CloseProgress
  <2>. QED
    BY <2>1, <2>3 DEF FailsForRoomOnly
<1>7. CASE Finish
  <2>1. /\ result = "running" /\ stack = <<>> /\ dir = <<>> /\ result' = "ok"
        /\ left' = left /\ stack' = stack /\ host' = host /\ dir' = dir
    BY <1>7 DEF Finish, Between, Running
  <2>2. Progress(t, host, stack, dir, left, "running")
    BY <1>3, <2>1
  <2>3. Progress(t, host, stack, dir, left, "ok")
    BY <2>1, <2>2, FinishProgress
  <2>. QED
    BY <2>1, <2>3 DEF FailsForRoomOnly
<1>8. CASE HostError
  <2>1. /\ result = "running" /\ result' = "failed" /\ lost' = TRUE
        /\ left' = left /\ stack' = stack /\ host' = host /\ dir' = dir
    BY <1>8 DEF HostError, Running
  <2>2. Progress(t, host, stack, dir, left, "running")
    BY <1>3, <2>1
  <2>3. Progress(t, host, stack, dir, left, "failed")
    BY <2>2, FailProgress
  <2>. QED
    BY <2>1, <2>3 DEF FailsForRoomOnly
<1>9. CASE UNCHANGED hostVars
  <2>1. UNCHANGED walk /\ outcome' = outcome
    BY <1>9 DEF hostVars, vars
  <2>. QED
    BY <1>2, <1>3, <2>1 DEF walk, FailsForRoomOnly
<1>. QED
  BY <1>5, <1>6, <1>7, <1>8, <1>9

(* What the walk sees in the directory it reads. *)
Seen(p, name, q) ==
  /\ p \in Paths /\ dir = <<p>> /\ name \in left /\ name \in PathNames
  /\ q = Append(p, name)

LEMMA SeenEntry ==
  ASSUME WalkIInv, NEW p, NEW name, NEW q, Seen(p, name, q)
  PROVE  /\ host \in HostTrees /\ HostNode(name) = host[q] /\ q \in DOMAIN host
         /\ host[q].kind \in {"dir", "reg", "lnk", "other"}
         /\ host[q].kind # "other" /\ (host[q].kind = "lnk" => Lossy(host[q]) <= MaxTarget)
              <=> q \in Replicable(host)
         /\ q \in Replicable(host) =>
              Replica(host)[q] = Promise!Node(host[q].kind, Stored(host[q]).size)
         /\ Leads(EdgesOf, p, OpenPath(p)) /\ CanInsert(OpenPath(p), name)
<1>1. /\ Opened(Tree, host, stack, dir, left) /\ TreeIInv
      /\ p \in Paths /\ dir = <<p>> /\ name \in left /\ name \in PathNames /\ q = Append(p, name)
  BY DEF WalkIInv, Progress, Seen
<1>2. host \in HostTrees
  BY <1>1 DEF Opened
<1>3. /\ p \in DOMAIN Tree /\ Tree[p].kind = "dir"
      /\ name \in ChildrenOf(host, p) /\ Append(p, name) \notin DOMAIN Tree
  BY <1>1 DEF Opened
<1>4. Leads(EdgesOf, p, OpenPath(p)) /\ CanInsert(OpenPath(p), name)
  BY <1>1, <1>3, HostNoDots, RoomForName
<1>5. q \in DOMAIN host
  BY <1>1, <1>2, <1>3, PathTyped, ChildrenThere
<1>6. HostNode(name) = host[q]
  <2>1. Here = p
    BY <1>1 DEF Here
  <2>. QED
    BY <1>1, <2>1 DEF HostNode
<1>7. host[q].kind \in {"dir", "reg", "lnk", "other"} /\ q # <<>>
  BY <1>2, <1>5, HostAssumption DEF HostNodes
<1>8. \A k \in DOMAIN q : q[k] \in PathNames
  <2>1. q \in Seq(PathNames)
    BY <1>1, PathTyped, AppendProperties
  <2>. QED
    BY <2>1
<1>9. host[q].kind # "other" /\ (host[q].kind = "lnk" => Lossy(host[q]) <= MaxTarget)
        <=> q \in Replicable(host)
  BY <1>5, <1>8 DEF Replicable
<1>10. ASSUME q \in Replicable(host)
       PROVE  Replica(host)[q] = Promise!Node(host[q].kind, Stored(host[q]).size)
  <2>1. Replica(host)[q] = Stored(host[q])
    BY <1>7, <1>10 DEF Replica
  <2>. QED
    BY <2>1 DEF Promise!Node, Stored
<1>. QED
  BY <1>2, <1>4, <1>5, <1>6, <1>7, <1>9, <1>10

(* An entry that is passed over is none of the replica's. *)
LEMMA EntryPassed ==
  ASSUME WalkIInv, TreeIInv', Tree' = Tree, NEW p, dir = <<p>>, NEW name,
         name \in PathNames => Append(p, name) \notin Replicable(host),
         Running, left' = left \ {name}, UNCHANGED <<host, stack, dir, result>>
  PROVE  WalkIInv'
<1>1. Progress(Tree, host, stack, dir, left, "running") /\ result = "running"
  BY DEF WalkIInv, Running
<1>t. PICK t : t = Tree
  OBVIOUS
<1>2. Progress(t, host, stack, dir, left, "running")
  BY <1>1, <1>t
<1>3. Progress(t, host, stack, dir, left \ {name}, "running")
  BY <1>2, SkipProgress
<1>4. Progress(Tree', host', stack', dir', left', result')
  BY <1>1, <1>3, <1>t
<1>. QED
  BY <1>1, <1>4 DEF WalkIInv, FailsForRoomOnly

(* An entry is asked of the handle. *)
LEMMA EntryAsked ==
  ASSUME WalkIInv, TreeIInv', NEW p, NEW name, NEW q, Seen(p, name, q),
         NEW kind, NEW size, kind = host[q].kind,
         kind # "other", kind = "lnk" => Lossy(host[q]) <= MaxTarget,
         size = Stored(host[q]).size,
         Inserted(OpenPath(p), name, Promise!Node(kind, size)),
         Running, left' = left \ {name}, UNCHANGED <<host, dir, lost>>,
         stack' = IF outcome' = "ok" /\ kind = "dir" THEN Append(stack, q) ELSE stack, Settle
  PROVE  WalkIInv'
<1>1. Progress(Tree, host, stack, dir, left, "running") /\ result = "running" /\ TreeIInv
  BY DEF WalkIInv, Running
<1>2. /\ dir = <<p>> /\ name \in left /\ name \in PathNames /\ p \in Paths /\ q = Append(p, name)
  BY DEF Seen
<1>3. /\ host \in HostTrees /\ q \in Replicable(host)
      /\ Replica(host)[q] = Promise!Node(kind, size)
      /\ Leads(EdgesOf, p, OpenPath(p)) /\ CanInsert(OpenPath(p), name)
  BY SeenEntry
<1>t. PICK t, u, node : t = Tree /\ u = Tree' /\ node = Promise!Node(kind, size)
  OBVIOUS
<1>4. Progress(t, host, stack, dir, left, "running")
  BY <1>1, <1>t
<1>5. CASE outcome' = "ok"
  <2>1. u = Promise!With(t, q, node)
    <3>1. Tree' = Promise!With(Tree, Append(p, name), Promise!Node(kind, size))
      BY <1>3, <1>5 DEF Inserted
    <3>. QED
      BY <1>2, <1>t, <3>1
  <2>2. \A r \in Seq(Names), n \in Names : Append(r, n) \in DOMAIN t => r \in DOMAIN t
    BY <1>1, <1>t, HostNoDots, TreeHasParents
  <2>3. Entered(t, host, p, name, q, node)
    BY <1>2, <1>3, <1>t DEF Entered
  <2>4. node.kind = kind
    BY <1>t DEF Promise!Node
  <2>5. PICK s2 : s2 = stack' /\ s2 = IF node.kind = "dir" THEN Append(stack, q) ELSE stack
    BY <1>5, <2>4
  <2>6. Progress(u, host, s2, dir, left \ {name}, "running")
    BY <1>2, <1>4, <2>1, <2>2, <2>3, <2>5, HostNoDots, EnterProgress, ZenonT(60)
  <2>7. result' = "running"
    BY <1>1, <1>5 DEF Settle
  <2>8. Progress(Tree', host', stack', dir', left', result')
    BY <1>t, <2>5, <2>6, <2>7
  <2>. QED
    BY <2>7, <2>8 DEF WalkIInv, FailsForRoomOnly
<1>6. CASE outcome' # "ok"
  <2>1. u = t /\ outcome' \in {"nospace", "full"}
    BY <1>3, <1>6, <1>t DEF Inserted
  <2>2. result' = "failed" /\ stack' = stack
    BY <1>6 DEF Settle
  <2>3. Progress(t, host, stack, dir, left \ {name}, "failed")
    BY <1>4, FailProgress
  <2>4. Progress(Tree', host', stack', dir', left', result')
    BY <1>t, <2>1, <2>2, <2>3
  <2>. QED
    BY <2>1, <2>4 DEF WalkIInv, FailsForRoomOnly
<1>. QED
  BY <1>5, <1>6

(* What the three calls come to. *)
LEMMA CallsStay ==
  ASSUME WalkIInv, NEW path \in Paths, NEW name \in PathNames,
         \/ Mkdir(path, name)
         \/ \E size \in FileSizes : CreateFile(path, name, size)
         \/ \E size \in TargetSizes : Symlink(path, name, size)
  PROVE  TreeIInv'
<1>1. TreeIInv /\ IInv
  BY DEF WalkIInv, TreeIInv
<1>2. IInv'
  BY <1>1, HostNoDots, CreatesIInv
<1>3. Kept
  BY <1>1, <1>2, HostNoDots, CreatesTree
<1>. QED
  BY <1>2, <1>3 DEF Kept, TreeIInv

LEMMA DirSeen ==
  ASSUME WalkIInv, NEW p, NEW name, NEW q, Seen(p, name, q), Running,
         left' = left \ {name}, UNCHANGED <<host, dir, lost>>, DirEntry(name)
  PROVE  WalkIInv'
<1>1. p \in Paths /\ name \in PathNames /\ Here = p /\ q = Append(p, name)
  BY DEF Seen, Here
<1>2. /\ Mkdir(p, name) /\ host[q].kind = "dir" /\ Settle
      /\ stack' = IF outcome' = "ok" THEN Append(stack, q) ELSE stack
  BY <1>1, SeenEntry DEF DirEntry
<1>3. TreeIInv' /\ TreeIInv
  BY <1>1, <1>2, CallsStay DEF WalkIInv
<1>4. Inserted(OpenPath(p), name, Promise!Node("dir", 0))
  <2>1. Shape("dir", BlockSize, 1)
    BY HostNoDots, Constants DEF Shape
  <2>. QED
    BY <1>1, <1>2, <1>3, <2>1, HostNoDots, InsertPromised DEF Mkdir
<1>5. Stored(host[q]).size = 0
  BY <1>2 DEF Stored
<1>. QED
  BY <1>2, <1>3, <1>4, <1>5, EntryAsked

LEMMA FileSeen ==
  ASSUME WalkIInv, NEW p, NEW name, NEW q, Seen(p, name, q), Running,
         left' = left \ {name}, UNCHANGED <<host, dir, lost>>, FileEntry(name)
  PROVE  WalkIInv'
<1>1. p \in Paths /\ name \in PathNames /\ Here = p
  BY DEF Seen, Here
<1>2. /\ host \in HostTrees /\ q \in DOMAIN host /\ HostNode(name) = host[q]
  BY SeenEntry
<1>3. PICK size : size = host[q].size
  OBVIOUS
<1>4. CreateFile(p, name, size) /\ host[q].kind = "reg" /\ Settle /\ stack' = stack
  BY <1>1, <1>2, <1>3 DEF FileEntry
<1>5. size \in FileSizes
  BY <1>2, <1>3, <1>4, HostWithin
<1>6. TreeIInv' /\ TreeIInv
  BY <1>1, <1>4, <1>5, CallsStay DEF WalkIInv
<1>7. Inserted(OpenPath(p), name, Promise!Node("reg", size))
  <2>1. Shape("reg", size, CeilDiv(size, BlockSize))
    BY <1>5, HostNoDots, Constants, CeilDivBounds DEF Shape
  <2>. QED
    BY <1>1, <1>4, <1>5, <1>6, <2>1, HostNoDots, InsertPromised DEF CreateFile
<1>8. Stored(host[q]).size = size
  BY <1>3, <1>4 DEF Stored
<1>. QED
  BY <1>4, <1>6, <1>7, <1>8, EntryAsked

LEMMA LinkSeen ==
  ASSUME WalkIInv, NEW p, NEW name, NEW q, Seen(p, name, q), Running,
         left' = left \ {name}, UNCHANGED <<host, dir, lost>>, LinkEntry(name)
  PROVE  WalkIInv'
<1>1. p \in Paths /\ name \in PathNames /\ Here = p /\ dir = <<p>> /\ q = Append(p, name)
  BY DEF Seen, Here
<1>2. /\ host \in HostTrees /\ q \in DOMAIN host /\ HostNode(name) = host[q]
      /\ q \in Replicable(host) =>
           host[q].kind # "other" /\ (host[q].kind = "lnk" => Lossy(host[q]) <= MaxTarget)
  BY SeenEntry
<1>3. PICK size : size = Lossy(host[q])
  OBVIOUS
<1>4. /\ Symlink(p, name, size) /\ host[q].kind = "lnk" /\ stack' = stack
      /\ IF size > MaxTarget THEN result' = result ELSE Settle
  BY <1>1, <1>2, <1>3 DEF LinkEntry
<1>5. size \in TargetSizes /\ size \in Nat /\ size > 0
  <2>1. /\ host[q] \in HostNodes /\ host[q].size > 0
        /\ Lossy(host[q]) \in TargetSizes
    BY <1>2, <1>4, HostAssumption, HostWithin
  <2>2. host[q].size \in Nat /\ host[q].bad \in [1 .. 3 -> Nat]
    BY <1>4, <2>1 DEF HostNodes
  <2>3. host[q].bad[1] \in Nat /\ host[q].bad[2] \in Nat
    BY <2>2
  <2>. QED
    BY <1>3, <2>1, <2>2, <2>3 DEF Lossy
<1>6. TreeIInv' /\ TreeIInv
  BY <1>1, <1>4, <1>5, CallsStay DEF WalkIInv
<1>7. CASE size > MaxTarget
  <2>1. Refuse
    BY <1>4, <1>7 DEF Symlink, MaxTarget
  <2>2. Tree' = Tree
    BY <1>6, <2>1, HostNoDots, IdlePromised
  <2>3. q \notin Replicable(host)
    BY <1>2, <1>3, <1>4, <1>5, <1>7 DEF MaxTarget
  <2>. QED
    BY <1>1, <1>4, <1>6, <1>7, <2>2, <2>3, EntryPassed
<1>8. CASE ~ (size > MaxTarget)
  <2>1. Insert(OpenPath(p), name, "lnk", 1, size, 0)
    <3>1. size \in 1 .. MaxTarget
      BY <1>5, <1>8 DEF MaxTarget
    <3>. QED
      BY <1>4, <3>1 DEF Symlink
  <2>2. Inserted(OpenPath(p), name, Promise!Node("lnk", size))
    <3>1. Shape("lnk", size, 0)
      BY <1>5 DEF Shape
    <3>. QED
      BY <1>1, <1>5, <1>6, <2>1, <3>1, HostNoDots, InsertPromised
  <2>3. Settle /\ Lossy(host[q]) <= MaxTarget
    BY <1>3, <1>4, <1>5, <1>8 DEF MaxTarget
  <2>4. Stored(host[q]).size = size
    BY <1>3, <1>4 DEF Stored
  <2>. QED
    BY <1>4, <1>6, <2>2, <2>3, <2>4, EntryAsked
<1>. QED
  BY <1>7, <1>8

LEMMA SkipSeen ==
  ASSUME WalkIInv, NEW p \in Paths, dir = <<p>>, NEW name \in left, Running,
         left' = left \ {name}, UNCHANGED <<host, dir, lost>>, SkipEntry(name)
  PROVE  WalkIInv'
<1>1. UNCHANGED vars /\ UNCHANGED <<stack, result>>
  BY DEF SkipEntry
<1>2. TreeIInv' /\ Tree' = Tree
  BY <1>1, VarsStay DEF WalkIInv
<1>3. ASSUME name \in PathNames PROVE Append(p, name) \notin Replicable(host)
  <2>1. PICK q : q = Append(p, name)
    OBVIOUS
  <2>2. Seen(p, name, q)
    BY <1>3, <2>1 DEF Seen
  <2>3. HostNode(name).kind = "other"
    BY <1>3 DEF SkipEntry
  <2>4. q \notin Replicable(host)
    BY <2>2, <2>3, SeenEntry
  <2>. QED
    BY <2>1, <2>4
<1>. QED
  BY <1>1, <1>2, <1>3, EntryPassed

LEMMA WalkOn == WalkIInv /\ [HostNext]_hostVars => WalkIInv'
<1>. SUFFICES ASSUME WalkIInv, [HostNext]_hostVars PROVE WalkIInv'
  OBVIOUS
<1>1. CASE TakeDir \/ CloseDir \/ Finish \/ HostError \/ UNCHANGED hostVars
  BY <1>1, CallFreeSteps
<1>2. CASE SeeEntry
  <2>1. PICK p \in Paths : dir = <<p>>
    BY <1>2 DEF SeeEntry, Reading, WalkIInv, Progress, Opened
  <2>2. PICK name \in left :
          /\ left' = left \ {name}
          /\ SkipEntry(name) \/ DirEntry(name) \/ FileEntry(name) \/ LinkEntry(name)
    BY <1>2 DEF SeeEntry
  <2>3. Running /\ UNCHANGED <<host, dir, lost>>
    BY <1>2 DEF SeeEntry, Reading
  <2>4. CASE SkipEntry(name)
    BY <2>1, <2>2, <2>3, <2>4, SkipSeen
  <2>5. CASE DirEntry(name) \/ FileEntry(name) \/ LinkEntry(name)
    <3>1. PICK q : q = Append(p, name)
      OBVIOUS
    <3>2. Seen(p, name, q)
      BY <2>1, <2>5, <3>1 DEF Seen, DirEntry, FileEntry, LinkEntry
    <3>. QED
      BY <2>2, <2>3, <2>5, <3>2, DirSeen, FileSeen, LinkSeen
  <2>. QED
    BY <2>2, <2>4, <2>5
<1>. QED
  BY <1>1, <1>2 DEF HostNext, Walks

LEMMA WalkInvariant == HostSpec => []WalkIInv
  BY WalkStarts, WalkOn, PTL DEF HostSpec

(* A walk of a host tree that says it succeeded has made all of the tree   *)
(* that v0 can hold, targets as to_string_lossy gives them, and nothing    *)
(* else, in whatever order the host gave the entries:                      *)
(* populate_from_host_tree loses no directory it has pushed and no entry   *)
(* after a warning.                                                        *)
THEOREM SuccessfulWalkReplicates == HostSpec => []SuccessIsReplica
<1>1. WalkIInv => SuccessIsReplica
  <2>. SUFFICES ASSUME WalkIInv, result = "ok" PROVE Tree = Replica(host)
    BY DEF SuccessIsReplica
  <2>1. PICK t : t = Tree
    OBVIOUS
  <2>2. Progress(t, host, stack, dir, left, "ok")
    BY <2>1 DEF WalkIInv
  <2>3. IsTreeOf(t, EdgesOf, NodesOf)
    BY <2>1, HostNoDots, TreeIs DEF WalkIInv
  <2>4. <<>> \in DOMAIN t /\ t = [p \in DOMAIN t |-> t[p]]
    BY <2>3, LeadsRoot DEF IsTreeOf
  <2>5. t = Replica(host)
    BY <2>2, <2>4, DoneProgress
  <2>. QED
    BY <2>1, <2>5
<1>. QED
  BY <1>1, WalkInvariant, PTL

(* Wherever the walk stops, for want of room or because the host failed,   *)
(* what the image shows is part of what it was to hold, each node with its *)
(* kind and its size, that of a symlink after to_string_lossy.             *)
THEOREM ImageStaysWithin == HostSpec => []ImageWithinReplica
<1>1. WalkIInv => ImageWithinReplica
  BY DEF WalkIInv, Progress, PartShown, ImageWithinReplica
<1>. QED
  BY <1>1, WalkInvariant, PTL

(* The handle refuses no call of a walk: a walk fails for want of inodes,  *)
(* of blocks or of room in a directory's block, or because the host does.  *)
THEOREM WalkFailsForRoom == HostSpec => []FailsForRoomOnly
  BY WalkInvariant, PTL DEF WalkIInv
=============================================================================
