--------------------------- MODULE FsCrash_proofs ---------------------------
(***************************************************************************)
(* The writes of a call lead where the call says, whatever was interrupted *)
(* before; up to the first crash, what the image shows between two writes  *)
(* of a call; and what the first crash and the repeated call leave.        *)
(*                                                                         *)
(* First the courses apart from the program: which images a sequence of    *)
(* writes passes through.                                                  *)
(***************************************************************************)
EXTENDS FsCrash, Namespace_proofs

Device(bb, ib, ino, blks, cnt) ==
  [blockBitmap |-> bb, inodeBitmap |-> ib, inodes |-> ino, dirBlocks |-> blks,
   counts |-> cnt]

(* The course takes the device from g to end, by way of images in G.       *)
Takes(h, g, course, end) ==
  /\ Len(h) = Len(course) + 1 /\ h[1] = g /\ h[Len(h)] = end
  /\ \A k \in 1 .. Len(course) : h[k + 1] = Put(h[k], course[k])

Passes(g, course, G, end) ==
  (\E W : course \in Seq(W)) /\ (\E h \in Seq(G) : Takes(h, g, course, end))

LEMMA PassesEnd ==
  ASSUME NEW g, NEW G, NEW end, Passes(g, <<>>, G, end) PROVE g = end /\ g \in G
<1>1. PICK h \in Seq(G) : Takes(h, g, <<>>, end)
  BY DEF Passes
<1>2. Len(h) = 1 /\ h[1] = g /\ h[1] = end
  BY <1>1 DEF Takes
<1>. QED
  BY <1>2

LEMMA PassesStep ==
  ASSUME NEW g, NEW course, NEW G, NEW end, Passes(g, course, G, end), course # <<>>
  PROVE  g \in G /\ Passes(Put(g, Head(course)), Tail(course), G, end)
<1>1. PICK W : course \in Seq(W)
  BY DEF Passes
<1>2. PICK h \in Seq(G) : Takes(h, g, course, end)
  BY DEF Passes
<1>3. Len(course) \in Nat /\ Len(course) >= 1 /\ Len(h) = Len(course) + 1 /\ h # <<>>
  BY <1>1, <1>2 DEF Takes
<1>4. g \in G
  BY <1>2, <1>3 DEF Takes
<1>5. Tail(course) \in Seq(W) /\ Len(Tail(course)) = Len(course) - 1
  BY <1>1, <1>3
<1>6. Tail(h) \in Seq(G) /\ Len(Tail(h)) = Len(h) - 1
  BY <1>2, <1>3
<1>7. \A k \in 1 .. Len(course) : Tail(h)[k] = h[k + 1]
  BY <1>2, <1>3
<1>8. \A k \in 1 .. (Len(course) - 1) : Tail(course)[k] = course[k + 1]
  BY <1>1, <1>3
<1>9. Takes(Tail(h), Put(g, Head(course)), Tail(course), end)
  <2>1. Tail(h)[1] = Put(g, Head(course))
    <3>1. h[2] = Put(h[1], course[1])
      BY <1>2, <1>3 DEF Takes
    <3>2. Head(course) = course[1] /\ h[1] = g /\ Tail(h)[1] = h[2]
      BY <1>1, <1>2, <1>3, <1>7 DEF Takes
    <3>. QED
      BY <3>1, <3>2
  <2>2. Tail(h)[Len(Tail(h))] = end
    <3>1. Tail(h)[Len(course)] = h[Len(course) + 1]
      BY <1>3, <1>7
    <3>. QED
      BY <1>2, <1>3, <1>6, <3>1 DEF Takes
  <2>3. ASSUME NEW k \in 1 .. Len(Tail(course))
        PROVE  Tail(h)[k + 1] = Put(Tail(h)[k], Tail(course)[k])
    <3>1. k \in 1 .. (Len(course) - 1) /\ k + 1 \in 1 .. Len(course) /\ k \in 1 .. Len(course)
      BY <1>3, <1>5
    <3>2. Tail(h)[k + 1] = h[(k + 1) + 1] /\ Tail(h)[k] = h[k + 1] /\ Tail(course)[k] = course[k + 1]
      BY <1>7, <1>8, <3>1
    <3>3. h[(k + 1) + 1] = Put(h[k + 1], course[k + 1])
      BY <1>2, <3>1 DEF Takes
    <3>. QED
      BY <3>2, <3>3
  <2>. QED
    BY <1>3, <1>5, <1>6, <2>1, <2>2, <2>3 DEF Takes
<1>. QED
  BY <1>4, <1>5, <1>6, <1>9 DEF Passes

LEMMA LeastOf ==
  ASSUME NEW T \in SUBSET Nat, T # {}
  PROVE  \E m \in T : \A k \in T : m <= k
<1>1. PICK m \in T : \A k \in T : ~ (<<k, m>> \in OpToRel(<, Nat))
  BY NatLessThanWellFounded, WFMin
<1>2. \A k \in T : ~ (k < m)
  BY <1>1 DEF OpToRel
<1>. QED
  BY <1>2

(* The writes left out change nothing. *)
LEMMA StaysPut ==
  ASSUME NEW g, NEW course, NEW G, NEW end, NEW W, course \in Seq(W),
         NEW h \in Seq(G), Takes(h, g, course, end),
         NEW m \in Nat, m <= Len(course),
         \A k \in 1 .. m : Put(g, course[k]) = g
  PROVE  h[m + 1] = g
<1>. DEFINE S == {k \in Nat : k <= m => h[k + 1] = g}
<1>1. 0 \in S
  BY DEF Takes
<1>2. ASSUME NEW k \in Nat, k \in S PROVE k + 1 \in S
  <2>. SUFFICES ASSUME k + 1 <= m PROVE h[(k + 1) + 1] = g
    OBVIOUS
  <2>1. k + 1 \in 1 .. Len(course) /\ k + 1 \in 1 .. m
    OBVIOUS
  <2>2. h[(k + 1) + 1] = Put(h[k + 1], course[k + 1])
    BY <2>1 DEF Takes
  <2>3. h[k + 1] = g
    BY <1>2
  <2>. QED
    BY <2>1, <2>2, <2>3
<1>3. m \in S
  <2>. HIDE DEF S
  <2>. QED
    BY <1>1, <1>2, NatSetInduction
<1>. QED
  BY <1>3

LEMMA PassesPending ==
  ASSUME NEW g, NEW course, NEW G, NEW end, Passes(g, course, G, end)
  PROVE  Passes(g, Pending(g, course), G, end)
<1>1. PICK W : course \in Seq(W)
  BY DEF Passes
<1>2. PICK h \in Seq(G) : Takes(h, g, course, end)
  BY DEF Passes
<1>. DEFINE n == Len(course)
            K == {k \in 1 .. n : Put(g, course[k]) # g}
<1>3. n \in Nat /\ Len(h) = n + 1 /\ h[1] = g /\ h[n + 1] = end /\ g \in G
  BY <1>1, <1>2 DEF Takes
<1>4. CASE K = {}
  <2>1. Pending(g, course) = <<>>
    BY <1>4 DEF Pending
  <2>2. h[n + 1] = g
    BY <1>1, <1>2, <1>3, <1>4, StaysPut
  <2>3. Takes(<<g>>, g, <<>>, end)
    BY <1>3, <2>2 DEF Takes
  <2>4. <<g>> \in Seq(G) /\ <<>> \in Seq(W)
    BY <1>3
  <2>. QED
    BY <2>1, <2>3, <2>4 DEF Passes
<1>5. CASE K # {}
  <2>. DEFINE m == CHOOSE k \in K : \A j \in K : k <= j
  <2>1. m \in K /\ \A j \in K : m <= j
    <3>1. K \in SUBSET Nat
      BY <1>3
    <3>2. \E k \in K : \A j \in K : k <= j
      BY <1>5, <3>1, LeastOf
    <3>. QED
      BY <3>2
  <2>2. Pending(g, course) = SubSeq(course, m, n)
    BY <1>5 DEF Pending
  <2>. HIDE DEF m
  <2>3. m \in 1 .. n /\ m - 1 \in Nat /\ m - 1 <= n
    BY <1>3, <2>1
  <2>4. \A k \in 1 .. (m - 1) : Put(g, course[k]) = g
    <3>. SUFFICES ASSUME NEW k \in 1 .. (m - 1), Put(g, course[k]) # g PROVE FALSE
      OBVIOUS
    <3>1. k \in K
      BY <1>3, <2>3
    <3>. QED
      BY <2>1, <2>3, <3>1
  <2>. HIDE DEF K
  <2>5. h[m] = g
    <3>1. h[(m - 1) + 1] = g
      BY <1>1, <1>2, <2>3, <2>4, StaysPut
    <3>. QED
      BY <2>3, <3>1
  <2>. DEFINE c2 == SubSeq(course, m, n)
              h2 == SubSeq(h, m, n + 1)
  <2>6. /\ c2 \in Seq(W) /\ Len(c2) = n - m + 1
        /\ \A k \in 1 .. (n - m + 1) : c2[k] = course[m + k - 1]
    BY <1>1, <1>3, <2>3, SubSeqProperties
  <2>7. /\ h2 \in Seq(G) /\ Len(h2) = n - m + 2
        /\ \A k \in 1 .. (n - m + 2) : h2[k] = h[m + k - 1]
    BY <1>2, <1>3, <2>3, SubSeqProperties
  <2>. HIDE DEF c2, h2, n
  <2>8. Takes(h2, g, c2, end)
    <3>1. h2[1] = g
      <4>1. h2[1] = h[m + 1 - 1]
        BY <1>3, <2>3, <2>7
      <4>. QED
        BY <2>3, <2>5, <4>1
    <3>2. h2[Len(h2)] = end
      <4>1. Len(h2) \in 1 .. (n - m + 2) /\ m + Len(h2) - 1 = n + 1
        BY <1>3, <2>3, <2>7
      <4>. QED
        BY <1>3, <2>7, <4>1
    <3>3. ASSUME NEW k \in 1 .. Len(c2) PROVE h2[k + 1] = Put(h2[k], c2[k])
      <4>1. /\ k \in 1 .. (n - m + 1) /\ k \in 1 .. (n - m + 2) /\ k + 1 \in 1 .. (n - m + 2)
            /\ m + k - 1 \in 1 .. n /\ m + (k + 1) - 1 = (m + k - 1) + 1
        BY <1>3, <2>3, <2>6
      <4>2. h[(m + k - 1) + 1] = Put(h[m + k - 1], course[m + k - 1])
        BY <1>2, <4>1 DEF Takes, n
      <4>. QED
        BY <2>6, <2>7, <4>1, <4>2
    <3>. QED
      BY <1>3, <2>3, <2>6, <2>7, <3>1, <3>2, <3>3 DEF Takes
  <2>. QED
    BY <2>2, <2>6, <2>7, <2>8 DEF Passes, c2
<1>. QED
  BY <1>4, <1>5

-----------------------------------------------------------------------------
(* What each write does to the device.                                     *)
OnInodes(f) == [i \in Inodes |-> f[i]]
OnBlocks(f) == [b \in Blocks |-> f[b]]
Set(f, g, S) == [x \in DOMAIN f |-> IF x \in S THEN g[x] ELSE f[x]]

LEMMA PutIs ==
  ASSUME NEW bb, NEW ib, NEW ino, NEW blks, NEW cnt, NEW f, NEW S
  PROVE  LET g == Device(bb, ib, ino, blks, cnt) IN
         /\ Put(g, Write("blockBitmap", f)) = Device(f, ib, ino, blks, cnt)
         /\ Put(g, Write("inodeBitmap", f)) = Device(bb, f, ino, blks, cnt)
         /\ Put(g, Write("inodes", Only(f, S))) = Device(bb, ib, Set(ino, f, S), blks, cnt)
         /\ Put(g, Write("dirBlocks", Only(f, S))) = Device(bb, ib, ino, Set(blks, f, S), cnt)
         /\ Put(g, Write("counts", f)) = Device(bb, ib, ino, blks, f)
<1>1. \A h : Over(h, Only(f, S)) = Set(h, f, S)
  BY DEF Over, Only, Set
<1>2. PICK g : g = Device(bb, ib, ino, blks, cnt)
  OBVIOUS
<1>3. Put(g, Write("blockBitmap", f)) = Device(f, ib, ino, blks, cnt)
  BY <1>2 DEF Put, Write, Device
<1>4. Put(g, Write("inodeBitmap", f)) = Device(bb, f, ino, blks, cnt)
  BY <1>2 DEF Put, Write, Device
<1>5. Put(g, Write("inodes", Only(f, S))) = Device(bb, ib, Set(ino, f, S), blks, cnt)
  <2>1. Put(g, Write("inodes", Only(f, S))) = [g EXCEPT !.inodes = Over(@, Only(f, S))]
    BY DEF Put, Write
  <2>. QED
    BY <1>1, <1>2, <2>1 DEF Device
<1>6. Put(g, Write("dirBlocks", Only(f, S))) = Device(bb, ib, ino, Set(blks, f, S), cnt)
  <2>1. Put(g, Write("dirBlocks", Only(f, S))) = [g EXCEPT !.dirBlocks = Over(@, Only(f, S))]
    BY DEF Put, Write
  <2>. QED
    BY <1>1, <1>2, <2>1 DEF Device
<1>7. Put(g, Write("counts", f)) = Device(bb, ib, ino, blks, f)
  BY <1>2 DEF Put, Write, Device
<1>. QED
  BY <1>2, <1>3, <1>4, <1>5, <1>6, <1>7

LEMMA PutWhole ==
  ASSUME NEW bb, NEW ib, NEW ino, NEW blks, NEW cnt, NEW f
  PROVE  LET g == Device(bb, ib, ino, blks, cnt) IN
         /\ Put(g, Write("blockBitmap", f)) = Device(f, ib, ino, blks, cnt)
         /\ Put(g, Write("inodeBitmap", f)) = Device(bb, f, ino, blks, cnt)
         /\ Put(g, Write("counts", f)) = Device(bb, ib, ino, blks, f)
<1>1. PICK S : S = {}
  OBVIOUS
<1>. QED
  BY <1>1, PutIs

(* A course is its images, one write between each two.                     *)
LEMMA Passes3 ==
  ASSUME NEW w1, NEW w2, NEW w3, NEW g0, NEW g1, NEW g2, NEW g3,
         g1 = Put(g0, w1), g2 = Put(g1, w2), g3 = Put(g2, w3)
  PROVE  Passes(g0, <<w1, w2, w3>>, {g0, g1, g2, g3}, g3)
<1>. DEFINE c == <<w1, w2, w3>>
            h == <<g0, g1, g2, g3>>
<1>1. c \in Seq({w1, w2, w3})
  OBVIOUS
<1>2. h \in Seq({g0, g1, g2, g3})
  OBVIOUS
<1>3. Takes(h, g0, c, g3)
  <2>1. Len(h) = 4 /\ Len(c) = 3
    OBVIOUS
  <2>2. ASSUME NEW k \in 1 .. 3 PROVE h[k + 1] = Put(h[k], c[k])
    <3>1. k = 1 \/ k = 2 \/ k = 3
      OBVIOUS
    <3>. QED
      BY <3>1
  <2>. QED
    BY <2>1, <2>2 DEF Takes
<1>. QED
  BY <1>1, <1>2, <1>3 DEF Passes

LEMMA Passes6 ==
  ASSUME NEW w1, NEW w2, NEW w3, NEW w4, NEW w5, NEW w6,
         NEW g0, NEW g1, NEW g2, NEW g3, NEW g4, NEW g5, NEW g6,
         g1 = Put(g0, w1), g2 = Put(g1, w2), g3 = Put(g2, w3), g4 = Put(g3, w4),
         g5 = Put(g4, w5), g6 = Put(g5, w6)
  PROVE  Passes(g0, <<w1, w2, w3, w4, w5, w6>>, {g0, g1, g2, g3, g4, g5, g6}, g6)
<1>. DEFINE c == <<w1, w2, w3, w4, w5, w6>>
            h == <<g0, g1, g2, g3, g4, g5, g6>>
<1>1. c \in Seq({w1, w2, w3, w4, w5, w6})
  OBVIOUS
<1>2. h \in Seq({g0, g1, g2, g3, g4, g5, g6})
  OBVIOUS
<1>3. Takes(h, g0, c, g6)
  <2>1. Len(h) = 7 /\ Len(c) = 6
    OBVIOUS
  <2>2. ASSUME NEW k \in 1 .. 6 PROVE h[k + 1] = Put(h[k], c[k])
    <3>1. k = 1 \/ k = 2 \/ k = 3 \/ k = 4 \/ k = 5 \/ k = 6
      OBVIOUS
    <3>. QED
      BY <3>1
  <2>. QED
    BY <2>1, <2>2 DEF Takes
<1>. QED
  BY <1>1, <1>2, <1>3 DEF Passes

LEMMA Passes7 ==
  ASSUME NEW w1, NEW w2, NEW w3, NEW w4, NEW w5, NEW w6, NEW w7,
         NEW g0, NEW g1, NEW g2, NEW g3, NEW g4, NEW g5, NEW g6, NEW g7,
         g1 = Put(g0, w1), g2 = Put(g1, w2), g3 = Put(g2, w3), g4 = Put(g3, w4),
         g5 = Put(g4, w5), g6 = Put(g5, w6), g7 = Put(g6, w7)
  PROVE  Passes(g0, <<w1, w2, w3, w4, w5, w6, w7>>, {g0, g1, g2, g3, g4, g5, g6, g7}, g7)
<1>. DEFINE c == <<w1, w2, w3, w4, w5, w6, w7>>
            h == <<g0, g1, g2, g3, g4, g5, g6, g7>>
<1>1. c \in Seq({w1, w2, w3, w4, w5, w6, w7})
  OBVIOUS
<1>2. h \in Seq({g0, g1, g2, g3, g4, g5, g6, g7})
  OBVIOUS
<1>3. Takes(h, g0, c, g7)
  <2>1. Len(h) = 8 /\ Len(c) = 7
    OBVIOUS
  <2>2. ASSUME NEW k \in 1 .. 7 PROVE h[k + 1] = Put(h[k], c[k])
    <3>1. k = 1 \/ k = 2 \/ k = 3 \/ k = 4 \/ k = 5 \/ k = 6 \/ k = 7
      OBVIOUS
    <3>. QED
      BY <3>1
  <2>. QED
    BY <2>1, <2>2 DEF Takes
<1>. QED
  BY <1>1, <1>2, <1>3 DEF Passes

LEMMA Passes11 ==
  ASSUME NEW w1, NEW w2, NEW w3, NEW w4, NEW w5, NEW w6, NEW w7, NEW w8, NEW w9,
         NEW w10, NEW w11,
         NEW g0, NEW g1, NEW g2, NEW g3, NEW g4, NEW g5, NEW g6, NEW g7, NEW g8,
         NEW g9, NEW g10, NEW g11,
         g1 = Put(g0, w1), g2 = Put(g1, w2), g3 = Put(g2, w3), g4 = Put(g3, w4),
         g5 = Put(g4, w5), g6 = Put(g5, w6), g7 = Put(g6, w7), g8 = Put(g7, w8),
         g9 = Put(g8, w9), g10 = Put(g9, w10), g11 = Put(g10, w11)
  PROVE  Passes(g0, <<w1, w2, w3, w4, w5, w6, w7, w8, w9, w10, w11>>,
                {g0, g1, g2, g3, g4, g5, g6, g7, g8, g9, g10, g11}, g11)
<1>. DEFINE c == <<w1, w2, w3, w4, w5, w6, w7, w8, w9, w10, w11>>
            h == <<g0, g1, g2, g3, g4, g5, g6, g7, g8, g9, g10, g11>>
            G == {g0, g1, g2, g3, g4, g5, g6, g7, g8, g9, g10, g11}
<1>1. c \in Seq({w1, w2, w3, w4, w5, w6, w7, w8, w9, w10, w11})
  OBVIOUS
<1>2. h \in Seq(G)
  OBVIOUS
<1>3. Takes(h, g0, c, g11)
  <2>1. Len(h) = 12 /\ Len(c) = 11
    OBVIOUS
  <2>2. ASSUME NEW k \in 1 .. 11 PROVE h[k + 1] = Put(h[k], c[k])
    <3>1. \/ k = 1 \/ k = 2 \/ k = 3 \/ k = 4 \/ k = 5 \/ k = 6 \/ k = 7 \/ k = 8
          \/ k = 9 \/ k = 10 \/ k = 11
      OBVIOUS
    <3>. QED
      BY <3>1
  <2>. QED
    BY <2>1, <2>2 DEF Takes
<1>. QED
  <2>. HIDE DEF c, h, G
  <2>1. Passes(g0, c, G, g11)
    BY <1>1, <1>2, <1>3 DEF Passes
  <2>. QED
    BY <2>1 DEF c, G

-----------------------------------------------------------------------------
(* Each course leads from the device as it was to the device of the call.  *)
IsDevice(g) ==
  g = Device(g.blockBitmap, g.inodeBitmap, OnInodes(g.inodes), OnBlocks(g.dirBlocks), g.counts)

Whole(ino, blks) == ino = OnInodes(ino) /\ blks = OnBlocks(blks)

(* Only the records in S and the blocks in T are another. *)
Edits(ino, ino2, S, blks, blks2, T) ==
  /\ Whole(ino, blks) /\ Whole(ino2, blks2)
  /\ \A i \in Inodes : i \notin S => ino2[i] = ino[i]
  /\ \A b \in Blocks : b \notin T => blks2[b] = blks[b]

LEMMA SetWhole ==
  ASSUME NEW ino, NEW blks, Whole(ino, blks), NEW ino2, NEW blks2, NEW S, NEW T
  PROVE  Whole(Set(ino, ino2, S), Set(blks, blks2, T))
<1>1. DOMAIN ino = Inodes /\ DOMAIN blks = Blocks
  <2>1. DOMAIN OnInodes(ino) = Inodes /\ DOMAIN OnBlocks(blks) = Blocks
    BY DEF OnInodes, OnBlocks
  <2>. QED
    BY <2>1 DEF Whole
<1>2. Set(ino, ino2, S) = OnInodes(Set(ino, ino2, S))
  BY <1>1 DEF Set, OnInodes
<1>3. Set(blks, blks2, T) = OnBlocks(Set(blks, blks2, T))
  BY <1>1 DEF Set, OnBlocks
<1>. QED
  BY <1>2, <1>3 DEF Whole

LEMMA WholeDomains ==
  ASSUME NEW ino, NEW blks, Whole(ino, blks)
  PROVE  /\ DOMAIN ino = Inodes /\ DOMAIN blks = Blocks
         /\ ino = [i \in Inodes |-> ino[i]] /\ blks = [b \in Blocks |-> blks[b]]
<1>1. DOMAIN OnInodes(ino) = Inodes /\ DOMAIN OnBlocks(blks) = Blocks
  BY DEF OnInodes, OnBlocks
<1>. QED
  BY <1>1 DEF Whole, OnInodes, OnBlocks

LEMMA SetAll ==
  ASSUME NEW ino, NEW ino2, NEW S, NEW blks, NEW blks2, NEW T,
         Edits(ino, ino2, S, blks, blks2, T)
  PROVE  Set(ino, ino2, S) = ino2 /\ Set(blks, blks2, T) = blks2
<1>1. /\ DOMAIN ino = Inodes /\ DOMAIN blks = Blocks
      /\ ino2 = [i \in Inodes |-> ino2[i]] /\ blks2 = [b \in Blocks |-> blks2[b]]
  BY WholeDomains DEF Edits
<1>2. Set(ino, ino2, S) = [i \in Inodes |-> ino2[i]]
  BY <1>1 DEF Set, Edits
<1>3. Set(blks, blks2, T) = [b \in Blocks |-> blks2[b]]
  BY <1>1 DEF Set, Edits
<1>. QED
  BY <1>1, <1>2, <1>3

LEMMA SetTwice ==
  ASSUME NEW f, NEW f2, NEW S, NEW T
  PROVE  Set(Set(f, f2, S), f2, T) = Set(f, f2, S \cup T)
  BY DEF Set

LEMMA DeviceIs ==
  ASSUME NEW bb, NEW ib, NEW ino, NEW blks, NEW cnt, Whole(ino, blks)
  PROVE  IsDevice(Device(bb, ib, ino, blks, cnt))
<1>1. PICK g : g = Device(bb, ib, ino, blks, cnt)
  OBVIOUS
<1>2. /\ g.blockBitmap = bb /\ g.inodeBitmap = ib /\ g.inodes = ino
      /\ g.dirBlocks = blks /\ g.counts = cnt
  BY <1>1 DEF Device
<1>3. g = Device(g.blockBitmap, g.inodeBitmap, g.inodes, g.dirBlocks, g.counts)
  BY <1>1, <1>2
<1>. QED
  BY <1>1, <1>2, <1>3 DEF IsDevice, Whole

LEMMA DeviceWhole ==
  ASSUME NEW g, IsDevice(g)
  PROVE  /\ Whole(g.inodes, g.dirBlocks)
         /\ g = Device(g.blockBitmap, g.inodeBitmap, g.inodes, g.dirBlocks, g.counts)
<1>1. PICK ino, blks : ino = OnInodes(g.inodes) /\ blks = OnBlocks(g.dirBlocks)
  OBVIOUS
<1>2. g.inodes = ino /\ g.dirBlocks = blks
  BY <1>1 DEF IsDevice, Device
<1>3. OnInodes(g.inodes) = g.inodes /\ OnBlocks(g.dirBlocks) = g.dirBlocks
  BY <1>1, <1>2
<1>. QED
  BY <1>3 DEF IsDevice, Whole

LEMMA GoalDevice ==
  /\ Goal = Device(blockBitmap, inodeBitmap, inodes, dirBlocks, diskCounts)
  /\ IsDevice(Goal) <=> Whole(inodes, dirBlocks)
<1>1. Goal = Device(blockBitmap, inodeBitmap, inodes, dirBlocks, diskCounts)
  BY DEF Goal, Device
<1>2. Goal.inodes = inodes /\ Goal.dirBlocks = dirBlocks
  BY DEF Goal
<1>3. IsDevice(Goal) => Whole(inodes, dirBlocks)
  BY <1>2, DeviceWhole
<1>. QED
  BY <1>1, <1>3, DeviceIs

(* create_file, mkdir, symlink: N has the new inode, M its blocks. *)
InsertImages(d, N, M) ==
  LET S == {inodes[i].start : i \in {d}}
      ino == Set(inodes, inodes', N)
      blks == Set(dirBlocks, dirBlocks', M)
      linked == Set(dirBlocks, dirBlocks', M \cup S)
  IN {Device(blockBitmap, inodeBitmap, inodes, dirBlocks, diskCounts),
      Device(blockBitmap, inodeBitmap', inodes, dirBlocks, diskCounts),
      Device(blockBitmap', inodeBitmap', inodes, dirBlocks, diskCounts),
      Device(blockBitmap', inodeBitmap', ino, dirBlocks, diskCounts),
      Device(blockBitmap', inodeBitmap', ino, blks, diskCounts),
      Device(blockBitmap', inodeBitmap', ino, linked, diskCounts),
      Device(blockBitmap', inodeBitmap', inodes', dirBlocks', diskCounts),
      Device(blockBitmap', inodeBitmap', inodes', dirBlocks', diskCounts')}

LEMMA InsertPasses ==
  ASSUME NEW d, NEW N, N = inodeBitmap' \ inodeBitmap,
         NEW M, M = blockBitmap' \ blockBitmap,
         Edits(inodes, inodes', N \cup {d}, dirBlocks, dirBlocks', M \cup {inodes[d].start})
  PROVE  Passes(Goal, InsertCourse(d), InsertImages(d, N, M), Goal')
<1>. DEFINE S == {inodes[i].start : i \in {d}}
            ino == Set(inodes, inodes', N)
            blks == Set(dirBlocks, dirBlocks', M)
            linked == Set(dirBlocks, dirBlocks', M \cup S)
            g0 == Device(blockBitmap, inodeBitmap, inodes, dirBlocks, diskCounts)
            g1 == Device(blockBitmap, inodeBitmap', inodes, dirBlocks, diskCounts)
            g2 == Device(blockBitmap', inodeBitmap', inodes, dirBlocks, diskCounts)
            g3 == Device(blockBitmap', inodeBitmap', ino, dirBlocks, diskCounts)
            g4 == Device(blockBitmap', inodeBitmap', ino, blks, diskCounts)
            g5 == Device(blockBitmap', inodeBitmap', ino, linked, diskCounts)
            g6 == Device(blockBitmap', inodeBitmap', inodes', dirBlocks', diskCounts)
            g7 == Device(blockBitmap', inodeBitmap', inodes', dirBlocks', diskCounts')
<1>1. /\ Set(ino, inodes', {d}) = inodes' /\ linked = dirBlocks'
      /\ Set(blks, dirBlocks', S) = linked
  <2>1. S = {inodes[d].start}
    OBVIOUS
  <2>. QED
    BY <2>1, SetAll, SetTwice
<1>2. g1 = Put(g0, InodeBits) /\ g2 = Put(g1, BlockBits)
  BY PutWhole DEF InodeBits, BlockBits
<1>3. g3 = Put(g2, InodeRecords(N)) /\ g4 = Put(g3, Write("dirBlocks", Only(dirBlocks', M)))
  <2>1. InodeRecords(N) = Write("inodes", Only(inodes', N))
    BY DEF InodeRecords
  <2>2. g3 = Put(g2, Write("inodes", Only(inodes', N)))
    BY PutIs
  <2>3. g4 = Put(g3, Write("dirBlocks", Only(dirBlocks', M)))
    BY PutIs
  <2>. QED
    BY <2>1, <2>2, <2>3
<1>4. g5 = Put(g4, BlocksOf(dirBlocks', {d}))
  <2>1. BlocksOf(dirBlocks', {d}) = Write("dirBlocks", Only(dirBlocks', S))
    BY DEF BlocksOf
  <2>2. Put(g4, Write("dirBlocks", Only(dirBlocks', S)))
          = Device(blockBitmap', inodeBitmap', ino, Set(blks, dirBlocks', S), diskCounts)
    BY PutIs
  <2>. QED
    BY <1>1, <2>1, <2>2
<1>5. g6 = Put(g5, InodeRecords({d})) /\ g7 = Put(g6, Counts)
  <2>0. InodeRecords({d}) = Write("inodes", Only(inodes', {d}))
    BY DEF InodeRecords
  <2>1. Put(g5, Write("inodes", Only(inodes', {d})))
          = Device(blockBitmap', inodeBitmap', Set(ino, inodes', {d}), linked, diskCounts)
    BY PutIs
  <2>2. g7 = Put(g6, Counts)
    BY PutWhole DEF Counts
  <2>. QED
    BY <1>1, <2>0, <2>1, <2>2
<1>6. Goal = g0 /\ Goal' = g7
  <2>1. Goal = g0
    BY GoalDevice
  <2>2. Goal' = g7
    BY DEF Goal, Device
  <2>. QED
    BY <2>1, <2>2
<1>7. InsertCourse(d) = <<InodeBits, BlockBits, InodeRecords(N),
        Write("dirBlocks", Only(dirBlocks', M)), BlocksOf(dirBlocks', {d}),
        InodeRecords({d}), Counts>>
  BY DEF InsertCourse
<1>8. InsertImages(d, N, M) = {g0, g1, g2, g3, g4, g5, g6, g7}
  BY DEF InsertImages
<1>. HIDE DEF g0, g1, g2, g3, g4, g5, g6, g7
<1>9. Passes(g0, <<InodeBits, BlockBits, InodeRecords(N),
        Write("dirBlocks", Only(dirBlocks', M)), BlocksOf(dirBlocks', {d}),
        InodeRecords({d}), Counts>>, {g0, g1, g2, g3, g4, g5, g6, g7}, g7)
  BY <1>2, <1>3, <1>4, <1>5, Passes7
<1>. QED
  BY <1>6, <1>7, <1>8, <1>9

(* unlink, rmdir. *)
RemoveImages(t) ==
  LET ino == Set(inodes, inodes', {t}) IN
  {Device(blockBitmap, inodeBitmap, inodes, dirBlocks, diskCounts),
   Device(blockBitmap', inodeBitmap, inodes, dirBlocks, diskCounts),
   Device(blockBitmap', inodeBitmap', inodes, dirBlocks, diskCounts),
   Device(blockBitmap', inodeBitmap', ino, dirBlocks, diskCounts),
   Device(blockBitmap', inodeBitmap', ino, dirBlocks', diskCounts),
   Device(blockBitmap', inodeBitmap', inodes', dirBlocks', diskCounts),
   Device(blockBitmap', inodeBitmap', inodes', dirBlocks', diskCounts')}

LEMMA RemovePasses ==
  ASSUME NEW d, NEW t,
         Edits(inodes, inodes', {t, d}, dirBlocks, dirBlocks', {inodes[d].start})
  PROVE  Passes(Goal, RemoveCourse(d, t), RemoveImages(t), Goal')
<1>. DEFINE S == {inodes[i].start : i \in {d}}
            ino == Set(inodes, inodes', {t})
            g0 == Device(blockBitmap, inodeBitmap, inodes, dirBlocks, diskCounts)
            g1 == Device(blockBitmap', inodeBitmap, inodes, dirBlocks, diskCounts)
            g2 == Device(blockBitmap', inodeBitmap', inodes, dirBlocks, diskCounts)
            g3 == Device(blockBitmap', inodeBitmap', ino, dirBlocks, diskCounts)
            g4 == Device(blockBitmap', inodeBitmap', ino, dirBlocks', diskCounts)
            g5 == Device(blockBitmap', inodeBitmap', inodes', dirBlocks', diskCounts)
            g6 == Device(blockBitmap', inodeBitmap', inodes', dirBlocks', diskCounts')
<1>1. Set(ino, inodes', {d}) = inodes' /\ Set(dirBlocks, dirBlocks', S) = dirBlocks'
  <2>1. S = {inodes[d].start} /\ {t, d} = {t} \cup {d}
    OBVIOUS
  <2>. QED
    BY <2>1, SetAll, SetTwice
<1>2. g1 = Put(g0, BlockBits) /\ g2 = Put(g1, InodeBits) /\ g3 = Put(g2, InodeRecords({t}))
  <2>1. InodeRecords({t}) = Write("inodes", Only(inodes', {t}))
    BY DEF InodeRecords
  <2>2. g3 = Put(g2, Write("inodes", Only(inodes', {t})))
    BY PutIs
  <2>3. g1 = Put(g0, BlockBits) /\ g2 = Put(g1, InodeBits)
    BY PutWhole DEF InodeBits, BlockBits
  <2>. QED
    BY <2>1, <2>2, <2>3
<1>3. g4 = Put(g3, BlocksOf(dirBlocks', {d}))
  <2>1. BlocksOf(dirBlocks', {d}) = Write("dirBlocks", Only(dirBlocks', S))
    BY DEF BlocksOf
  <2>2. Put(g3, Write("dirBlocks", Only(dirBlocks', S)))
          = Device(blockBitmap', inodeBitmap', ino, Set(dirBlocks, dirBlocks', S), diskCounts)
    BY PutIs
  <2>. QED
    BY <1>1, <2>1, <2>2
<1>4. g5 = Put(g4, InodeRecords({d})) /\ g6 = Put(g5, Counts)
  <2>0. InodeRecords({d}) = Write("inodes", Only(inodes', {d}))
    BY DEF InodeRecords
  <2>1. Put(g4, Write("inodes", Only(inodes', {d})))
          = Device(blockBitmap', inodeBitmap', Set(ino, inodes', {d}), dirBlocks', diskCounts)
    BY PutIs
  <2>2. g6 = Put(g5, Counts)
    BY PutWhole DEF Counts
  <2>. QED
    BY <1>1, <2>0, <2>1, <2>2
<1>5. Goal = g0 /\ Goal' = g6
  <2>1. Goal = g0
    BY GoalDevice
  <2>2. Goal' = g6
    BY DEF Goal, Device
  <2>. QED
    BY <2>1, <2>2
<1>6. RemoveCourse(d, t) = <<BlockBits, InodeBits, InodeRecords({t}),
        BlocksOf(dirBlocks', {d}), InodeRecords({d}), Counts>>
  BY DEF RemoveCourse
<1>7. RemoveImages(t) = {g0, g1, g2, g3, g4, g5, g6}
  BY DEF RemoveImages
<1>. HIDE DEF g0, g1, g2, g3, g4, g5, g6
<1>8. Passes(g0, <<BlockBits, InodeBits, InodeRecords({t}), BlocksOf(dirBlocks', {d}),
        InodeRecords({d}), Counts>>, {g0, g1, g2, g3, g4, g5, g6}, g6)
  BY <1>2, <1>3, <1>4, Passes6
<1>. QED
  BY <1>5, <1>6, <1>7, <1>8

(* truncate. *)
ResizeImages ==
  {Device(blockBitmap, inodeBitmap, inodes, dirBlocks, diskCounts),
   Device(blockBitmap', inodeBitmap, inodes, dirBlocks, diskCounts),
   Device(blockBitmap', inodeBitmap', inodes', dirBlocks', diskCounts),
   Device(blockBitmap', inodeBitmap', inodes', dirBlocks', diskCounts')}

LEMMA ResizePasses ==
  ASSUME NEW i, inodeBitmap' = inodeBitmap,
         Edits(inodes, inodes', {i}, dirBlocks, dirBlocks', {})
  PROVE  Passes(Goal, ResizeCourse(i), ResizeImages, Goal')
<1>. DEFINE g0 == Device(blockBitmap, inodeBitmap, inodes, dirBlocks, diskCounts)
            g1 == Device(blockBitmap', inodeBitmap, inodes, dirBlocks, diskCounts)
            g2 == Device(blockBitmap', inodeBitmap', inodes', dirBlocks', diskCounts)
            g3 == Device(blockBitmap', inodeBitmap', inodes', dirBlocks', diskCounts')
<1>1. Set(inodes, inodes', {i}) = inodes' /\ dirBlocks' = dirBlocks
  <2>1. Set(inodes, inodes', {i}) = inodes' /\ Set(dirBlocks, dirBlocks', {}) = dirBlocks'
    BY SetAll
  <2>2. Set(dirBlocks, dirBlocks', {}) = [b \in DOMAIN dirBlocks |-> dirBlocks[b]]
    BY DEF Set
  <2>3. dirBlocks = [b \in DOMAIN dirBlocks |-> dirBlocks[b]]
    BY WholeDomains DEF Edits
  <2>. QED
    BY <2>1, <2>2, <2>3
<1>2. g1 = Put(g0, BlockBits)
  BY PutWhole DEF BlockBits
<1>3. g2 = Put(g1, InodeRecords({i}))
  <2>0. InodeRecords({i}) = Write("inodes", Only(inodes', {i}))
    BY DEF InodeRecords
  <2>1. Put(g1, Write("inodes", Only(inodes', {i})))
          = Device(blockBitmap', inodeBitmap, Set(inodes, inodes', {i}), dirBlocks, diskCounts)
    BY PutIs
  <2>. QED
    BY <1>1, <2>0, <2>1
<1>4. g3 = Put(g2, Counts)
  BY PutWhole DEF Counts
<1>5. Goal = g0 /\ Goal' = g3
  <2>1. Goal = g0
    BY GoalDevice
  <2>2. Goal' = g3
    BY DEF Goal, Device
  <2>. QED
    BY <2>1, <2>2
<1>6. ResizeCourse(i) = <<BlockBits, InodeRecords({i}), Counts>>
  BY DEF ResizeCourse
<1>7. ResizeImages = {g0, g1, g2, g3}
  BY DEF ResizeImages
<1>. HIDE DEF g0, g1, g2, g3
<1>8. Passes(g0, <<BlockBits, InodeRecords({i}), Counts>>, {g0, g1, g2, g3}, g3)
  BY <1>2, <1>3, <1>4, Passes3
<1>. QED
  BY <1>5, <1>6, <1>7, <1>8

(* rename: u, a and r are the blocks once the destination is unlinked, the *)
(* new entry added and the old one removed.                                *)
MoveImages(d1, t, u, a, r) ==
  LET ino == Set(inodes, inodes', Displaced(t))
      ino1 == Set(inodes, inodes', Displaced(t) \cup {d1})
  IN {Device(blockBitmap, inodeBitmap, inodes, dirBlocks, diskCounts),
      Device(blockBitmap', inodeBitmap, inodes, dirBlocks, diskCounts),
      Device(blockBitmap', inodeBitmap', inodes, dirBlocks, diskCounts),
      Device(blockBitmap', inodeBitmap', ino, dirBlocks, diskCounts),
      Device(blockBitmap', inodeBitmap', ino, u, diskCounts),
      Device(blockBitmap', inodeBitmap', ino, u, diskCounts'),
      Device(blockBitmap', inodeBitmap', ino, a, diskCounts'),
      Device(blockBitmap', inodeBitmap', ino, r, diskCounts'),
      Device(blockBitmap', inodeBitmap', ino, dirBlocks', diskCounts'),
      Device(blockBitmap', inodeBitmap', ino1, dirBlocks', diskCounts'),
      Device(blockBitmap', inodeBitmap', inodes', dirBlocks', diskCounts')}

BlockEdit(blks, blks2, i) == Edits(inodes, inodes, {}, blks, blks2, {inodes[i].start})

LEMMA EditPut ==
  ASSUME NEW bb, NEW ib, NEW ino, NEW cnt, NEW blks, NEW blks2, NEW i,
         BlockEdit(blks, blks2, i)
  PROVE  Put(Device(bb, ib, ino, blks, cnt), BlocksOf(blks2, {i}))
           = Device(bb, ib, ino, blks2, cnt)
<1>. DEFINE S == {inodes[j].start : j \in {i}}
<1>1. BlocksOf(blks2, {i}) = Write("dirBlocks", Only(blks2, S))
  BY DEF BlocksOf
<1>2. S = {inodes[i].start}
  OBVIOUS
<1>3. Set(blks, blks2, S) = blks2
  BY <1>2, SetAll DEF BlockEdit
<1>4. Put(Device(bb, ib, ino, blks, cnt), Write("dirBlocks", Only(blks2, S)))
        = Device(bb, ib, ino, Set(blks, blks2, S), cnt)
  BY PutIs
<1>. QED
  BY <1>1, <1>3, <1>4

(* The blocks rename writes on its way. *)
AddedBlocks(u, s, d2, newName) ==
  IF outcome' = "full" THEN u
  ELSE [u EXCEPT ![inodes[d2].start] = Add(@, newName, s, FtOf(inodes[s].kind))]

RemovedBlocks(u, a, s, d1, oldName) ==
  IF outcome' = "full" THEN u
  ELSE [a EXCEPT ![inodes[d1].start] = Remove(@, s, oldName)]

MoveEdited(s, d1, d2, t, u, a, r) ==
  /\ BlockEdit(dirBlocks, u, d2) /\ BlockEdit(u, a, d2) /\ BlockEdit(a, r, d1)
  /\ BlockEdit(r, dirBlocks', s)
  /\ Edits(inodes, inodes', Displaced(t) \cup {d1} \cup {d2}, dirBlocks, dirBlocks', Blocks)

LEMMA MoveCourseIs ==
  ASSUME NEW s, NEW d1, NEW oldName, NEW d2, NEW t, NEW newName,
         NEW u, u = AfterUnlink(d2, t, newName),
         NEW a, a = AddedBlocks(u, s, d2, newName),
         NEW r, r = RemovedBlocks(u, a, s, d1, oldName)
  PROVE  MoveCourse(s, d1, oldName, d2, t, newName) =
           <<BlockBits, InodeBits, InodeRecords(Displaced(t)), BlocksOf(u, {d2}), Counts,
             BlocksOf(a, {d2}), BlocksOf(r, {d1}), BlocksOf(dirBlocks', {s}),
             InodeRecords({d1}), InodeRecords({d2}), Counts>>
  BY DEF MoveCourse, AddedBlocks, RemovedBlocks

LEMMA MovePasses ==
  ASSUME NEW s, NEW d1, NEW oldName, NEW d2, NEW t, NEW newName,
         NEW u, u = AfterUnlink(d2, t, newName),
         NEW a, a = AddedBlocks(u, s, d2, newName),
         NEW r, r = RemovedBlocks(u, a, s, d1, oldName),
         MoveEdited(s, d1, d2, t, u, a, r)
  PROVE  Passes(Goal, MoveCourse(s, d1, oldName, d2, t, newName),
                MoveImages(d1, t, u, a, r), Goal')
<1>. USE DEF MoveEdited
<1>0. MoveCourse(s, d1, oldName, d2, t, newName) =
        <<BlockBits, InodeBits, InodeRecords(Displaced(t)), BlocksOf(u, {d2}), Counts,
          BlocksOf(a, {d2}), BlocksOf(r, {d1}), BlocksOf(dirBlocks', {s}),
          InodeRecords({d1}), InodeRecords({d2}), Counts>>
  BY MoveCourseIs
<1>. DEFINE ino == Set(inodes, inodes', Displaced(t))
            ino1 == Set(inodes, inodes', Displaced(t) \cup {d1})
            g0 == Device(blockBitmap, inodeBitmap, inodes, dirBlocks, diskCounts)
            g1 == Device(blockBitmap', inodeBitmap, inodes, dirBlocks, diskCounts)
            g2 == Device(blockBitmap', inodeBitmap', inodes, dirBlocks, diskCounts)
            g3 == Device(blockBitmap', inodeBitmap', ino, dirBlocks, diskCounts)
            g4 == Device(blockBitmap', inodeBitmap', ino, u, diskCounts)
            g5 == Device(blockBitmap', inodeBitmap', ino, u, diskCounts')
            g6 == Device(blockBitmap', inodeBitmap', ino, a, diskCounts')
            g7 == Device(blockBitmap', inodeBitmap', ino, r, diskCounts')
            g8 == Device(blockBitmap', inodeBitmap', ino, dirBlocks', diskCounts')
            g9 == Device(blockBitmap', inodeBitmap', ino1, dirBlocks', diskCounts')
            g10 == Device(blockBitmap', inodeBitmap', inodes', dirBlocks', diskCounts')
<1>1. /\ Set(ino, inodes', {d1}) = ino1
      /\ Set(ino1, inodes', {d2}) = inodes'
  <2>1. Set(ino1, inodes', {d2}) = Set(inodes, inodes', Displaced(t) \cup {d1} \cup {d2})
    BY SetTwice
  <2>. QED
    BY <2>1, SetAll, SetTwice
<1>2. \A S : InodeRecords(S) = Write("inodes", Only(inodes', S))
  BY DEF InodeRecords
<1>3. g1 = Put(g0, BlockBits) /\ g2 = Put(g1, InodeBits)
  BY PutWhole DEF BlockBits, InodeBits
<1>4. g3 = Put(g2, InodeRecords(Displaced(t)))
  BY <1>2, PutIs
<1>5. g4 = Put(g3, BlocksOf(u, {d2}))
  BY EditPut
<1>6. g5 = Put(g4, Counts)
  BY PutWhole DEF Counts
<1>7. g6 = Put(g5, BlocksOf(a, {d2}))
  BY EditPut
<1>8. g7 = Put(g6, BlocksOf(r, {d1}))
  BY EditPut
<1>9. g8 = Put(g7, BlocksOf(dirBlocks', {s}))
  BY EditPut
<1>10. g9 = Put(g8, InodeRecords({d1}))
  <2>1. Put(g8, Write("inodes", Only(inodes', {d1})))
          = Device(blockBitmap', inodeBitmap', Set(ino, inodes', {d1}), dirBlocks', diskCounts')
    BY PutIs
  <2>. QED
    BY <1>1, <1>2, <2>1
<1>11. g10 = Put(g9, InodeRecords({d2}))
  <2>1. Put(g9, Write("inodes", Only(inodes', {d2})))
          = Device(blockBitmap', inodeBitmap', Set(ino1, inodes', {d2}), dirBlocks', diskCounts')
    BY PutIs
  <2>. QED
    BY <1>1, <1>2, <2>1
<1>12. g10 = Put(g10, Counts)
  BY PutWhole DEF Counts
<1>13. Goal = g0 /\ Goal' = g10
  <2>1. Goal = g0
    BY GoalDevice
  <2>2. Goal' = g10
    BY DEF Goal, Device
  <2>. QED
    BY <2>1, <2>2
<1>14. MoveImages(d1, t, u, a, r) = {g0, g1, g2, g3, g4, g5, g6, g7, g8, g9, g10, g10}
  BY DEF MoveImages
<1>. HIDE DEF g0, g1, g2, g3, g4, g5, g6, g7, g8, g9, g10
<1>. HIDE DEF MoveEdited
<1>15. PICK w1, w2, w3, w4, w5, w6, w7, w8, w9, w10, w11 :
         /\ w1 = BlockBits /\ w2 = InodeBits /\ w3 = InodeRecords(Displaced(t))
         /\ w4 = BlocksOf(u, {d2}) /\ w5 = Counts /\ w6 = BlocksOf(a, {d2})
         /\ w7 = BlocksOf(r, {d1}) /\ w8 = BlocksOf(dirBlocks', {s})
         /\ w9 = InodeRecords({d1}) /\ w10 = InodeRecords({d2}) /\ w11 = Counts
  OBVIOUS
<1>16. /\ g1 = Put(g0, w1) /\ g2 = Put(g1, w2) /\ g3 = Put(g2, w3) /\ g4 = Put(g3, w4)
       /\ g5 = Put(g4, w5) /\ g6 = Put(g5, w6) /\ g7 = Put(g6, w7) /\ g8 = Put(g7, w8)
       /\ g9 = Put(g8, w9) /\ g10 = Put(g9, w10) /\ g10 = Put(g10, w11)
  BY <1>3, <1>4, <1>5, <1>6, <1>7, <1>8, <1>9, <1>10, <1>11, <1>12, <1>15
<1>17. Passes(g0, <<w1, w2, w3, w4, w5, w6, w7, w8, w9, w10, w11>>,
              {g0, g1, g2, g3, g4, g5, g6, g7, g8, g9, g10, g10}, g10)
  BY <1>16, Passes11
<1>18. MoveCourse(s, d1, oldName, d2, t, newName) =
         <<w1, w2, w3, w4, w5, w6, w7, w8, w9, w10, w11>>
  BY <1>0, <1>15
<1>. QED
  BY <1>13, <1>14, <1>17, <1>18

-----------------------------------------------------------------------------
(* What each call edits.                                                   *)
NewInodes == inodeBitmap' \ inodeBitmap
NewBlocks == blockBitmap' \ blockBitmap

InsertEdited(d) ==
  Edits(inodes, inodes', NewInodes \cup {d},
        dirBlocks, dirBlocks', NewBlocks \cup {inodes[d].start})

LEMMA StillGoal ==
  ASSUME UNCHANGED <<disk, diskCounts>> PROVE Goal' = Goal
  BY DEF Goal, disk

LEMMA EditsNothing ==
  ASSUME NEW ino, NEW blks, Whole(ino, blks), NEW S, NEW T
  PROVE  Edits(ino, ino, S, blks, blks, T)
  BY DEF Edits

LEMMA InsertEdits ==
  ASSUME Whole(inodes, dirBlocks),
         NEW d, NEW name, NEW kind, NEW links, NEW size, NEW n,
         Insert(d, name, kind, links, size, n)
  PROVE  Goal' = Goal \/ InsertEdited(d)
<1>1. CASE Refuse \/ NoInodeLeft
  BY <1>1, StillGoal DEF Refuse, NoInodeLeft
<1>2. CASE ~ (Refuse \/ NoInodeLeft)
  <2>1. PICK i \in Inodes :
          /\ FirstFreeInode(i)
          /\ \/ NoRunLeft(i, n)
             \/ \E s \in Blocks :
                  /\ Allocates(n, s)
                  /\ LET rec == Inode(kind, links, size, s, n) IN
                     ParentFull(i, d, name, rec) \/ Linked(i, d, name, rec)
    BY <1>2 DEF Insert
  <2>2. CASE NoRunLeft(i, n)
    <3>1. inodes' = inodes /\ dirBlocks' = dirBlocks
      BY <2>2 DEF NoRunLeft
    <3>. QED
      BY <3>1, EditsNothing DEF InsertEdited
  <2>3. CASE ~ NoRunLeft(i, n)
    <3>1. PICK s \in Blocks :
            /\ Allocates(n, s)
            /\ LET rec == Inode(kind, links, size, s, n) IN
               ParentFull(i, d, name, rec) \/ Linked(i, d, name, rec)
      BY <2>1, <2>3
    <3>2. PICK rec : /\ rec = Inode(kind, links, size, s, n)
                     /\ ParentFull(i, d, name, rec) \/ Linked(i, d, name, rec)
      BY <3>1
    <3>3. rec.start = s /\ rec.len = n
      BY <3>2 DEF Inode
    <3>4. /\ inodeBitmap' = inodeBitmap \cup {i}
          /\ blockBitmap' = blockBitmap \cup RunBits(s, n)
      BY <3>2, <3>3 DEF ParentFull, Linked, Allocated
    <3>5. i \notin inodeBitmap
      BY <2>1 DEF FirstFreeInode, IsFirstZero
    <3>6. RunBits(s, n) \cap blockBitmap = {}
      <4>1. CASE n = 0
        <5>1. RunBits(0, 0) = {}
          BY DEF RunBits
        <5>2. s = 0
          BY <3>1, <4>1 DEF Allocates
        <5>. QED
          BY <4>1, <5>1, <5>2
      <4>2. CASE n # 0
        BY <3>1, <4>2 DEF Allocates, IsFirstFreeRun, IsFreeRun
      <4>. QED
        BY <4>1, <4>2
    <3>7. NewInodes = {i} /\ NewBlocks = RunBits(s, n)
      <4>1. NewInodes = {i}
        BY <3>4, <3>5 DEF NewInodes
      <4>2. NewBlocks = RunBits(s, n)
        BY <3>4, <3>6 DEF NewBlocks
      <4>. QED
        BY <4>1, <4>2
    <3>8. DOMAIN inodes = Inodes /\ inodes = [j \in Inodes |-> inodes[j]]
      BY WholeDomains
    <3>9. PICK data : data = WithData(i, d, rec.start, rec.len, rec.kind)
      OBVIOUS
    <3>10. /\ data = [b \in Blocks |-> data[b]]
           /\ \A b \in Blocks : b \notin RunBits(s, n) => data[b] = dirBlocks[b]
      BY <3>3, <3>9 DEF WithData
    <3>11. CASE ParentFull(i, d, name, rec)
      <4>1. inodes' = [inodes EXCEPT ![i] = rec] /\ dirBlocks' = data
        BY <3>9, <3>11 DEF ParentFull
      <4>2. Whole(inodes', dirBlocks')
        BY <3>8, <3>10, <4>1 DEF Whole, OnInodes, OnBlocks
      <4>. QED
        BY <3>7, <3>8, <3>10, <4>1, <4>2 DEF InsertEdited, Edits
    <3>12. CASE Linked(i, d, name, rec)
      <4>1. /\ inodes' = [inodes EXCEPT ![i] = rec,
                            ![d].links = IF rec.kind = "dir" THEN @ + 1 ELSE @]
            /\ dirBlocks' = [data EXCEPT ![inodes[d].start] =
                               Add(@, name, i, FtOf(rec.kind))]
        BY <3>9, <3>12 DEF Linked
      <4>2. Whole(inodes', dirBlocks')
        BY <3>8, <3>10, <4>1 DEF Whole, OnInodes, OnBlocks
      <4>3. \A j \in Inodes : j \notin {i} \cup {d} => inodes'[j] = inodes[j]
        BY <3>8, <4>1
      <4>4. \A b \in Blocks : b \notin RunBits(s, n) \cup {inodes[d].start}
              => dirBlocks'[b] = dirBlocks[b]
        BY <3>10, <4>1
      <4>. QED
        BY <3>7, <4>2, <4>3, <4>4 DEF InsertEdited, Edits
    <3>. QED
      BY <3>2, <3>11, <3>12
  <2>. QED
    BY <2>2, <2>3
<1>. QED
  BY <1>1, <1>2

RemoveEdited(d, t) ==
  Edits(inodes, inodes', {t, d}, dirBlocks, dirBlocks', {inodes[d].start})

LEMMA EntryEdit ==
  ASSUME NEW blks, Whole(inodes, blks), NEW i, NEW es
  PROVE  BlockEdit(blks, [blks EXCEPT ![inodes[i].start] = es], i)
<1>1. DOMAIN blks = Blocks /\ blks = [b \in Blocks |-> blks[b]]
  BY WholeDomains
<1>2. PICK blks2 : blks2 = [blks EXCEPT ![inodes[i].start] = es]
  OBVIOUS
<1>3. Whole(inodes, blks2)
  BY <1>1, <1>2 DEF Whole, OnInodes, OnBlocks
<1>4. \A b \in Blocks : b \notin {inodes[i].start} => blks2[b] = blks[b]
  BY <1>1, <1>2
<1>. QED
  BY <1>2, <1>3, <1>4 DEF BlockEdit, Edits

LEMMA UnlinkEdits ==
  ASSUME Whole(inodes, dirBlocks), NEW path, NEW name, Unlink(path, name),
         NEW d, d = OpenPath(path),
         NEW t, t = IF IsDir(d) THEN Lookup(d, name) ELSE NoInode
  PROVE  Goal' = Goal \/ RemoveEdited(d, t)
<1>1. CASE Refuse
  BY <1>1, StillGoal DEF Refuse
<1>2. CASE ~ Refuse
  <2>1. /\ inodes' = [inodes EXCEPT ![t] = Deleted(@)]
        /\ dirBlocks' = [dirBlocks EXCEPT ![inodes[d].start] = Remove(@, t, name)]
    BY <1>2 DEF Unlink, WithoutEntry
  <2>2. DOMAIN inodes = Inodes /\ inodes = [j \in Inodes |-> inodes[j]]
    BY WholeDomains
  <2>3. inodes' = OnInodes(inodes') /\ \A j \in Inodes : j \notin {t, d} => inodes'[j] = inodes[j]
    BY <2>1, <2>2 DEF OnInodes
  <2>4. BlockEdit(dirBlocks, dirBlocks', d)
    <3>1. PICK es : es = Remove(dirBlocks[inodes[d].start], t, name)
      OBVIOUS
    <3>2. dirBlocks' = [dirBlocks EXCEPT ![inodes[d].start] = es]
      BY <2>1, <3>1
    <3>. QED
      BY <3>2, EntryEdit
  <2>. QED
    BY <2>3, <2>4 DEF RemoveEdited, BlockEdit, Edits, Whole
<1>. QED
  BY <1>1, <1>2

LEMMA RmdirEdits ==
  ASSUME Whole(inodes, dirBlocks), NEW path, NEW name, Rmdir(path, name),
         NEW d, d = OpenPath(path),
         NEW t, t = IF IsDir(d) THEN Lookup(d, name) ELSE NoInode
  PROVE  Goal' = Goal \/ RemoveEdited(d, t)
<1>1. CASE Refuse
  BY <1>1, StillGoal DEF Refuse
<1>2. CASE ~ Refuse
  <2>0. PICK parent : parent = [inodes[d] EXCEPT !.links = SatSub(@, 1)]
    OBVIOUS
  <2>1. /\ inodes' = [inodes EXCEPT ![t] = Deleted(@), ![d] = parent]
        /\ dirBlocks' = [dirBlocks EXCEPT ![inodes[d].start] = Remove(@, t, name)]
    BY <1>2, <2>0 DEF Rmdir, WithoutEntry
  <2>2. DOMAIN inodes = Inodes /\ inodes = [j \in Inodes |-> inodes[j]]
    BY WholeDomains
  <2>3. inodes' = OnInodes(inodes') /\ \A j \in Inodes : j \notin {t, d} => inodes'[j] = inodes[j]
    BY <2>1, <2>2 DEF OnInodes
  <2>4. BlockEdit(dirBlocks, dirBlocks', d)
    <3>1. PICK es : es = Remove(dirBlocks[inodes[d].start], t, name)
      OBVIOUS
    <3>2. dirBlocks' = [dirBlocks EXCEPT ![inodes[d].start] = es]
      BY <2>1, <3>1
    <3>. QED
      BY <3>2, EntryEdit
  <2>. QED
    BY <2>3, <2>4 DEF RemoveEdited, BlockEdit, Edits, Whole
<1>. QED
  BY <1>1, <1>2

LEMMA TruncateEdits ==
  ASSUME Whole(inodes, dirBlocks), NEW path, NEW size, Truncate(path, size),
         NEW i, i = OpenPath(path)
  PROVE  \/ Goal' = Goal
         \/ inodeBitmap' = inodeBitmap /\ Edits(inodes, inodes', {i}, dirBlocks, dirBlocks', {})
<1>0. DOMAIN inodes = Inodes /\ inodes = [j \in Inodes |-> inodes[j]]
  BY WholeDomains
<1>1. CASE Refuse \/ (outcome' = "same" /\ UNCHANGED <<disk, diskCounts, counts>>)
  BY <1>1, StillGoal DEF Refuse
<1>2. CASE ~ (Refuse \/ (outcome' = "same" /\ UNCHANGED <<disk, diskCounts, counts>>))
  <2>1. Grow(i, size) \/ Shrink(i, size)
    BY <1>2 DEF Truncate
  <2>2. /\ inodeBitmap' = inodeBitmap /\ dirBlocks' = dirBlocks
        /\ inodes' = OnInodes(inodes') /\ \A j \in Inodes : j \notin {i} => inodes'[j] = inodes[j]
    <3>1. CASE Grow(i, size)
      <4>1. /\ inodes' = [inodes EXCEPT ![i].size = size]
            /\ inodeBitmap' = inodeBitmap /\ dirBlocks' = dirBlocks
        BY <1>2, <3>1 DEF Grow
      <4>. QED
        BY <1>0, <4>1 DEF OnInodes
    <3>2. CASE Shrink(i, size)
      <4>1. PICK kept : kept = CeilDiv(size, BlockSize)
        OBVIOUS
      <4>2. /\ inodes' = [inodes EXCEPT ![i].size = size, ![i].len = kept,
                                        ![i].start = IF kept = 0 THEN 0 ELSE @]
            /\ inodeBitmap' = inodeBitmap /\ dirBlocks' = dirBlocks
        BY <3>2, <4>1 DEF Shrink
      <4>. QED
        BY <1>0, <4>2 DEF OnInodes
    <3>. QED
      BY <2>1, <3>1, <3>2
  <2>. QED
    BY <2>2 DEF Edits, Whole
<1>. QED
  BY <1>1, <1>2

LEMMA EditWhole ==
  ASSUME NEW blks, NEW blks2, NEW i, BlockEdit(blks, blks2, i)
  PROVE  Whole(inodes, blks2)
  BY DEF BlockEdit, Edits

LEMMA EditAtMost ==
  ASSUME NEW blks, Whole(inodes, blks), NEW i, NEW es, NEW blks2,
         blks2 = blks \/ blks2 = [blks EXCEPT ![inodes[i].start] = es]
  PROVE  BlockEdit(blks, blks2, i) /\ Whole(inodes, blks2)
<1>1. CASE blks2 = blks
  BY <1>1 DEF BlockEdit, Edits
<1>2. CASE blks2 = [blks EXCEPT ![inodes[i].start] = es]
  <2>1. BlockEdit(blks, [blks EXCEPT ![inodes[i].start] = es], i)
    BY EntryEdit
  <2>. QED
    BY <1>2, <2>1, EditWhole
<1>. QED
  BY <1>1, <1>2

LEMMA AfterUnlinkEdits ==
  ASSUME Whole(inodes, dirBlocks), NEW d, NEW t, NEW name
  PROVE  /\ BlockEdit(dirBlocks, AfterUnlink(d, t, name), d)
         /\ Whole(inodes, AfterUnlink(d, t, name))
<1>1. PICK es : es = Remove(dirBlocks[inodes[d].start], t, name)
  OBVIOUS
<1>2. PICK u : u = AfterUnlink(d, t, name)
  OBVIOUS
<1>3. u = dirBlocks \/ u = [dirBlocks EXCEPT ![inodes[d].start] = es]
  BY <1>1, <1>2 DEF AfterUnlink, WithoutEntry
<1>. QED
  BY <1>2, <1>3, EditAtMost

LEMMA MoveEdits ==
  ASSUME Whole(inodes, dirBlocks),
         NEW oldPath, NEW oldName, NEW newPath, NEW newName,
         Rename(oldPath, oldName, newPath, newName),
         NEW d1, d1 = OpenPath(oldPath),
         NEW s, s = IF IsDir(d1) THEN Lookup(d1, oldName) ELSE NoInode,
         NEW d2, d2 = OpenPath(newPath),
         NEW t, t = IF IsDir(d2) THEN Lookup(d2, newName) ELSE NoInode,
         NEW u, u = AfterUnlink(d2, t, newName),
         NEW a, a = AddedBlocks(u, s, d2, newName),
         NEW r, r = RemovedBlocks(u, a, s, d1, oldName)
  PROVE  Goal' = Goal \/ MoveEdited(s, d1, d2, t, u, a, r)
<1>1. CASE Refuse \/ (outcome' = "same" /\ UNCHANGED <<disk, diskCounts, counts>>)
  BY <1>1, StillGoal DEF Refuse
<1>2. CASE ~ (Refuse \/ (outcome' = "same" /\ UNCHANGED <<disk, diskCounts, counts>>))
  <2>1. MoveFull(s, d2, t, newName) \/ Moved(s, d1, oldName, d2, t, newName)
    BY <1>2 DEF Rename
  <2>2. BlockEdit(dirBlocks, u, d2) /\ Whole(inodes, u)
    BY AfterUnlinkEdits
  <2>3. BlockEdit(u, a, d2) /\ Whole(inodes, a)
    <3>1. PICK es : es = Add(u[inodes[d2].start], newName, s, FtOf(inodes[s].kind))
      OBVIOUS
    <3>2. a = u \/ a = [u EXCEPT ![inodes[d2].start] = es]
      BY <3>1 DEF AddedBlocks
    <3>. QED
      BY <2>2, <3>2, EditAtMost
  <2>4. BlockEdit(a, r, d1) /\ Whole(inodes, r)
    <3>1. PICK es : es = Remove(a[inodes[d1].start], s, oldName)
      OBVIOUS
    <3>2. r = a \/ r = [a EXCEPT ![inodes[d1].start] = es]
      BY <3>1 DEF AddedBlocks, RemovedBlocks
    <3>. QED
      BY <2>3, <3>2, EditAtMost
  <2>5. BlockEdit(r, dirBlocks', s) /\ Whole(inodes, dirBlocks')
    <3>1. CASE MoveFull(s, d2, t, newName)
      <4>1. dirBlocks' = u /\ r = u
        BY <3>1 DEF MoveFull, RemovedBlocks
      <4>. QED
        BY <2>2, <4>1, EditAtMost
    <3>2. CASE Moved(s, d1, oldName, d2, t, newName)
      <4>1. outcome' = "ok" /\ dirBlocks' = AfterMove(u, s, d1, oldName, d2, newName)
        BY <3>2 DEF Moved
      <4>2. AfterMove(u, s, d1, oldName, d2, newName) =
              IF d1 # d2 /\ IsDir(s) THEN [r EXCEPT ![inodes[s].start] = SetDotDot(@, d2)]
              ELSE r
        BY <4>1 DEF AfterMove, AddedBlocks, RemovedBlocks
      <4>3. PICK es : es = SetDotDot(r[inodes[s].start], d2)
        OBVIOUS
      <4>4. dirBlocks' = r \/ dirBlocks' = [r EXCEPT ![inodes[s].start] = es]
        BY <4>1, <4>2, <4>3
      <4>. QED
        BY <2>4, <4>4, EditAtMost
    <3>. QED
      BY <2>1, <3>1, <3>2
  <2>6. /\ inodes' = OnInodes(inodes')
        /\ \A j \in Inodes : j \notin Displaced(t) \cup {d1} \cup {d2} => inodes'[j] = inodes[j]
    <3>1. CASE MoveFull(s, d2, t, newName)
      <4>1. inodes' = [i \in Inodes |->
                         IF i \in Displaced(t) THEN Deleted(inodes[i]) ELSE inodes[i]]
        BY <3>1 DEF MoveFull
      <4>. QED
        BY <4>1 DEF OnInodes
    <3>2. CASE Moved(s, d1, oldName, d2, t, newName)
      <4>1. PICK newParent \in BOOLEAN : newParent = (d1 # d2 /\ IsDir(s))
        OBVIOUS
      <4>2. inodes' = [i \in Inodes |->
              CASE i \in Displaced(t)  -> Deleted(inodes[i])
                [] newParent /\ i = d1 -> [inodes[i] EXCEPT !.links = SatSub(@, 1)]
                [] newParent /\ i = d2 -> [inodes[i] EXCEPT !.links = @ + 1]
                [] OTHER               -> inodes[i]]
        BY <3>2, <4>1 DEF Moved
      <4>3. DOMAIN inodes' = Inodes
        BY <4>2
      <4>4. inodes' = OnInodes(inodes')
        BY <4>2 DEF OnInodes
      <4>5. ASSUME NEW j \in Inodes, j \notin Displaced(t) \cup {d1} \cup {d2}
            PROVE  inodes'[j] = inodes[j]
        BY <4>2, <4>5
      <4>. QED
        BY <4>4, <4>5
    <3>. QED
      BY <2>1, <3>1, <3>2
  <2>7. \A b \in Blocks : b \notin Blocks => dirBlocks'[b] = dirBlocks[b]
    OBVIOUS
  <2>. QED
    BY <2>2, <2>3, <2>4, <2>5, <2>6, <2>7 DEF MoveEdited, Edits, Whole
<1>. QED
  BY <1>1, <1>2

-----------------------------------------------------------------------------
(* Whatever was interrupted, what is left to write leads to Goal.          *)
CourseHolds == \E G : Passes(image, todo, G, Goal) /\ \A g \in G : IsDevice(g)

LEMMA IdleHolds ==
  CourseHolds /\ Idle => image = Goal /\ IsDevice(Goal) /\ Whole(inodes, dirBlocks)
<1>. SUFFICES ASSUME CourseHolds, Idle
              PROVE  image = Goal /\ IsDevice(Goal) /\ Whole(inodes, dirBlocks)
  OBVIOUS
<1>1. PICK G : Passes(image, <<>>, G, Goal) /\ \A g \in G : IsDevice(g)
  BY DEF CourseHolds, Idle
<1>2. image = Goal /\ image \in G
  BY <1>1, PassesEnd
<1>. QED
  BY <1>1, <1>2, GoalDevice

LEMMA NothingLeft ==
  ASSUME NEW g, IsDevice(g)
  PROVE  \E G : Passes(g, <<>>, G, g) /\ \A h \in G : IsDevice(h)
<1>1. Takes(<<g>>, g, <<>>, g)
  BY DEF Takes
<1>2. <<g>> \in Seq({g}) /\ <<>> \in Seq({g})
  OBVIOUS
<1>3. Passes(g, <<>>, {g}, g)
  BY <1>1, <1>2 DEF Passes
<1>. QED
  BY <1>3

LEMMA CallHolds ==
  ASSUME CourseHolds, Idle, image' = image, NEW course, Issue(course), NEW G,
         \/ Goal' = Goal
         \/ Passes(Goal, course, G, Goal') /\ \A g \in G : IsDevice(g)
  PROVE  CourseHolds'
<1>1. image = Goal /\ IsDevice(Goal)
  BY IdleHolds
<1>2. CASE Goal' = Goal
  <2>1. todo' = <<>>
    BY <1>2 DEF Issue
  <2>2. \E H : Passes(Goal, <<>>, H, Goal) /\ \A h \in H : IsDevice(h)
    BY <1>1, NothingLeft
  <2>. QED
    BY <1>1, <1>2, <2>1, <2>2 DEF CourseHolds
<1>3. CASE Goal' # Goal
  <2>1. todo' = Pending(image, course)
    BY <1>3 DEF Issue
  <2>2. Passes(image, course, G, Goal') /\ \A g \in G : IsDevice(g)
    BY <1>1, <1>3
  <2>3. Passes(image, Pending(image, course), G, Goal')
    BY <2>2, PassesPending
  <2>. QED
    BY <2>1, <2>2, <2>3 DEF CourseHolds
<1>. QED
  BY <1>2, <1>3

(* Every image of a course is that of a device.                            *)
LEMMA InsertDevices ==
  ASSUME NEW d, InsertEdited(d)
  PROVE  /\ Passes(Goal, InsertCourse(d), InsertImages(d, NewInodes, NewBlocks), Goal')
         /\ \A g \in InsertImages(d, NewInodes, NewBlocks) : IsDevice(g)
<1>1. Passes(Goal, InsertCourse(d), InsertImages(d, NewInodes, NewBlocks), Goal')
  BY InsertPasses DEF InsertEdited, NewInodes, NewBlocks
<1>2. Whole(inodes, dirBlocks) /\ Whole(inodes', dirBlocks')
  BY DEF InsertEdited, Edits
<1>. DEFINE S == {inodes[i].start : i \in {d}}
            ino == Set(inodes, inodes', NewInodes)
            blks == Set(dirBlocks, dirBlocks', NewBlocks)
            linked == Set(dirBlocks, dirBlocks', NewBlocks \cup S)
<1>3. Whole(ino, blks) /\ Whole(ino, linked)
  BY <1>2, SetWhole
<1>4. Whole(ino, dirBlocks)
  BY <1>2, <1>3 DEF Whole
<1>5. \A bb, ib, cnt :
        /\ IsDevice(Device(bb, ib, inodes, dirBlocks, cnt))
        /\ IsDevice(Device(bb, ib, ino, dirBlocks, cnt))
        /\ IsDevice(Device(bb, ib, ino, blks, cnt))
        /\ IsDevice(Device(bb, ib, ino, linked, cnt))
        /\ IsDevice(Device(bb, ib, inodes', dirBlocks', cnt))
  BY <1>2, <1>3, <1>4, DeviceIs
<1>6. \A g \in InsertImages(d, NewInodes, NewBlocks) : IsDevice(g)
  BY <1>5 DEF InsertImages
<1>. QED
  BY <1>1, <1>6

LEMMA RemoveDevices ==
  ASSUME NEW d, NEW t, RemoveEdited(d, t)
  PROVE  /\ Passes(Goal, RemoveCourse(d, t), RemoveImages(t), Goal')
         /\ \A g \in RemoveImages(t) : IsDevice(g)
<1>1. Passes(Goal, RemoveCourse(d, t), RemoveImages(t), Goal')
  BY RemovePasses DEF RemoveEdited
<1>2. Whole(inodes, dirBlocks) /\ Whole(inodes', dirBlocks')
  BY DEF RemoveEdited, Edits
<1>. DEFINE ino == Set(inodes, inodes', {t})
<1>3. Whole(ino, Set(dirBlocks, dirBlocks', {}))
  BY <1>2, SetWhole
<1>4. Whole(ino, dirBlocks) /\ Whole(ino, dirBlocks')
  BY <1>2, <1>3 DEF Whole
<1>5. \A bb, ib, cnt :
        /\ IsDevice(Device(bb, ib, inodes, dirBlocks, cnt))
        /\ IsDevice(Device(bb, ib, ino, dirBlocks, cnt))
        /\ IsDevice(Device(bb, ib, ino, dirBlocks', cnt))
        /\ IsDevice(Device(bb, ib, inodes', dirBlocks', cnt))
  BY <1>2, <1>4, DeviceIs
<1>6. \A g \in RemoveImages(t) : IsDevice(g)
  BY <1>5 DEF RemoveImages
<1>. QED
  BY <1>1, <1>6

LEMMA ResizeDevices ==
  ASSUME NEW i, inodeBitmap' = inodeBitmap,
         Edits(inodes, inodes', {i}, dirBlocks, dirBlocks', {})
  PROVE  /\ Passes(Goal, ResizeCourse(i), ResizeImages, Goal')
         /\ \A g \in ResizeImages : IsDevice(g)
<1>1. Passes(Goal, ResizeCourse(i), ResizeImages, Goal')
  BY ResizePasses
<1>2. Whole(inodes, dirBlocks) /\ Whole(inodes', dirBlocks')
  BY DEF Edits
<1>3. \A bb, ib, cnt :
        /\ IsDevice(Device(bb, ib, inodes, dirBlocks, cnt))
        /\ IsDevice(Device(bb, ib, inodes', dirBlocks', cnt))
  BY <1>2, DeviceIs
<1>4. \A g \in ResizeImages : IsDevice(g)
  BY <1>3 DEF ResizeImages
<1>. QED
  BY <1>1, <1>4

LEMMA MoveDevices ==
  ASSUME NEW s, NEW d1, NEW oldName, NEW d2, NEW t, NEW newName,
         NEW u, u = AfterUnlink(d2, t, newName),
         NEW a, a = AddedBlocks(u, s, d2, newName),
         NEW r, r = RemovedBlocks(u, a, s, d1, oldName),
         MoveEdited(s, d1, d2, t, u, a, r)
  PROVE  /\ Passes(Goal, MoveCourse(s, d1, oldName, d2, t, newName),
                   MoveImages(d1, t, u, a, r), Goal')
         /\ \A g \in MoveImages(d1, t, u, a, r) : IsDevice(g)
<1>1. Passes(Goal, MoveCourse(s, d1, oldName, d2, t, newName),
             MoveImages(d1, t, u, a, r), Goal')
  BY MovePasses
<1>2. /\ Whole(inodes, dirBlocks) /\ Whole(inodes', dirBlocks') /\ Whole(inodes, u)
      /\ Whole(inodes, a) /\ Whole(inodes, r)
  BY DEF MoveEdited, BlockEdit, Edits
<1>. DEFINE ino == Set(inodes, inodes', Displaced(t))
            ino1 == Set(inodes, inodes', Displaced(t) \cup {d1})
<1>3. /\ Whole(ino, Set(dirBlocks, dirBlocks', {}))
      /\ Whole(ino1, Set(dirBlocks, dirBlocks', {}))
  BY <1>2, SetWhole
<1>4. /\ Whole(ino, dirBlocks) /\ Whole(ino, u) /\ Whole(ino, a) /\ Whole(ino, r)
      /\ Whole(ino, dirBlocks') /\ Whole(ino1, dirBlocks')
  BY <1>2, <1>3 DEF Whole
<1>5. \A bb, ib, cnt :
        /\ IsDevice(Device(bb, ib, inodes, dirBlocks, cnt))
        /\ IsDevice(Device(bb, ib, ino, dirBlocks, cnt))
        /\ IsDevice(Device(bb, ib, ino, u, cnt)) /\ IsDevice(Device(bb, ib, ino, a, cnt))
        /\ IsDevice(Device(bb, ib, ino, r, cnt))
        /\ IsDevice(Device(bb, ib, ino, dirBlocks', cnt))
        /\ IsDevice(Device(bb, ib, ino1, dirBlocks', cnt))
        /\ IsDevice(Device(bb, ib, inodes', dirBlocks', cnt))
  BY <1>2, <1>4, DeviceIs
<1>6. \A g \in MoveImages(d1, t, u, a, r) : IsDevice(g)
  BY <1>5 DEF MoveImages
<1>. QED
  BY <1>1, <1>6

LEMMA InsertStepHolds ==
  ASSUME CourseHolds, Idle, NEW path, NEW name, InsertStep(path, name)
  PROVE  CourseHolds'
<1>1. image' = image /\ Issue(InsertCourse(OpenPath(path))) /\ Whole(inodes, dirBlocks)
  BY IdleHolds DEF InsertStep, Calls
<1>2. \E kind, links, size, n : Insert(OpenPath(path), name, kind, links, size, n) \/ Refuse
  BY DEF InsertStep, Mkdir, CreateFile, Symlink
<1>3. Goal' = Goal \/ InsertEdited(OpenPath(path))
  BY <1>1, <1>2, InsertEdits, StillGoal DEF Refuse
<1>. QED
  BY <1>1, <1>3, InsertDevices, CallHolds

LEMMA RemoveStepHolds ==
  ASSUME CourseHolds, Idle, NEW path, NEW name, RemoveStep(path, name)
  PROVE  CourseHolds'
<1>1. PICK d, t : /\ d = OpenPath(path)
                  /\ t = IF IsDir(d) THEN Lookup(d, name) ELSE NoInode
  OBVIOUS
<1>2. /\ Unlink(path, name) \/ Rmdir(path, name)
      /\ image' = image /\ Issue(RemoveCourse(d, t)) /\ Whole(inodes, dirBlocks)
  BY <1>1, IdleHolds DEF RemoveStep, Calls
<1>3. Goal' = Goal \/ RemoveEdited(d, t)
  BY <1>1, <1>2, UnlinkEdits, RmdirEdits
<1>. QED
  BY <1>2, <1>3, RemoveDevices, CallHolds

LEMMA MoveStepHolds ==
  ASSUME CourseHolds, Idle, NEW oldPath, NEW oldName, NEW newPath, NEW newName,
         MoveStep(oldPath, oldName, newPath, newName)
  PROVE  CourseHolds'
<1>1. PICK d1, d2 : d1 = OpenPath(oldPath) /\ d2 = OpenPath(newPath)
  OBVIOUS
<1>2. PICK s, t : /\ s = IF IsDir(d1) THEN Lookup(d1, oldName) ELSE NoInode
                  /\ t = IF IsDir(d2) THEN Lookup(d2, newName) ELSE NoInode
  OBVIOUS
<1>3. /\ Rename(oldPath, oldName, newPath, newName)
      /\ image' = image /\ Issue(MoveCourse(s, d1, oldName, d2, t, newName))
      /\ Whole(inodes, dirBlocks)
  BY <1>1, <1>2, IdleHolds DEF MoveStep, Calls
<1>4. PICK u : u = AfterUnlink(d2, t, newName)
  OBVIOUS
<1>5. PICK a : a = AddedBlocks(u, s, d2, newName)
  OBVIOUS
<1>6. PICK r : r = RemovedBlocks(u, a, s, d1, oldName)
  OBVIOUS
<1>7. Goal' = Goal \/ MoveEdited(s, d1, d2, t, u, a, r)
  BY <1>1, <1>2, <1>3, <1>4, <1>5, <1>6, MoveEdits
<1>8. \/ Goal' = Goal
      \/ /\ Passes(Goal, MoveCourse(s, d1, oldName, d2, t, newName),
                   MoveImages(d1, t, u, a, r), Goal')
         /\ \A g \in MoveImages(d1, t, u, a, r) : IsDevice(g)
  BY <1>4, <1>5, <1>6, <1>7, MoveDevices
<1>. QED
  BY <1>3, <1>8, CallHolds

LEMMA ResizeStepHolds ==
  ASSUME CourseHolds, Idle, NEW path, NEW size, ResizeStep(path, size)
  PROVE  CourseHolds'
<1>1. PICK i : i = OpenPath(path)
  OBVIOUS
<1>2. /\ Truncate(path, size) /\ image' = image /\ Issue(ResizeCourse(i))
      /\ Whole(inodes, dirBlocks)
  BY <1>1, IdleHolds DEF ResizeStep, Calls
<1>3. \/ Goal' = Goal
      \/ inodeBitmap' = inodeBitmap /\ Edits(inodes, inodes', {i}, dirBlocks, dirBlocks', {})
  BY <1>1, <1>2, TruncateEdits
<1>4. \/ Goal' = Goal
      \/ Passes(Goal, ResizeCourse(i), ResizeImages, Goal') /\ \A g \in ResizeImages : IsDevice(g)
  BY <1>3, ResizeDevices
<1>. QED
  BY <1>2, <1>4, CallHolds

LEMMA WriteNextHolds ==
  ASSUME CourseHolds, WriteNext
  PROVE  CourseHolds'
<1>1. PICK G : Passes(image, todo, G, Goal) /\ \A g \in G : IsDevice(g)
  BY DEF CourseHolds
<1>2. /\ todo # <<>> /\ image' = Put(image, Head(todo)) /\ todo' = Pending(image', Tail(todo))
      /\ UNCHANGED <<disk, diskCounts>>
  BY DEF WriteNext, Idle, vars
<1>3. Goal' = Goal
  BY <1>2, StillGoal
<1>4. Passes(image', Tail(todo), G, Goal)
  BY <1>1, <1>2, PassesStep
<1>5. Passes(image', todo', G, Goal')
  BY <1>2, <1>3, <1>4, PassesPending
<1>. QED
  BY <1>1, <1>5 DEF CourseHolds

LEMMA CrashHolds ==
  ASSUME CourseHolds, Crash
  PROVE  CourseHolds'
<1>1. PICK G : Passes(image, todo, G, Goal) /\ \A g \in G : IsDevice(g)
  BY DEF CourseHolds
<1>2. IsDevice(image)
  BY <1>1, PassesEnd, PassesStep
<1>3. /\ todo' = <<>> /\ image' = image
      /\ Goal' = Device(image.blockBitmap, image.inodeBitmap, image.inodes,
                        image.dirBlocks, image.counts)
  BY DEF Crash, Goal, Device
<1>4. Goal' = image
  BY <1>2, <1>3, DeviceWhole
<1>5. \E H : Passes(image, <<>>, H, image) /\ \A h \in H : IsDevice(h)
  BY <1>2, NothingLeft
<1>. QED
  BY <1>3, <1>4, <1>5 DEF CourseHolds

LEMMA CourseStep == CourseHolds /\ [CrashNext]_crashVars => CourseHolds'
<1>. SUFFICES ASSUME CourseHolds, [CrashNext]_crashVars PROVE CourseHolds'
  OBVIOUS
<1>1. CASE Idle /\ CallNext
  <2>. USE <1>1
  <2>1. ASSUME NEW path, NEW name, InsertStep(path, name) PROVE CourseHolds'
    BY <2>1, InsertStepHolds
  <2>2. ASSUME NEW path, NEW name, RemoveStep(path, name) PROVE CourseHolds'
    BY <2>2, RemoveStepHolds
  <2>3. ASSUME NEW path, NEW name, NEW newPath, NEW newName,
               MoveStep(path, name, newPath, newName)
        PROVE  CourseHolds'
    BY <2>3, MoveStepHolds
  <2>4. ASSUME NEW path, NEW size, ResizeStep(path, size) PROVE CourseHolds'
    BY <2>4, ResizeStepHolds
  <2>5. CASE OpenAgain
    <3>1. UNCHANGED <<disk, diskCounts, image, todo>>
      BY <2>5 DEF OpenAgain, Reopen
    <3>2. Goal' = Goal
      BY <3>1, StillGoal
    <3>. QED
      BY <3>1, <3>2 DEF CourseHolds
  <2>. QED
    BY <2>1, <2>2, <2>3, <2>4, <2>5 DEF CallNext
<1>2. CASE WriteNext
  BY <1>2, WriteNextHolds
<1>3. CASE Crash
  BY <1>3, CrashHolds
<1>4. CASE UNCHANGED crashVars
  <2>1. UNCHANGED <<disk, diskCounts, image, todo>>
    BY <1>4 DEF crashVars, vars
  <2>2. Goal' = Goal
    BY <2>1, StillGoal
  <2>. QED
    BY <2>1, <2>2 DEF CourseHolds
<1>. QED
  BY <1>1, <1>2, <1>3, <1>4 DEF CrashNext

LEMMA CourseStarts == CrashInit => CourseHolds
<1>. SUFFICES ASSUME CrashInit PROVE CourseHolds
  OBVIOUS
<1>1. Whole(inodes, dirBlocks)
  BY DEF CrashInit, Init, Whole, OnInodes, OnBlocks
<1>2. image = Goal /\ todo = <<>> /\ IsDevice(Goal)
  BY <1>1, GoalDevice DEF CrashInit
<1>. QED
  BY <1>2, NothingLeft DEF CourseHolds

(* The writes of create_file, mkdir, symlink, unlink, rmdir, rename and    *)
(* truncate, in the order in which filesystem.rs issues them, leave on the *)
(* device what the call computed as a whole: on every image, also one that *)
(* a call interrupted any number of times before has left behind.          *)
THEOREM WritesOfACallAddUp == CrashSpec => []WritesAddUp
<1>1. CourseHolds => WritesAddUp
  BY IdleHolds DEF WritesAddUp
<1>. QED
  BY <1>1, CourseStarts, CourseStep, PTL DEF CrashSpec

-----------------------------------------------------------------------------
(* Up to the first crash, what the image shows between two writes.  First  *)
(* any device g whose names are the edges E.                               *)
UsableIn(g) == (g.inodeBitmap \ Reserved) \cup {Root}

Shows(g, E) ==
  /\ NamesAre(g.inodes, g.dirBlocks, E)
  /\ Cardinality(UsableIn(g)) \in Nat
  /\ \A p, i : Leads(E, p, i) => Len(p) <= Cardinality(UsableIn(g))

Seeing(p, i, k) == [path |-> p, inode |-> i, kind |-> k]

SeenOver(g, E) ==
  {Seeing(y[1], y[2], g.inodes[y[2]].kind) : y \in {x \in Universe : Leads(E, x[1], x[2])}}

LEMMA IsSeen ==
  ASSUME NEW g, NEW E, NEW x
  PROVE  x \in SeenOver(g, E) <=>
           x = Seeing(x.path, x.inode, g.inodes[x.inode].kind) /\ Leads(E, x.path, x.inode)
<1>1. ASSUME x \in SeenOver(g, E)
      PROVE  x = Seeing(x.path, x.inode, g.inodes[x.inode].kind) /\ Leads(E, x.path, x.inode)
  <2>1. PICK y \in Universe :
          x = Seeing(y[1], y[2], g.inodes[y[2]].kind) /\ Leads(E, y[1], y[2])
    BY <1>1 DEF SeenOver
  <2>2. x.path = y[1] /\ x.inode = y[2]
    BY <2>1 DEF Seeing
  <2>. QED
    BY <2>1, <2>2
<1>2. ASSUME x = Seeing(x.path, x.inode, g.inodes[x.inode].kind), Leads(E, x.path, x.inode)
      PROVE  x \in SeenOver(g, E)
  <2>1. PICK y : y = <<x.path, x.inode>>
    OBVIOUS
  <2>2. y \in Universe
    BY <1>2, <2>1 DEF Leads
  <2>3. x = Seeing(y[1], y[2], g.inodes[y[2]].kind) /\ Leads(E, y[1], y[2])
    BY <1>2, <2>1
  <2>. QED
    BY <2>2, <2>3 DEF SeenOver
<1>. QED
  BY <1>1, <1>2

LEMMA SeenInodes ==
  ASSUME NEW g, NEW E, NEW i
  PROVE  i \in InodesIn(SeenOver(g, E)) <=> \E p : Leads(E, p, i)
<1>1. ASSUME NEW p, Leads(E, p, i) PROVE \E x \in SeenOver(g, E) : x.inode = i
  <2>1. PICK x : x = Seeing(p, i, g.inodes[i].kind)
    OBVIOUS
  <2>2. x.path = p /\ x.inode = i
    BY <2>1 DEF Seeing
  <2>3. x \in SeenOver(g, E)
    BY <1>1, <2>1, <2>2, IsSeen
  <2>. QED
    BY <2>2, <2>3
<1>2. ASSUME NEW x \in SeenOver(g, E), x.inode = i PROVE \E p : Leads(E, p, i)
  BY <1>2, IsSeen
<1>. QED
  BY <1>1, <1>2 DEF InodesIn

(* Going by the places found is going by the edges. *)
LEMMA SeenFrom ==
  ASSUME NEW g, NEW E, NEW F,
         \A x : x \in F <=> x = Place(x.path, x.inode) /\ Leads(E, x.path, x.inode)
  PROVE  {Seeing(x.path, x.inode, g.inodes[x.inode].kind) : x \in F} = SeenOver(g, E)
<1>1. ASSUME NEW x \in F
      PROVE  Seeing(x.path, x.inode, g.inodes[x.inode].kind) \in SeenOver(g, E)
  <2>1. PICK y : y = Seeing(x.path, x.inode, g.inodes[x.inode].kind)
    OBVIOUS
  <2>2. y.path = x.path /\ y.inode = x.inode
    BY <2>1 DEF Seeing
  <2>. QED
    BY <2>1, <2>2, IsSeen
<1>2. ASSUME NEW y \in SeenOver(g, E)
      PROVE  \E x \in F : y = Seeing(x.path, x.inode, g.inodes[x.inode].kind)
  <2>1. y = Seeing(y.path, y.inode, g.inodes[y.inode].kind) /\ Leads(E, y.path, y.inode)
    BY IsSeen
  <2>2. PICK x : x = Place(y.path, y.inode)
    OBVIOUS
  <2>3. x.path = y.path /\ x.inode = y.inode
    BY <2>2 DEF Place
  <2>. QED
    BY <2>1, <2>2, <2>3
<1>. QED
  BY <1>1, <1>2

LEMMA ShownNowIs ==
  ASSUME NEW E, Shows(image, E) PROVE ShownNow = SeenOver(image, E)
<1>1. Img!NamedPaths = PathsIn(image.inodes, image.dirBlocks, Cardinality(UsableIn(image)))
  BY DEF Img!NamedPaths, PathsIn, Img!Named, NamedIn, Img!DirEntries, Img!Usable, UsableIn,
         Img!Live, Live, Img!IsUnused, IsUnused, Img!Root, Img!Reserved, Img!Dots, Dots, Root,
         Reserved, Img!Cardinality, Cardinality
<1>2. Img!NamedPaths = FoundIn(E, Cardinality(UsableIn(image)))
  BY <1>1, PathsInAre DEF Shows
<1>3. PICK F : F = Img!NamedPaths
  OBVIOUS
<1>4. \A x : x \in F <=> x = Place(x.path, x.inode) /\ Leads(E, x.path, x.inode)
  BY <1>2, <1>3, IsFound DEF Shows
<1>5. ShownNow = {Seeing(x.path, x.inode, image.inodes[x.inode].kind) : x \in F}
  BY <1>3 DEF ShownNow, Seeing
<1>. QED
  BY <1>4, <1>5, SeenFrom

(* What the properties say of the image, of any device. *)
Partly(now, b, a) ==
  /\ now \subseteq b \cup a /\ b \cap a \subseteq now
  /\ InodesIn(b) \cap InodesIn(a) \subseteq InodesIn(now)

Unharmed(g, B) ==
  \A i \in B :
    /\ i \in g.inodeBitmap
    /\ OwnRun(g.inodes[i]) \subseteq g.blockBitmap \ (0 .. (RootBlock - 1))
    /\ \A j \in B \ {i} : OwnRun(g.inodes[i]) \cap OwnRun(g.inodes[j]) = {}

(* g lies between a device that shows b and one that shows a, X apart. *)
LiesBetween(g, b, a, X) ==
  \E E : /\ Shows(g, E) /\ Partly(SeenOver(g, E), b, a)
         /\ Unharmed(g, (InodesIn(SeenOver(g, E)) \cap InodesIn(a)) \ X)

Resized == IF call.op = "truncate" THEN {OpenPath(call.path)} ELSE {}

LEMMA LiesBetweenMeans ==
  ASSUME LiesBetween(image, began, Shown, Resized)
  PROVE  NamesInBetween /\ NeverNameless /\ DamageIsLocal
<1>1. PICK E : /\ Shows(image, E) /\ Partly(SeenOver(image, E), began, Shown)
               /\ Unharmed(image, (InodesIn(SeenOver(image, E)) \cap InodesIn(Shown)) \ Resized)
  BY DEF LiesBetween
<1>2. ShownNow = SeenOver(image, E)
  BY <1>1, ShownNowIs
<1>3. NamesInBetween /\ NeverNameless
  BY <1>1, <1>2 DEF Partly, NamesInBetween, NeverNameless
<1>4. Bystanders = (InodesIn(SeenOver(image, E)) \cap InodesIn(Shown)) \ Resized
  BY <1>2 DEF Bystanders, Resized
<1>5. DamageIsLocal
  BY <1>1, <1>4 DEF Unharmed, DamageIsLocal
<1>. QED
  BY <1>3, <1>5

-----------------------------------------------------------------------------
(* A device that shows what the program's variables do. *)
Alike(g) ==
  /\ \A i \in Reached : g.inodes[i].kind = inodes[i].kind
  /\ \A i \in Reached : \A n, j :
       (\E e \in NamedIn(g.inodes, g.dirBlocks, i) : e.name = n /\ e.inode = j)
         <=> (\E e \in Named(i) : e.name = n /\ e.inode = j)
  /\ Cardinality(UsableIn(g)) \in Nat
  /\ Cardinality(UsableIn(g)) >= Cardinality(Usable) - 1

LEMMA ShownIs ==
  NoDotsInPaths /\ TreeIInv =>
    /\ Shown = SeenOver(Goal, EdgesOf)
    /\ InodesIn(Shown) = Reached
<1>. SUFFICES ASSUME NoDotsInPaths, TreeIInv
              PROVE  Shown = SeenOver(Goal, EdgesOf) /\ InodesIn(Shown) = Reached
  OBVIOUS
<1>1. PICK F : F = NamedPaths
  OBVIOUS
<1>2. \A x : x \in F <=> x = Place(x.path, x.inode) /\ Leads(EdgesOf, x.path, x.inode)
  BY <1>1, NamedPathsLed
<1>3. Shown = {Seeing(x.path, x.inode, Goal.inodes[x.inode].kind) : x \in F}
  BY <1>1 DEF Shown, Seeing, Goal
<1>4. Shown = SeenOver(Goal, EdgesOf)
  BY <1>2, <1>3, SeenFrom
<1>5. \A i : i \in InodesIn(Shown) <=> \E p : Leads(EdgesOf, p, i)
  BY <1>4, SeenInodes
<1>. QED
  BY <1>4, <1>5, ReachedLed

AlikeLooksSame == \A g : Alike(g) => Shows(g, EdgesOf) /\ SeenOver(g, EdgesOf) = Shown

LEMMA AlikeShows ==
  NoDotsInPaths /\ TreeIInv => AlikeLooksSame
<1>. SUFFICES ASSUME NoDotsInPaths, TreeIInv, NEW g, Alike(g)
              PROVE  Shows(g, EdgesOf) /\ SeenOver(g, EdgesOf) = Shown
  BY DEF AlikeLooksSame
<1>1. /\ EdgeSet(EdgesOf) /\ \A p, i : Leads(EdgesOf, p, i) => i \in Reached
  BY EdgesAre, ReachedLed DEF Treelike
<1>2. \A i \in Reached : \A n, j :
        <<i, n, j>> \in EdgesOf <=> \E e \in Named(i) : e.name = n /\ e.inode = j
  BY NamedEdges
<1>3. NamesAre(g.inodes, g.dirBlocks, EdgesOf)
  BY <1>1, <1>2 DEF Alike, NamesAre
<1>4. \A p, i : Leads(EdgesOf, p, i) => Len(p) <= Cardinality(UsableIn(g))
  <2>1. /\ \A p, i : Leads(EdgesOf, p, i) => Len(p) \in Nat /\ Len(p) < Cardinality(Usable)
        /\ Cardinality(Usable) \in Nat
    BY NamedPathsLed
  <2>2. /\ Cardinality(UsableIn(g)) \in Nat
        /\ Cardinality(UsableIn(g)) >= Cardinality(Usable) - 1
    BY DEF Alike
  <2>. QED
    BY <2>1, <2>2
<1>5. Shows(g, EdgesOf)
  BY <1>3, <1>4 DEF Shows, Alike
<1>6. SeenOver(g, EdgesOf) = SeenOver(Goal, EdgesOf)
  <2>1. \A i \in Reached : g.inodes[i].kind = Goal.inodes[i].kind
    BY DEF Alike, Goal
  <2>2. \A x \in {y \in Universe : Leads(EdgesOf, y[1], y[2])} :
          Seeing(x[1], x[2], g.inodes[x[2]].kind) = Seeing(x[1], x[2], Goal.inodes[x[2]].kind)
    BY <1>1, <2>1
  <2>. QED
    BY <2>2 DEF SeenOver
<1>. QED
  BY <1>5, <1>6, ShownIs

(* Where the rows are those of the program, and the blocks in use are, the *)
(* names are.                                                              *)
SameRow(r, r2) ==
  r.kind = r2.kind /\ r.size = r2.size /\ r.start = r2.start /\ r.len = r2.len

Intact(g) ==
  /\ \A b \in blockBitmap : g.dirBlocks[b] = dirBlocks[b]
  /\ \A i \in Reached :
       \/ SameRow(g.inodes[i], inodes[i])
       \/ g.inodes[i].kind = inodes[i].kind /\ g.inodes[i].len = 0 /\ Named(i) = {}
  /\ UsableIn(g) \subseteq Inodes /\ \E t : Usable \ {t} \subseteq UsableIn(g)

LEMMA StartsMarked ==
  ASSUME NoDotsInPaths, TreeIInv, NEW i \in Usable, inodes[i].len # 0
  PROVE  inodes[i].start \in blockBitmap
<1>0. NoDotsInPaths /\ IInv /\ PlainFiles /\ i \in Inodes
  BY UsableInodes DEF TreeIInv, TreeParts
<1>1. CASE i \in DirRecs
  <2>1. OwnRun(inodes[i]) = {inodes[i].start}
    BY <1>0, <1>1, StartsApart
  <2>2. OwnRun(inodes[i]) \subseteq blockBitmap
    BY <1>0 DEF IInv, BlocksOwnedOnce
  <2>. QED
    BY <2>1, <2>2
<1>2. CASE i \notin DirRecs
  <2>1. inodes[i].len \in Nat
    BY <1>0, InodeFields DEF IInv
  <2>. QED
    BY <1>0, <1>2, <2>1, PlainStarts
<1>. QED
  BY <1>1, <1>2

LEMMA NearlyAll ==
  ASSUME NEW U, NEW V, IsFiniteSet(U), IsFiniteSet(V), NEW t, U \ {t} \subseteq V
  PROVE  Cardinality(V) \in Nat /\ Cardinality(V) >= Cardinality(U) - 1
<1>1. /\ Cardinality(V) \in Nat /\ Cardinality(U) \in Nat
      /\ IsFiniteSet(U \ {t}) /\ Cardinality(U \ {t}) \in Nat
  BY FS_CardinalityType, FS_Subset
<1>2. Cardinality(U \ {t}) <= Cardinality(V)
  BY FS_Subset
<1>3. Cardinality(U \ {t}) >= Cardinality(U) - 1
  BY <1>1, FS_RemoveElement
<1>. QED
  BY <1>1, <1>2, <1>3

IntactIsAlike == \A g : Intact(g) => Alike(g)

LEMMA IntactAlike ==
  NoDotsInPaths /\ TreeIInv => IntactIsAlike
<1>. SUFFICES ASSUME NoDotsInPaths, TreeIInv, NEW g, Intact(g) PROVE Alike(g)
  BY DEF IntactIsAlike
<1>0. IInv /\ Usable \subseteq Inodes /\ Reached \subseteq Usable
  BY UsableInodes, TreeMeans DEF TreeIInv
<1>1. ASSUME NEW i \in Reached
      PROVE  /\ g.inodes[i].kind = inodes[i].kind
             /\ NamedIn(g.inodes, g.dirBlocks, i) = Named(i)
  <2>1. CASE SameRow(g.inodes[i], inodes[i])
    <3>1. /\ g.inodes[i].kind = inodes[i].kind /\ g.inodes[i].start = inodes[i].start
          /\ g.inodes[i].len = inodes[i].len
      BY <2>1 DEF SameRow
    <3>2. inodes[i].len # 0 => g.dirBlocks[inodes[i].start] = dirBlocks[inodes[i].start]
      BY <1>0, StartsMarked DEF Intact
    <3>. QED
      BY <3>1, <3>2 DEF NamedIn, Named, DirEntries
  <2>2. CASE g.inodes[i].kind = inodes[i].kind /\ g.inodes[i].len = 0 /\ Named(i) = {}
    <3>1. NamedIn(g.inodes, g.dirBlocks, i) = {}
      BY <2>2 DEF NamedIn, Live
    <3>. QED
      BY <2>2, <3>1
  <2>. QED
    BY <2>1, <2>2 DEF Intact
<1>2. Cardinality(UsableIn(g)) \in Nat /\ Cardinality(UsableIn(g)) >= Cardinality(Usable) - 1
  <2>1. IsFiniteSet(Usable)
    BY <1>0, UsableFinite
  <2>2. IsFiniteSet(UsableIn(g))
    <3>1. IsFiniteSet(Inodes)
      BY Constants, FS_Interval DEF Inodes
    <3>. QED
      BY <3>1, FS_Subset DEF Intact
  <2>. QED
    BY <2>1, <2>2, NearlyAll DEF Intact
<1>. QED
  BY <1>1, <1>2 DEF Alike

(* Who keeps its row keeps its blocks, if the bits are kept. *)
KeptIsUnharmed ==
  \A g : \A S \in SUBSET Reached :
    /\ inodeBitmap \subseteq g.inodeBitmap /\ blockBitmap \subseteq g.blockBitmap
    /\ \A i \in S : SameRow(g.inodes[i], inodes[i])
    => Unharmed(g, S)

LEMMA RowsUnharmed ==
  NoDotsInPaths /\ TreeIInv => KeptIsUnharmed
<1>. SUFFICES ASSUME NoDotsInPaths, TreeIInv, NEW g, NEW S \in SUBSET Reached,
                     inodeBitmap \subseteq g.inodeBitmap, blockBitmap \subseteq g.blockBitmap,
                     \A i \in S : SameRow(g.inodes[i], inodes[i])
              PROVE  Unharmed(g, S)
  BY DEF KeptIsUnharmed
<1>1. IInv /\ S \subseteq Usable
  BY TreeMeans DEF TreeIInv
<1>2. \A i \in S : OwnRun(g.inodes[i]) = OwnRun(inodes[i])
  BY DEF SameRow, OwnRun
<1>3. Usable \subseteq inodeBitmap
  BY <1>1, Constants DEF IInv, MetadataMarked, Usable, Reserved, Root
<1>4. \A i \in S : OwnRun(inodes[i]) \subseteq blockBitmap \ (0 .. (RootBlock - 1))
  BY <1>1 DEF IInv, BlocksOwnedOnce
<1>5. \A i \in S : \A j \in S \ {i} : OwnRun(inodes[i]) \cap OwnRun(inodes[j]) = {}
  BY <1>1 DEF IInv, BlocksOwnedOnce
<1>. QED
  BY <1>1, <1>2, <1>3, <1>4, <1>5 DEF Unharmed

(* Two kinds of devices between two: one still as before, one already as   *)
(* after.                                                                  *)
LEMMA StillBefore ==
  ASSUME NoDotsInPaths, TreeIInv, TreeIInv', NEW g, Intact(g), NEW X,
         Unharmed(g, (Reached \cap Reached') \ X)
  PROVE  LiesBetween(g, Shown, Shown', X)
<1>1. Shows(g, EdgesOf) /\ SeenOver(g, EdgesOf) = Shown
  BY IntactAlike, AlikeShows DEF IntactIsAlike, AlikeLooksSame
<1>2. InodesIn(Shown) = Reached
  BY ShownIs
<1>3. InodesIn(Shown') = Reached'
  <2>1. (NoDotsInPaths /\ TreeIInv => InodesIn(Shown) = Reached)'
    BY ShownIs, PTL
  <2>2. NoDotsInPaths'
    BY DEF NoDotsInPaths
  <2>3. InodesIn(Shown)' = InodesIn(Shown')
    BY DEF InodesIn
  <2>. QED
    BY <2>1, <2>2, <2>3
<1>4. Partly(SeenOver(g, EdgesOf), Shown, Shown')
  BY <1>1 DEF Partly
<1>5. InodesIn(SeenOver(g, EdgesOf)) = Reached
  BY <1>1, <1>2
<1>. QED
  BY <1>1, <1>3, <1>4, <1>5 DEF LiesBetween

LEMMA AlreadyAfter ==
  ASSUME NoDotsInPaths, TreeIInv, TreeIInv', NEW g, Intact(g)', NEW X,
         Unharmed(g, Reached' \ X)
  PROVE  LiesBetween(g, Shown, Shown', X)
<1>0. NoDotsInPaths'
  BY DEF NoDotsInPaths
<1>1. (NoDotsInPaths /\ TreeIInv => IntactIsAlike)'
  BY IntactAlike, PTL
<1>2. (NoDotsInPaths /\ TreeIInv => AlikeLooksSame)'
  BY AlikeShows, PTL
<1>3. (NoDotsInPaths /\ TreeIInv => InodesIn(Shown) = Reached)'
  BY ShownIs, PTL
<1>4. Alike(g)'
  BY <1>0, <1>1 DEF IntactIsAlike
<1>5. PICK E : E = EdgesOf'
  OBVIOUS
<1>6. Shows(g, E) /\ SeenOver(g, E) = Shown'
  BY <1>0, <1>2, <1>4, <1>5 DEF AlikeLooksSame
<1>7. InodesIn(Shown') = Reached'
  BY <1>0, <1>3 DEF InodesIn
<1>8. Partly(SeenOver(g, E), Shown, Shown')
  BY <1>6 DEF Partly
<1>9. Unharmed(g, (InodesIn(SeenOver(g, E)) \cap InodesIn(Shown')) \ X)
  BY <1>6, <1>7
<1>. QED
  BY <1>6, <1>8, <1>9 DEF LiesBetween

(* A device that keeps every bit, and every row and block in use.          *)
Keeps(g) ==
  /\ blockBitmap \subseteq g.blockBitmap /\ inodeBitmap \subseteq g.inodeBitmap
  /\ g.inodeBitmap \subseteq Inodes
  /\ \A b \in blockBitmap : g.dirBlocks[b] = dirBlocks[b]
  /\ \A i \in Reached : SameRow(g.inodes[i], inodes[i])

KeptIsSame ==
  \A g : Keeps(g) => Intact(g) /\ \A S \in SUBSET Reached : Unharmed(g, S)

LEMMA KeepsSame ==
  NoDotsInPaths /\ TreeIInv => KeptIsSame
<1>. SUFFICES ASSUME NoDotsInPaths, TreeIInv, NEW g, Keeps(g)
              PROVE  Intact(g) /\ \A S \in SUBSET Reached : Unharmed(g, S)
  BY DEF KeptIsSame
<1>1. UsableIn(g) \subseteq Inodes
  BY Constants DEF Keeps, UsableIn, Root, Inodes
<1>2. Usable \ {NoInode} \subseteq UsableIn(g)
  BY DEF Keeps, UsableIn, Usable
<1>3. Intact(g)
  BY <1>1, <1>2 DEF Intact, Keeps
<1>4. \A S \in SUBSET Reached : Unharmed(g, S)
  BY RowsUnharmed DEF KeptIsUnharmed, Keeps
<1>. QED
  BY <1>3, <1>4

LEMMA KeepsBefore ==
  ASSUME NoDotsInPaths, TreeIInv, TreeIInv', NEW g, Keeps(g), NEW X
  PROVE  LiesBetween(g, Shown, Shown', X)
<1>1. Intact(g) /\ Unharmed(g, (Reached \cap Reached') \ X)
  BY KeepsSame DEF KeptIsSame
<1>. QED
  BY <1>1, StillBefore

LEMMA KeepsAfter ==
  ASSUME NoDotsInPaths, TreeIInv, TreeIInv', NEW g, Keeps(g)', NEW X
  PROVE  LiesBetween(g, Shown, Shown', X)
<1>1. (NoDotsInPaths /\ TreeIInv => KeptIsSame)'
  BY KeepsSame, PTL
<1>2. NoDotsInPaths'
  BY DEF NoDotsInPaths
<1>3. Intact(g)' /\ Unharmed(g, Reached' \ X)
  BY <1>1, <1>2 DEF KeptIsSame
<1>. QED
  BY <1>3, AlreadyAfter

(* What has a name is marked. *)
AllMarked ==
  /\ Reached \subseteq Usable /\ Usable \subseteq inodeBitmap /\ inodeBitmap \subseteq Inodes
  /\ blockBitmap \subseteq Blocks

LEMMA ReachedMarked == NoDotsInPaths /\ TreeIInv => AllMarked
<1>. SUFFICES ASSUME NoDotsInPaths, TreeIInv PROVE AllMarked
  OBVIOUS
<1>1. IInv /\ Reached \subseteq Usable
  BY TreeMeans DEF TreeIInv
<1>2. Usable \subseteq inodeBitmap
  BY <1>1, Constants DEF IInv, MetadataMarked, Usable, Reserved, Root
<1>3. inodeBitmap \subseteq Inodes /\ blockBitmap \subseteq Blocks
  BY <1>1 DEF IInv, TypeOK
<1>. QED
  BY <1>1, <1>2, <1>3 DEF AllMarked

LEMMA ReachedMarkedAfter == NoDotsInPaths /\ TreeIInv' => AllMarked'
<1>1. (NoDotsInPaths /\ TreeIInv => AllMarked)'
  BY ReachedMarked, PTL
<1>. QED
  BY <1>1 DEF NoDotsInPaths

-----------------------------------------------------------------------------
(* create_file, mkdir, symlink.                                            *)
InsertKept ==
  /\ inodeBitmap \subseteq inodeBitmap' /\ blockBitmap \subseteq blockBitmap'
  /\ \A i \in Inodes : i \notin NewInodes => SameRow(inodes[i], inodes'[i])

LEMMA InsertKeeps ==
  ASSUME Whole(inodes, dirBlocks),
         NEW d, NEW name, NEW kind, NEW links, NEW size, NEW n,
         Insert(d, name, kind, links, size, n)
  PROVE  Goal' = Goal \/ InsertKept
<1>1. CASE Refuse \/ NoInodeLeft
  BY <1>1, StillGoal DEF Refuse, NoInodeLeft
<1>2. CASE ~ (Refuse \/ NoInodeLeft)
  <2>0. DOMAIN inodes = Inodes
    BY WholeDomains
  <2>1. PICK i \in Inodes :
          /\ FirstFreeInode(i)
          /\ \/ NoRunLeft(i, n)
             \/ \E s \in Blocks :
                  LET rec == Inode(kind, links, size, s, n) IN
                  ParentFull(i, d, name, rec) \/ Linked(i, d, name, rec)
    BY <1>2 DEF Insert
  <2>2. i \notin inodeBitmap
    BY <2>1 DEF FirstFreeInode, IsFirstZero
  <2>3. CASE NoRunLeft(i, n)
    BY <2>3 DEF NoRunLeft, InsertKept, SameRow
  <2>4. CASE ~ NoRunLeft(i, n)
    <3>1. PICK s, rec : ParentFull(i, d, name, rec) \/ Linked(i, d, name, rec)
      BY <2>1, <2>4
    <3>2. /\ inodeBitmap' = inodeBitmap \cup {i}
          /\ blockBitmap \subseteq blockBitmap'
      BY <3>1 DEF ParentFull, Linked, Allocated
    <3>3. i \in NewInodes
      BY <2>2, <3>2 DEF NewInodes
    <3>4. ASSUME NEW j \in Inodes, j # i PROVE SameRow(inodes[j], inodes'[j])
      <4>1. CASE inodes' = [inodes EXCEPT ![i] = rec]
        BY <2>0, <3>4, <4>1 DEF SameRow
      <4>2. CASE inodes' = [inodes EXCEPT ![i] = rec,
                              ![d].links = IF rec.kind = "dir" THEN @ + 1 ELSE @]
        BY <2>0, <3>4, <4>2 DEF SameRow
      <4>. QED
        BY <3>1, <4>1, <4>2 DEF ParentFull, Linked
    <3>. QED
      BY <3>2, <3>3, <3>4 DEF InsertKept
  <2>. QED
    BY <2>3, <2>4
<1>. QED
  BY <1>1, <1>2

LEMMA InsertShows ==
  ASSUME NoDotsInPaths, TreeIInv, TreeIInv', NEW d, InsertEdited(d), InsertKept, NEW X
  PROVE  \A g \in InsertImages(d, NewInodes, NewBlocks) : LiesBetween(g, Shown, Shown', X)
<1>0. /\ DOMAIN inodes = Inodes /\ DOMAIN dirBlocks = Blocks
      /\ DOMAIN inodes' = Inodes /\ DOMAIN dirBlocks' = Blocks
  BY WholeDomains DEF InsertEdited, Edits
<1>1. /\ Reached \subseteq inodeBitmap /\ Reached \subseteq Inodes /\ Reached' \subseteq Inodes
      /\ inodeBitmap \subseteq Inodes /\ inodeBitmap' \subseteq Inodes
      /\ blockBitmap \subseteq Blocks /\ blockBitmap' \subseteq Blocks
  BY ReachedMarked, ReachedMarkedAfter DEF AllMarked
<1>. DEFINE S == {inodes[i].start : i \in {d}}
            ino == Set(inodes, inodes', NewInodes)
            blks == Set(dirBlocks, dirBlocks', NewBlocks)
            linked == Set(dirBlocks, dirBlocks', NewBlocks \cup S)
<1>2. linked = dirBlocks'
  <2>1. S = {inodes[d].start}
    OBVIOUS
  <2>. QED
    BY <2>1, SetAll DEF InsertEdited
<1>3. /\ \A i \in Reached : SameRow(ino[i], inodes[i]) /\ SameRow(inodes[i], inodes[i])
      /\ \A b \in blockBitmap : blks[b] = dirBlocks[b]
  BY <1>0, <1>1 DEF NewInodes, NewBlocks, Set, SameRow
<1>4. \A i \in Reached' : SameRow(ino[i], inodes'[i]) /\ SameRow(inodes'[i], inodes'[i])
  BY <1>0, <1>1 DEF InsertKept, Set, SameRow
<1>5. \A cnt :
        /\ Keeps(Device(blockBitmap, inodeBitmap, inodes, dirBlocks, cnt))
        /\ Keeps(Device(blockBitmap, inodeBitmap', inodes, dirBlocks, cnt))
        /\ Keeps(Device(blockBitmap', inodeBitmap', inodes, dirBlocks, cnt))
        /\ Keeps(Device(blockBitmap', inodeBitmap', ino, dirBlocks, cnt))
        /\ Keeps(Device(blockBitmap', inodeBitmap', ino, blks, cnt))
  BY <1>1, <1>3 DEF InsertKept, Keeps, Device
<1>6. ASSUME NEW g, \E cnt : \/ g = Device(blockBitmap', inodeBitmap', ino, dirBlocks', cnt)
                             \/ g = Device(blockBitmap', inodeBitmap', inodes', dirBlocks', cnt)
      PROVE  Keeps(g)'
  BY <1>1, <1>4, <1>6 DEF Keeps, Device
<1>. HIDE DEF ino, blks, linked
<1>7. ASSUME NEW g \in InsertImages(d, NewInodes, NewBlocks) PROVE Keeps(g) \/ Keeps(g)'
  <2>1. \/ g = Device(blockBitmap, inodeBitmap, inodes, dirBlocks, diskCounts)
        \/ g = Device(blockBitmap, inodeBitmap', inodes, dirBlocks, diskCounts)
        \/ g = Device(blockBitmap', inodeBitmap', inodes, dirBlocks, diskCounts)
        \/ g = Device(blockBitmap', inodeBitmap', ino, dirBlocks, diskCounts)
        \/ g = Device(blockBitmap', inodeBitmap', ino, blks, diskCounts)
        \/ \E cnt : \/ g = Device(blockBitmap', inodeBitmap', ino, dirBlocks', cnt)
                    \/ g = Device(blockBitmap', inodeBitmap', inodes', dirBlocks', cnt)
    BY <1>2 DEF InsertImages, ino, blks, linked
  <2>. QED
    BY <1>5, <1>6, <2>1
<1>. QED
  BY <1>7, KeepsBefore, KeepsAfter

-----------------------------------------------------------------------------
(* unlink, rmdir, and the destination of a rename: until the entry goes,   *)
(* all is shown as before, whatever is left of t.                          *)
Frees(t) == t \in Usable /\ t # Root /\ FreesInode(t) /\ (t \in DirRecs => IsEmptyDir(t))

LEMMA FreedIsGone ==
  ASSUME NoDotsInPaths, TreeIInv, TreeIInv', NEW t, Frees(t)
  PROVE  /\ t \in Inodes /\ t \notin Reached' /\ Usable' = Usable \ {t}
         /\ inodeBitmap' = inodeBitmap \ {t} /\ blockBitmap' \subseteq blockBitmap
         /\ inodes'[t].kind = inodes[t].kind /\ inodes'[t].len = 0
         /\ \A i \in Inodes \ {t} : SameRow(inodes[i], inodes'[i])
<1>1. /\ t \in Inodes /\ Usable' = Usable \ {t} /\ FreesInode(t)
  BY UsableInodes, FreedOwns DEF Frees, TreeIInv
<1>2. Reached' \subseteq Usable'
  BY ReachedMarkedAfter DEF AllMarked
<1>. QED
  BY <1>1, <1>2 DEF FreesInode, SameRow

LEMMA FreedNamesNone ==
  ASSUME NoDotsInPaths, TreeIInv, NEW t, Frees(t), t \in Reached
  PROVE  Named(t) = {}
<1>1. t \in Inodes /\ KidsOf[t] = {}
  BY UsableInodes, EmptyKids DEF Frees, TreeIInv
<1>2. \A n, j : <<t, n, j>> \notin EdgesOf
  <2>1. \A n, j : <<t, n, j>> \in EdgesOf =>
          t \in DirRecs /\ n \in Names /\ j \in Inodes /\ Refers(Block(t), n, j)
    BY EdgesAre
  <2>. QED
    BY <1>1, <2>1 DEF KidsOf
<1>. QED
  BY <1>2, NamedEdges

(* What is still marked and still has its row is as after the call.        *)
LEMMA UnharmedAfter ==
  ASSUME NoDotsInPaths, TreeIInv', NEW g, NEW S, S \subseteq Reached',
         inodeBitmap' \subseteq g.inodeBitmap, blockBitmap' \subseteq g.blockBitmap,
         \A i \in S : SameRow(g.inodes[i], inodes'[i])
  PROVE  Unharmed(g, S)
<1>1. (NoDotsInPaths /\ TreeIInv => KeptIsUnharmed)'
  BY RowsUnharmed, PTL
<1>2. NoDotsInPaths'
  BY DEF NoDotsInPaths
<1>. QED
  BY <1>1, <1>2 DEF KeptIsUnharmed

LEMMA GoneBefore ==
  ASSUME NoDotsInPaths, TreeIInv, TreeIInv', NEW t, Frees(t), NEW g,
         inodeBitmap' \subseteq g.inodeBitmap, g.inodeBitmap \subseteq Inodes,
         blockBitmap' \subseteq g.blockBitmap,
         \A b \in blockBitmap : g.dirBlocks[b] = dirBlocks[b],
         \A i \in Inodes \ {t} : SameRow(g.inodes[i], inodes[i]),
         SameRow(g.inodes[t], inodes[t]) \/ SameRow(g.inodes[t], inodes'[t]), NEW X
  PROVE  LiesBetween(g, Shown, Shown', X)
<1>1. /\ t \in Inodes /\ t \notin Reached' /\ inodeBitmap' = inodeBitmap \ {t}
      /\ inodes'[t].kind = inodes[t].kind /\ inodes'[t].len = 0
      /\ \A i \in Inodes \ {t} : SameRow(inodes[i], inodes'[i])
  BY FreedIsGone
<1>2. Reached \subseteq Inodes /\ Reached' \subseteq Inodes
  <2>1. Reached \subseteq Usable /\ Usable \subseteq inodeBitmap /\ inodeBitmap \subseteq Inodes
    BY ReachedMarked DEF AllMarked
  <2>2. Reached' \subseteq Usable' /\ Usable' \subseteq inodeBitmap' /\ inodeBitmap' \subseteq Inodes
    BY ReachedMarkedAfter DEF AllMarked
  <2>. QED
    BY <2>1, <2>2
<1>3. \A i \in Reached :
        \/ SameRow(g.inodes[i], inodes[i])
        \/ g.inodes[i].kind = inodes[i].kind /\ g.inodes[i].len = 0 /\ Named(i) = {}
  <2>. SUFFICES ASSUME t \in Reached, SameRow(g.inodes[t], inodes'[t])
                PROVE  /\ g.inodes[t].kind = inodes[t].kind /\ g.inodes[t].len = 0
                       /\ Named(t) = {}
    BY <1>2
  <2>. QED
    BY <1>1, FreedNamesNone DEF SameRow
<1>4. UsableIn(g) \subseteq Inodes /\ Usable \ {t} \subseteq UsableIn(g)
  <2>1. Root \in Inodes
    BY Constants DEF Root, Inodes
  <2>. QED
    BY <1>1, <2>1 DEF UsableIn, Usable
<1>5. Intact(g)
  BY <1>3, <1>4 DEF Intact
<1>6. Unharmed(g, (Reached \cap Reached') \ X)
  <2>1. \A i \in (Reached \cap Reached') \ X : SameRow(g.inodes[i], inodes'[i])
    <3>. SUFFICES ASSUME NEW i \in Inodes \ {t} PROVE SameRow(g.inodes[i], inodes'[i])
      BY <1>1, <1>2
    <3>1. SameRow(g.inodes[i], inodes[i]) /\ SameRow(inodes[i], inodes'[i])
      BY <1>1
    <3>. QED
      BY <3>1 DEF SameRow
  <2>. QED
    BY <2>1, UnharmedAfter
<1>. QED
  BY <1>5, <1>6, StillBefore

(* And once it is gone, as after, though the parent's row is still to be   *)
(* written.                                                                *)
LEMMA RowsAfter ==
  ASSUME NoDotsInPaths, TreeIInv, TreeIInv', NEW ino, NEW cnt,
         \A i \in Reached' : SameRow(ino[i], inodes'[i]), NEW X
  PROVE  LiesBetween(Device(blockBitmap', inodeBitmap', ino, dirBlocks', cnt), Shown, Shown', X)
<1>1. PICK g : g = Device(blockBitmap', inodeBitmap', ino, dirBlocks', cnt)
  OBVIOUS
<1>2. inodeBitmap' \subseteq Inodes
  BY ReachedMarkedAfter DEF AllMarked
<1>3. Keeps(g)'
  BY <1>1, <1>2 DEF Keeps, Device
<1>. QED
  BY <1>1, <1>3, KeepsAfter

LEMMA RemoveShows ==
  ASSUME NoDotsInPaths, TreeIInv, TreeIInv', NEW d, NEW name, NEW t, Leaf(d, name, t),
         RemoveEdited(d, t), NEW X
  PROVE  \A g \in RemoveImages(t) : LiesBetween(g, Shown, Shown', X)
<1>1. Frees(t)
  <2>1. t # Root
    <3>1. t \in Inodes /\ t \in KidsOf[d]
      BY UsableInodes DEF Leaf, KidsOf, TreeIInv
    <3>2. <<d, name, t>> \in EdgesOf
      BY <3>1, EdgesAre DEF Leaf
    <3>. QED
      BY <3>2, EdgesAre DEF Treelike
  <2>. QED
    BY <2>1 DEF Leaf, Frees
<1>2. /\ t \in Inodes /\ t \notin Reached' /\ inodeBitmap' = inodeBitmap \ {t}
      /\ blockBitmap' \subseteq blockBitmap
      /\ \A i \in Inodes \ {t} : SameRow(inodes[i], inodes'[i])
  BY <1>1, FreedIsGone
<1>3. DOMAIN inodes = Inodes
  BY WholeDomains DEF RemoveEdited, Edits
<1>. DEFINE ino == Set(inodes, inodes', {t})
<1>4. /\ ino[t] = inodes'[t] /\ \A i \in Inodes \ {t} : ino[i] = inodes[i]
  BY <1>2, <1>3 DEF Set
<1>5. \A r : SameRow(r, r)
  BY DEF SameRow
<1>6. inodeBitmap \subseteq Inodes /\ Reached' \subseteq Inodes
  <2>1. inodeBitmap \subseteq Inodes
    BY ReachedMarked DEF AllMarked
  <2>2. Reached' \subseteq Usable' /\ Usable' \subseteq inodeBitmap'
    BY ReachedMarkedAfter DEF AllMarked
  <2>. QED
    BY <1>2, <2>1, <2>2
<1>7. \A i \in Reached' : SameRow(ino[i], inodes'[i]) /\ SameRow(inodes'[i], inodes'[i])
  BY <1>2, <1>4, <1>5, <1>6
<1>. HIDE DEF ino
<1>8. ASSUME NEW g, g.dirBlocks = dirBlocks, g.inodes \in {inodes, ino},
             g.blockBitmap \in {blockBitmap, blockBitmap'},
             g.inodeBitmap \in {inodeBitmap, inodeBitmap'}
      PROVE  LiesBetween(g, Shown, Shown', X)
  <2>1. /\ \A i \in Inodes \ {t} : SameRow(g.inodes[i], inodes[i])
        /\ SameRow(g.inodes[t], inodes[t]) \/ SameRow(g.inodes[t], inodes'[t])
    BY <1>4, <1>5, <1>8
  <2>2. /\ inodeBitmap' \subseteq g.inodeBitmap /\ g.inodeBitmap \subseteq Inodes
        /\ blockBitmap' \subseteq g.blockBitmap
    BY <1>2, <1>6, <1>8
  <2>. QED
    BY <1>1, <1>8, <2>1, <2>2, GoneBefore
<1>9. ASSUME NEW g \in RemoveImages(t)
      PROVE  \/ /\ g.dirBlocks = dirBlocks /\ g.inodes \in {inodes, ino}
                /\ g.blockBitmap \in {blockBitmap, blockBitmap'}
                /\ g.inodeBitmap \in {inodeBitmap, inodeBitmap'}
             \/ \E cnt, rows : /\ rows \in {ino, inodes'}
                               /\ g = Device(blockBitmap', inodeBitmap', rows, dirBlocks', cnt)
  BY DEF RemoveImages, Device, ino
<1>10. \A cnt, rows : rows \in {ino, inodes'} =>
         LiesBetween(Device(blockBitmap', inodeBitmap', rows, dirBlocks', cnt), Shown, Shown', X)
  <2>1. ASSUME NEW cnt, NEW rows, rows \in {ino, inodes'}
        PROVE  LiesBetween(Device(blockBitmap', inodeBitmap', rows, dirBlocks', cnt),
                           Shown, Shown', X)
    <3>1. \A i \in Reached' : SameRow(rows[i], inodes'[i])
      BY <1>7, <2>1
    <3>. QED
      BY <3>1, RowsAfter
  <2>. QED
    BY <2>1
<1>. QED
  BY <1>8, <1>9, <1>10

-----------------------------------------------------------------------------
(* truncate: but for the file, all is as before until its row is written,  *)
(* and as after from then on.                                              *)
LEMMA ResizeShows ==
  ASSUME NoDotsInPaths, TreeIInv, TreeIInv', NEW i, inodeBitmap' = inodeBitmap,
         Edits(inodes, inodes', {i}, dirBlocks, dirBlocks', {}),
         blockBitmap' \subseteq blockBitmap
  PROVE  \A g \in ResizeImages : LiesBetween(g, Shown, Shown', {i})
<1>1. \A j \in Inodes \ {i} : inodes'[j] = inodes[j]
  BY DEF Edits
<1>2. /\ Reached \subseteq Usable /\ Usable \subseteq inodeBitmap /\ inodeBitmap \subseteq Inodes
      /\ Reached' \subseteq Inodes
  <2>1. /\ Reached \subseteq Usable /\ Usable \subseteq inodeBitmap
        /\ inodeBitmap \subseteq Inodes
    BY ReachedMarked DEF AllMarked
  <2>2. Reached' \subseteq Usable' /\ Usable' \subseteq inodeBitmap' /\ inodeBitmap' \subseteq Inodes
    BY ReachedMarkedAfter DEF AllMarked
  <2>. QED
    BY <2>1, <2>2
<1>3. \A r : SameRow(r, r)
  BY DEF SameRow
<1>4. ASSUME NEW g, g.dirBlocks = dirBlocks, g.inodes = inodes, g.inodeBitmap = inodeBitmap,
             g.blockBitmap \in {blockBitmap, blockBitmap'}
      PROVE  LiesBetween(g, Shown, Shown', {i})
  <2>1. UsableIn(g) \subseteq Inodes /\ Usable \ {i} \subseteq UsableIn(g)
    <3>1. Root \in Inodes
      BY Constants DEF Root, Inodes
    <3>. QED
      BY <1>2, <1>4, <3>1 DEF UsableIn, Usable
  <2>2. Intact(g)
    BY <1>3, <1>4, <2>1 DEF Intact
  <2>3. Unharmed(g, (Reached \cap Reached') \ {i})
    <3>1. \A j \in (Reached \cap Reached') \ {i} : SameRow(g.inodes[j], inodes'[j])
      BY <1>1, <1>2, <1>3, <1>4
    <3>2. blockBitmap' \subseteq g.blockBitmap /\ inodeBitmap' \subseteq g.inodeBitmap
      BY <1>4
    <3>. QED
      BY <3>1, <3>2, UnharmedAfter
  <2>. QED
    BY <2>2, <2>3, StillBefore
<1>5. ASSUME NEW g \in ResizeImages
      PROVE  \/ /\ g.dirBlocks = dirBlocks /\ g.inodes = inodes /\ g.inodeBitmap = inodeBitmap
                /\ g.blockBitmap \in {blockBitmap, blockBitmap'}
             \/ \E cnt : g = Device(blockBitmap', inodeBitmap', inodes', dirBlocks', cnt)
  BY DEF ResizeImages, Device
<1>6. \A cnt : LiesBetween(Device(blockBitmap', inodeBitmap', inodes', dirBlocks', cnt),
                           Shown, Shown', {i})
  BY <1>3, RowsAfter
<1>. QED
  BY <1>4, <1>5, <1>6

-----------------------------------------------------------------------------
(* rename.  The edges are the names that some blocks hold.                 *)
EdgesFor(E, blks) ==
  /\ EdgeSet(E)
  /\ \A a, n, j : <<a, n, j>> \in E
       <=> a \in DirRecs /\ n \in Names /\ j \in Inodes /\ Refers(At(blks, a), n, j)

(* Blocks in which only directories were edited. *)
Midway(blks) == AllSound(blks) /\ \A b \in blockBitmap \ DirStarts : blks[b] = dirBlocks[b]

LEMMA MidwayNames ==
  ASSUME NoDotsInPaths, TreeIInv, NEW blks, Midway(blks), NEW E, EdgesFor(E, blks),
         NEW ino, NEW i \in Usable, SameRow(ino[i], inodes[i])
  PROVE  \A n, j : <<i, n, j>> \in E
                     <=> \E e \in NamedIn(ino, blks, i) : e.name = n /\ e.inode = j
<1>0. IInv /\ PlainFiles /\ i \in Inodes
  BY UsableInodes DEF TreeIInv, TreeParts
<1>1. ino[i].len = inodes[i].len /\ ino[i].start = inodes[i].start /\ inodes[i].len \in Nat
  BY <1>0, InodeFields DEF SameRow, IInv
<1>2. CASE i \in DirRecs
  <2>1. NamedIn(ino, blks, i) = {e \in Live(At(blks, i)) : e.name \notin Dots}
    BY <1>1, <1>2 DEF NamedIn, At, DirRecs
  <2>2. \A e \in At(blks, i) :
          e.inode \in Inodes /\ e.inode # 0 /\ e.name \in Names \cup Dots
    <3>1. Sound(At(blks, i), Inodes) /\ 0 \notin Inodes
      BY <1>2, Constants DEF Midway, AllSound, DirectoryBlock
    <3>. QED
      BY <3>1 DEF Sound, EntriesOver, AllNames
  <2>3. Names \cap Dots = {}
    BY Constants DEF Dots
  <2>4. \A e : e \in NamedIn(ino, blks, i) <=> e \in At(blks, i) /\ e.name \in Names
    BY <2>1, <2>2, <2>3 DEF Live, IsUnused
  <2>. QED
    BY <1>2, <2>2, <2>4 DEF EdgesFor, Refers
<1>3. CASE i \notin DirRecs
  <2>1. NamedIn(ino, blks, i) = {}
    <3>1. inodes[i].len > 0 => blks[inodes[i].start] = {}
      <4>. SUFFICES ASSUME inodes[i].len > 0 PROVE blks[inodes[i].start] = {}
        OBVIOUS
      <4>1. inodes[i].start \in blockBitmap \ DirStarts
        BY <1>0, <1>3, PlainStarts
      <4>. QED
        BY <1>0, <1>3, <4>1 DEF Midway, PlainFiles
    <3>. QED
      BY <1>1, <3>1 DEF NamedIn, Live
  <2>. QED
    BY <1>3, <2>1 DEF EdgesFor
<1>. QED
  BY <1>2, <1>3

(* What the writes of a rename that succeeds do to the names.              *)
Added(u, s, d2, newName) == AddedAt(u, d2, newName, s, FtOf(inodes[s].kind))

LEMMA MoveWritesNames ==
  ASSUME NoDotsInPaths, TreeIInv, NEW d1, NEW s, NEW oldName, NEW d2, NEW t, NEW newName,
         Renames(d1, s, oldName, d2, t, newName), ~ (d1 = d2 /\ oldName = newName),
         NEW u, u = AfterUnlink(d2, t, newName), Fits(At(u, d2), newName),
         NEW a, a = Added(u, s, d2, newName), NEW r, r = RemovedAt(a, d1, s, oldName)
  PROVE  /\ Midway(u) /\ Midway(a) /\ Midway(r)
         /\ \A k \in DirRecs, n \in Names, j \in Inodes :
              /\ Refers(At(u, k), n, j) <=> Refers(Block(k), n, j) /\ ~ (k = d2 /\ n = newName)
              /\ Refers(At(a, k), n, j)
                   <=> Refers(At(u, k), n, j) \/ (k = d2 /\ n = newName /\ j = s)
              /\ Refers(At(r, k), n, j)
                   <=> Refers(At(a, k), n, j) /\ ~ (k = d1 /\ n = oldName)
<1>0. IInv
  BY DEF TreeIInv
<1>1. /\ d1 \in DirRecs /\ d2 \in DirRecs /\ oldName \in Names /\ newName \in Names
      /\ s \in Inodes /\ Refers(Block(d1), oldName, s)
  BY DEF Renames
<1>2. PICK ft \in FileTypes : ft = FtOf(inodes[s].kind)
  BY DEF FtOf, FileTypes
<1>3. /\ AllSound(u) /\ \A e \in At(u, d2) : e.name # newName
      /\ \A k \in DirRecs, n \in Names, j \in Inodes :
           Refers(At(u, k), n, j) <=> Refers(Block(k), n, j) /\ ~ (k = d2 /\ n = newName)
  BY <1>0, AfterUnlinkDirs
<1>4. a = AddedAt(u, d2, newName, s, ft)
  BY <1>2 DEF Added
<1>5. /\ AllSound(a)
      /\ \A k \in DirRecs, n \in Names, j \in Inodes :
           Refers(At(a, k), n, j) <=> Refers(At(u, k), n, j) \/ (k = d2 /\ n = newName /\ j = s)
  BY <1>0, <1>1, <1>3, <1>4, EditAdd
<1>6. Refers(At(a, d1), oldName, s)
  BY <1>1, <1>3, <1>5
<1>7. /\ AllSound(r)
      /\ \A k \in DirRecs, n \in Names, j \in Inodes :
           Refers(At(r, k), n, j) <=> Refers(At(a, k), n, j) /\ ~ (k = d1 /\ n = oldName)
  BY <1>0, <1>1, <1>5, <1>6, EditRemove
<1>8. blockBitmap \subseteq Blocks /\ AllSound(dirBlocks)
  BY <1>0, InvIsSound DEF IInv, TypeOK
<1>9. \A b \in blockBitmap \ DirStarts : u[b] = dirBlocks[b]
  <2>1. CASE t = NoInode
    BY <2>1 DEF AfterUnlink
  <2>2. CASE t # NoInode
    <3>1. u = RemovedAt(dirBlocks, d2, t, newName)
      BY <2>2 DEF AfterUnlink, WithoutEntry, RemovedAt
    <3>. QED
      BY <1>1, <1>8, <3>1, EditedStarts
  <2>. QED
    BY <2>1, <2>2
<1>10. \A b \in blockBitmap \ DirStarts : a[b] = u[b] /\ r[b] = a[b]
  BY <1>1, <1>3, <1>4, <1>5, <1>8, EditedStarts
<1>. QED
  BY <1>3, <1>5, <1>7, <1>9, <1>10 DEF Midway

-----------------------------------------------------------------------------
(* With the new entry added, a path goes by the old names or the new ones. *)
LEMMA PathsBetween ==
  ASSUME NEW E, NEW E2, NEW d1, NEW n1, NEW s, NEW pd1, NEW d2, NEW n2, NEW pd2, NEW N,
         Shifts(E, E2, d1, n1, s, Append(pd1, n1), d2, n2, pd2, N), Leads(E, pd1, d1),
         NEW EB, EdgeSet(EB),
         \A a, m, j : <<a, m, j>> \in EB <=> <<a, m, j>> \in E \/ (a = d2 /\ m = n2 /\ j = s)
  PROVE  /\ \A p, i : Leads(EB, p, i) => Leads(E, p, i) \/ Leads(E2, p, i)
         /\ \A p, i : Leads(E, p, i) => Leads(EB, p, i)
<1>1. /\ Treelike(E) /\ EdgeSet(E) /\ EdgeSet(E2)
      /\ pd2 \in Seq(Names) /\ n2 \in Names
  BY ShiftTyped
<1>2. /\ <<d1, n1, s>> \in E /\ Leads(E, pd2, d2)
      /\ \A a, m, j : <<a, m, j>> \in E2 <=> \/ <<a, m, j>> \in E /\ j # s
                                             \/ a = d2 /\ m = n2 /\ j = s
  BY DEF Shifts
<1>3. pd1 \in Seq(Names) /\ n1 \in Names
  BY <1>1, <1>2, LeadsTyped DEF EdgeSet
<1>4. \A p : Leads(E2, p, d1) => Leads(E, p, d1)
  <2>. SUFFICES ASSUME NEW p, Leads(E2, p, d1), ~ Leads(E, p, d1) PROVE FALSE
    OBVIOUS
  <2>1. Came(E, Append(pd1, n1), Append(pd2, n2), p, d1)
    BY PathsMove DEF Left
  <2>2. PICK z \in Seq(Names) : Leads(E, Append(pd1, n1) \o z, d1)
    BY <2>1 DEF Came
  <2>3. pd1 = Append(pd1, n1) \o z
    BY <1>1, <2>2, OneInodeOnePath
  <2>4. Len(Append(pd1, n1) \o z) = Len(pd1) + 1 + Len(z) /\ Len(z) \in Nat /\ Len(pd1) \in Nat
    BY <1>3
  <2>. QED
    BY <2>3, <2>4
<1>5. \A p, i : Leads(EB, p, i) => Leads(E, p, i) \/ Leads(E2, p, i)
  <2>1. PICK S : S = {x \in Universe : Leads(E, x[1], x[2]) \/ Leads(E2, x[1], x[2])}
    OBVIOUS
  <2>2. AtRoot \in S
    BY <1>1, <2>1, RootPair, LeadsRoot DEF AtRoot
  <2>3. HandedDown(S, EB)
    <3>. SUFFICES ASSUME NEW p, NEW d, NEW n, NEW i, Leads(EB, p, d), <<p, d>> \in S,
                         <<d, n, i>> \in EB, Leads(EB, Append(p, n), i)
                  PROVE  <<Append(p, n), i>> \in S
      BY DEF HandedDown
    <3>1. Leads(E, p, d) \/ Leads(E2, p, d)
      BY <2>1
    <3>2. <<Append(p, n), i>> \in Universe
      BY DEF Leads
    <3>3. Leads(E, Append(p, n), i) \/ Leads(E2, Append(p, n), i)
      <4>1. CASE <<d, n, i>> \in E /\ Leads(E, p, d)
        BY <1>1, <4>1, LeadsOn
      <4>2. CASE <<d, n, i>> \in E /\ Leads(E2, p, d) /\ i # s
        BY <1>1, <1>2, <4>2, LeadsOn
      <4>3. CASE <<d, n, i>> \in E /\ Leads(E2, p, d) /\ i = s
        <5>1. d = d1
          BY <1>1, <1>2, <4>3 DEF Treelike
        <5>2. Leads(E, p, d)
          BY <1>4, <4>3, <5>1
        <5>. QED
          BY <1>1, <4>3, <5>2, LeadsOn
      <4>4. CASE d = d2 /\ n = n2 /\ i = s /\ Leads(E2, p, d)
        BY <1>1, <1>2, <4>4, LeadsOn
      <4>5. CASE d = d2 /\ n = n2 /\ i = s /\ Leads(E, p, d)
        <5>1. p = pd2
          BY <1>1, <1>2, <4>5, OneInodeOnePath
        <5>2. Leads(E2, Append(pd2, n2), s)
          BY ArrivedMoved
        <5>. QED
          BY <4>5, <5>1, <5>2
      <4>. QED
        BY <3>1, <4>1, <4>2, <4>3, <4>4, <4>5
    <3>. QED
      BY <2>1, <3>2, <3>3
  <2>4. \A p, i : Leads(EB, p, i) => <<p, i>> \in S
    BY <2>2, <2>3, LeadsInduct
  <2>. QED
    BY <2>1, <2>4
<1>6. \A p, i : Leads(E, p, i) => Leads(EB, p, i)
  <2>1. \A S \in SUBSET Universe : ClosedPairs(S, EB) => ClosedPairs(S, E)
    BY DEF ClosedPairs
  <2>. QED
    BY <2>1 DEF Leads
<1>. QED
  BY <1>5, <1>6

-----------------------------------------------------------------------------
(* What the names lead to, as one state predicate.                         *)
LedAndShown ==
  /\ \A p, i : Leads(EdgesOf, p, i) =>
       Len(p) \in Nat /\ Len(p) < Cardinality(Usable) /\ i \in Reached
  /\ \A i \in Reached : \E p : Leads(EdgesOf, p, i)
  /\ \A x : x \in Shown <=> /\ x = Seeing(x.path, x.inode, inodes[x.inode].kind)
                            /\ Leads(EdgesOf, x.path, x.inode)
  /\ InodesIn(Shown) = Reached /\ IsFiniteSet(Usable)

LEMMA LedShown == NoDotsInPaths /\ TreeIInv => LedAndShown
<1>. SUFFICES ASSUME NoDotsInPaths, TreeIInv PROVE LedAndShown
  OBVIOUS
<1>1. /\ Shown = SeenOver(Goal, EdgesOf) /\ InodesIn(Shown) = Reached
  BY ShownIs
<1>2. Goal.inodes = inodes
  BY DEF Goal
<1>3. \A x : x \in Shown <=> /\ x = Seeing(x.path, x.inode, inodes[x.inode].kind)
                             /\ Leads(EdgesOf, x.path, x.inode)
  BY <1>1, <1>2, IsSeen
<1>4. IsFiniteSet(Usable)
  BY UsableFinite DEF TreeIInv
<1>5. /\ \A p, i : Leads(EdgesOf, p, i) => Len(p) \in Nat /\ Len(p) < Cardinality(Usable)
      /\ \A p, i : Leads(EdgesOf, p, i) => i \in Reached
      /\ \A i \in Reached : \E p : Leads(EdgesOf, p, i)
  BY NamedPathsLed, ReachedLed
<1>. QED
  BY <1>1, <1>3, <1>4, <1>5 DEF LedAndShown

LEMMA LedShownAfter == NoDotsInPaths /\ TreeIInv' => LedAndShown'
<1>1. (NoDotsInPaths /\ TreeIInv => LedAndShown)'
  BY LedShown, PTL
<1>. QED
  BY <1>1 DEF NoDotsInPaths

(* Half way through a rename: all inodes but t, the displaced one, have    *)
(* their rows, and the names are those before or those after.              *)
LEMMA MidMove ==
  ASSUME NoDotsInPaths, TreeIInv, TreeIInv', NEW t, Usable' = Usable \ {t},
         NEW g, g.inodeBitmap = inodeBitmap', g.blockBitmap = blockBitmap',
         \A i \in Inodes \ {t} : SameRow(g.inodes[i], inodes[i]) /\ SameRow(inodes[i], inodes'[i]),
         NEW E, NamesAre(g.inodes, g.dirBlocks, E), NEW E2, E2 = EdgesOf',
         \A p, i : Leads(E, p, i) => (Leads(EdgesOf, p, i) /\ i # t) \/ Leads(E2, p, i),
         \A p, i : Leads(EdgesOf, p, i) /\ Leads(E2, p, i) => Leads(E, p, i),
         \A i \in Reached \cap Reached' : \E p : Leads(E, p, i),
         NEW X
  PROVE  LiesBetween(g, Shown, Shown', X)
<1>1. LedAndShown /\ LedAndShown'
  BY LedShown, LedShownAfter
<1>2. PICK E0, R, R2, U, U2 :
        E0 = EdgesOf /\ R = Reached /\ R2 = Reached' /\ U = Usable /\ U2 = Usable'
  OBVIOUS
<1>3. /\ \A p, i : Leads(E0, p, i) => Len(p) \in Nat /\ Len(p) < Cardinality(U) /\ i \in R
      /\ \A p, i : Leads(E2, p, i) => Len(p) \in Nat /\ Len(p) < Cardinality(U2) /\ i \in R2
      /\ IsFiniteSet(U) /\ IsFiniteSet(U2)
  BY <1>1, <1>2 DEF LedAndShown
<1>4. /\ \A x : x \in Shown <=> /\ x = Seeing(x.path, x.inode, inodes[x.inode].kind)
                                /\ Leads(E0, x.path, x.inode)
      /\ \A x : x \in Shown' <=> /\ x = Seeing(x.path, x.inode, inodes'[x.inode].kind)
                                 /\ Leads(E2, x.path, x.inode)
  BY <1>1, <1>2 DEF LedAndShown
<1>5. InodesIn(Shown) = R /\ InodesIn(Shown') = R2
  BY <1>1, <1>2 DEF LedAndShown, InodesIn
<1>6. /\ R2 \subseteq Inodes \ {t} /\ R \subseteq Inodes
  <2>1. Reached \subseteq Usable /\ Usable \subseteq inodeBitmap /\ inodeBitmap \subseteq Inodes
    BY ReachedMarked DEF AllMarked
  <2>2. Reached' \subseteq Usable'
    BY ReachedMarkedAfter DEF AllMarked
  <2>. QED
    BY <1>2, <2>1, <2>2
<1>7. Shows(g, E)
  <2>1. UsableIn(g) = U2
    BY <1>2 DEF UsableIn, Usable
  <2>2. Cardinality(U2) \in Nat /\ Cardinality(U2) >= Cardinality(U) - 1 /\ Cardinality(U) \in Nat
    <3>1. U \ {t} \subseteq U2
      BY <1>2
    <3>. QED
      BY <1>3, <3>1, NearlyAll, FS_CardinalityType
  <2>3. ASSUME NEW p, NEW i, Leads(E, p, i) PROVE Len(p) <= Cardinality(U2)
    <3>1. Leads(E0, p, i) \/ Leads(E2, p, i)
      BY <1>2, <2>3
    <3>. QED
      BY <1>3, <2>2, <3>1
  <2>. QED
    BY <2>1, <2>2, <2>3 DEF Shows
<1>8. \A i \in Inodes \ {t} : /\ g.inodes[i].kind = inodes[i].kind
                              /\ g.inodes[i].kind = inodes'[i].kind
  BY DEF SameRow
<1>9. PICK now : now = SeenOver(g, E)
  OBVIOUS
<1>10. \A x : x \in now <=> x = Seeing(x.path, x.inode, g.inodes[x.inode].kind)
                            /\ Leads(E, x.path, x.inode)
  BY <1>9, IsSeen
<1>11. ASSUME NEW x \in now PROVE x \in Shown \cup Shown'
  <2>1. (Leads(E0, x.path, x.inode) /\ x.inode # t) \/ Leads(E2, x.path, x.inode)
    BY <1>2, <1>10
  <2>2. x.inode \in Inodes \ {t}
    BY <1>3, <1>6, <2>1
  <2>3. /\ x = Seeing(x.path, x.inode, inodes[x.inode].kind)
        /\ x = Seeing(x.path, x.inode, inodes'[x.inode].kind)
    BY <1>8, <1>10, <2>2
  <2>. QED
    BY <1>4, <2>1, <2>3
<1>12. ASSUME NEW x \in Shown, x \in Shown' PROVE x \in now
  <2>1. Leads(E, x.path, x.inode) /\ x.inode \in Inodes \ {t}
    BY <1>2, <1>3, <1>4, <1>6, <1>12
  <2>2. x = Seeing(x.path, x.inode, g.inodes[x.inode].kind)
    BY <1>4, <1>8, <2>1
  <2>. QED
    BY <1>10, <2>1, <2>2
<1>13. R \cap R2 \subseteq InodesIn(now)
  BY <1>2, <1>9, SeenInodes
<1>14. Partly(now, Shown, Shown')
  BY <1>5, <1>11, <1>12, <1>13 DEF Partly
<1>15. Unharmed(g, (InodesIn(now) \cap InodesIn(Shown')) \ X)
  <2>1. PICK S : S = (InodesIn(now) \cap InodesIn(Shown')) \ X
    OBVIOUS
  <2>2. S \subseteq R2
    BY <1>5, <2>1
  <2>3. \A i \in S : SameRow(g.inodes[i], inodes'[i])
    BY <1>6, <2>2 DEF SameRow
  <2>4. S \subseteq Reached'
    BY <1>2, <2>2
  <2>. QED
    BY <2>1, <2>3, <2>4, UnharmedAfter
<1>. QED
  BY <1>7, <1>9, <1>14, <1>15 DEF LiesBetween

LEMMA MidwayNamesAre ==
  ASSUME NoDotsInPaths, TreeIInv, NEW blks, Midway(blks), NEW E, EdgesFor(E, blks), NEW ino,
         \A p, i : Leads(E, p, i) => i \in Usable /\ SameRow(ino[i], inodes[i])
  PROVE  NamesAre(ino, blks, E)
<1>1. EdgeSet(E)
  BY DEF EdgesFor
<1>2. ASSUME NEW p, NEW i, Leads(E, p, i)
      PROVE  \A n, j : <<i, n, j>> \in E
                         <=> \E e \in NamedIn(ino, blks, i) : e.name = n /\ e.inode = j
  BY <1>2, MidwayNames
<1>. QED
  BY <1>1, <1>2 DEF NamesAre

(* The rows and the bits once the destination is unlinked.                 *)
LEMMA DisplacedGone ==
  ASSUME NoDotsInPaths, TreeIInv, TreeIInv', NEW t, Displaces(t)
  PROVE  /\ Usable' = Usable \ {t} /\ t \notin Reached' /\ t \notin DirRecs
         /\ \A i \in Inodes \ {t} : SameRow(inodes[i], inodes'[i])
         /\ t = NoInode => /\ blockBitmap' = blockBitmap /\ inodeBitmap' = inodeBitmap
                           /\ t \notin Inodes
         /\ t # NoInode => Frees(t)
<1>0. NoDotsInPaths /\ IInv
  BY DEF TreeIInv
<1>1. Usable' = Usable \ {t}
  BY <1>0, DisplacedOwns
<1>2. t \notin Reached'
  BY <1>1, ReachedMarkedAfter DEF AllMarked
<1>3. NoInode \notin Inodes /\ DirRecs \subseteq Inodes
  BY <1>0, UsableInodes, Constants DEF NoInode
<1>4. t \notin DirRecs
  BY <1>3 DEF Displaces, DirRecs, IsDir
<1>5. \A i \in Inodes \ {t} : SameRow(inodes[i], inodes'[i])
  BY DEF Displaces, KeepsInodes, FreesInode, SameRow
<1>6. t # NoInode => Frees(t)
  BY <1>4 DEF Displaces, Frees
<1>7. t = NoInode => blockBitmap' = blockBitmap /\ inodeBitmap' = inodeBitmap
  BY <1>0, UsableInodes DEF Displaces, KeepsInodes, NoInode
<1>. QED
  BY <1>1, <1>2, <1>3, <1>4, <1>5, <1>6, <1>7

(* Until the blocks are written, all is shown as before.                   *)
LEMMA DisplacedBefore ==
  ASSUME NoDotsInPaths, TreeIInv, TreeIInv', NEW t, Displaces(t), NEW g, NEW X,
         g.dirBlocks = dirBlocks,
         g.inodes = inodes \/ g.inodes = Set(inodes, inodes', Displaced(t)),
         g.blockBitmap = blockBitmap \/ g.blockBitmap = blockBitmap',
         g.inodeBitmap = inodeBitmap \/ g.inodeBitmap = inodeBitmap'
  PROVE  LiesBetween(g, Shown, Shown', X)
<1>1. inodeBitmap \subseteq Inodes /\ Reached \subseteq Inodes
  <2>1. Reached \subseteq Usable /\ Usable \subseteq inodeBitmap /\ inodeBitmap \subseteq Inodes
    BY ReachedMarked DEF AllMarked
  <2>. QED
    BY <2>1
<1>2. DOMAIN inodes = Inodes
  BY DEF TreeIInv, IInv, TypeOK
<1>3. \A r : SameRow(r, r)
  BY DEF SameRow
<1>4. CASE t = NoInode
  <2>1. blockBitmap' = blockBitmap /\ inodeBitmap' = inodeBitmap
    BY <1>4, DisplacedGone
  <2>2. \A i \in Inodes : Set(inodes, inodes', Displaced(t))[i] = inodes[i]
    BY <1>2, <1>4 DEF Set, Displaced
  <2>3. \A i \in Reached : SameRow(g.inodes[i], inodes[i])
    BY <1>1, <1>3, <2>2
  <2>4. Keeps(g)
    BY <1>1, <2>1, <2>3 DEF Keeps
  <2>. QED
    BY <2>4, KeepsBefore
<1>5. CASE t # NoInode
  <2>1. Frees(t)
    BY <1>5, DisplacedGone
  <2>2. t \in Inodes /\ inodeBitmap' = inodeBitmap \ {t} /\ blockBitmap' \subseteq blockBitmap
    BY <2>1, FreedIsGone
  <2>3. \A i \in Inodes : Set(inodes, inodes', Displaced(t))[i] = IF i = t THEN inodes'[i]
                                                                          ELSE inodes[i]
    BY <1>2, <1>5 DEF Set, Displaced
  <2>4. /\ \A i \in Inodes \ {t} : SameRow(g.inodes[i], inodes[i])
        /\ SameRow(g.inodes[t], inodes[t]) \/ SameRow(g.inodes[t], inodes'[t])
    BY <1>3, <2>2, <2>3
  <2>5. /\ inodeBitmap' \subseteq g.inodeBitmap /\ g.inodeBitmap \subseteq Inodes
        /\ blockBitmap' \subseteq g.blockBitmap
    BY <1>1, <2>2
  <2>. QED
    BY <2>1, <2>4, <2>5, GoneBefore
<1>. QED
  BY <1>4, <1>5

(* The edges of the images between the two entries.                        *)
LEMMA MovingBetween ==
  ASSUME NoDotsInPaths, TreeIInv, TreeIInv', NEW d1, NEW s, NEW oldName, NEW d2, NEW t,
         NEW newName, Moving(s, d1, oldName, d2, t, newName),
         NEW u, u = AfterUnlink(d2, t, newName),
         NEW a, a = AddedBlocks(u, s, d2, newName),
         NEW r, r = RemovedBlocks(u, a, s, d1, oldName),
         NEW ino, \A i \in Inodes \ {t} : SameRow(ino[i], inodes[i]),
         NEW blks, blks = u \/ blks = a \/ blks = r, NEW cnt, NEW X
  PROVE  LiesBetween(Device(blockBitmap', inodeBitmap', ino, blks, cnt), Shown, Shown', X)
<1>0. /\ IInv /\ Renames(d1, s, oldName, d2, t, newName)
      /\ ~ (d1 = d2 /\ oldName = newName) /\ Moved(s, d1, oldName, d2, t, newName)
  BY DEF Moving, TreeIInv
<1>1. Displaces(t)
  BY <1>0, MovedRows
<1>2. /\ Usable' = Usable \ {t} /\ t \notin Reached' /\ t \notin DirRecs
      /\ \A i \in Inodes \ {t} : SameRow(inodes[i], inodes'[i])
  BY <1>1, DisplacedGone
<1>3. /\ d1 \in DirRecs /\ d2 \in DirRecs /\ oldName \in Names /\ newName \in Names
      /\ s \in Inodes /\ NoInode \notin Inodes
  BY <1>0, Constants DEF Renames, NoInode
<1>4. outcome' = "ok" /\ Fits(At(u, d2), newName)
  BY <1>0 DEF Moved, At
<1>5. a = Added(u, s, d2, newName) /\ r = RemovedAt(a, d1, s, oldName)
  BY <1>4 DEF AddedBlocks, RemovedBlocks, Added, AddedAt, RemovedAt
<1>6. /\ Midway(u) /\ Midway(a) /\ Midway(r)
      /\ \A k \in DirRecs, n \in Names, j \in Inodes :
           /\ Refers(At(u, k), n, j) <=> Refers(Block(k), n, j) /\ ~ (k = d2 /\ n = newName)
           /\ Refers(At(a, k), n, j)
                <=> Refers(At(u, k), n, j) \/ (k = d2 /\ n = newName /\ j = s)
           /\ Refers(At(r, k), n, j)
                <=> Refers(At(a, k), n, j) /\ ~ (k = d1 /\ n = oldName)
  BY <1>0, <1>4, <1>5, MoveWritesNames
<1>7. PICK tt, v, E, E2, K, K2 :
        Sides(tt, v, E, E2, K, K2) /\ E = EdgesOf /\ E2 = EdgesOf'
  BY StepSides
<1>8. PICK E1 : E1 = {e \in E : e[3] # t}
  OBVIOUS
<1>9. PICK N, pd1, pd2 :
        /\ Leads(E, pd1, d1) /\ Leads(E, pd2, d2)
        /\ Shifts(E1, E2, d1, oldName, s, Append(pd1, oldName), d2, newName, pd2, N)
        /\ Carries(tt, v, E, E1, E2, K, K2, d1, oldName, s, d2, newName, t, N)
  BY <1>7, <1>8, MovedCarries
<1>10. /\ \A p, j : Leads(E1, p, j) <=> Leads(E, p, j) /\ j # t
       /\ \A j : <<d2, newName, j>> \in E <=> j = t /\ t # NoInode
  BY <1>9 DEF Carries
<1>11. /\ Treelike(E1) /\ EdgeSet(E1) /\ EdgeSet(E2) /\ <<d1, oldName, s>> \in E1
       /\ \A k, n, j : <<k, n, j>> \in E2 <=> \/ <<k, n, j>> \in E1 /\ j # s
                                              \/ k = d2 /\ n = newName /\ j = s
  BY <1>9 DEF Shifts, Treelike
<1>12. /\ Treelike(E) /\ EdgeSet(E)
       /\ \A k, n, j : <<k, n, j>> \in E
            <=> k \in DirRecs /\ n \in Names /\ j \in Inodes /\ Refers(Block(k), n, j)
  BY <1>7 DEF Sides, Treelike
<1>13. EdgesFor(E1, u)
  <2>1. \A k, n, j : <<k, n, j>> \in E => (k = d2 /\ n = newName <=> j = t)
    <3>. SUFFICES ASSUME NEW k, NEW n, NEW j, <<k, n, j>> \in E
                  PROVE  k = d2 /\ n = newName <=> j = t
      OBVIOUS
    <3>1. k = d2 /\ n = newName => j = t
      BY <1>10
    <3>2. j = t => k = d2 /\ n = newName
      <4>. SUFFICES ASSUME j = t PROVE k = d2 /\ n = newName
        OBVIOUS
      <4>1. <<d2, newName, t>> \in E
        BY <1>3, <1>10, <1>12
      <4>. QED
        BY <1>12, <4>1 DEF Treelike
    <3>. QED
      BY <3>1, <3>2
  <2>2. \A k, n, j : <<k, n, j>> \in E1 <=> <<k, n, j>> \in E /\ j # t
    BY <1>8
  <2>. QED
    BY <1>6, <1>11, <1>12, <2>1, <2>2 DEF EdgesFor
<1>14. PICK EB : EB = E1 \cup {<<d2, newName, s>>}
  OBVIOUS
<1>15. /\ EdgeSet(EB)
       /\ \A k, n, j : <<k, n, j>> \in EB <=> <<k, n, j>> \in E1
                                              \/ (k = d2 /\ n = newName /\ j = s)
  <2>1. d2 \in Inodes
    BY <1>0, <1>3, UsableInodes
  <2>. QED
    BY <1>3, <1>11, <1>14, <2>1 DEF EdgeSet
<1>16. EdgesFor(EB, a)
  BY <1>3, <1>6, <1>13, <1>15 DEF EdgesFor
<1>17. EdgesFor(E2, r)
  <2>1. \A k, n, j : <<k, n, j>> \in E1 => (k = d1 /\ n = oldName <=> j = s)
    BY <1>11 DEF Treelike
  <2>2. \A k, n, j : <<k, n, j>> \in E2 <=> <<k, n, j>> \in EB /\ ~ (k = d1 /\ n = oldName)
    <3>. SUFFICES ASSUME NEW k, NEW n, NEW j
                  PROVE  <<k, n, j>> \in E2 <=> <<k, n, j>> \in EB /\ ~ (k = d1 /\ n = oldName)
      OBVIOUS
    <3>1. <<k, n, j>> \in E2 <=> (<<k, n, j>> \in E1 /\ j # s) \/ (k = d2 /\ n = newName /\ j = s)
      BY <1>11
    <3>2. <<k, n, j>> \in EB <=> <<k, n, j>> \in E1 \/ (k = d2 /\ n = newName /\ j = s)
      BY <1>15
    <3>3. <<k, n, j>> \in E1 => (k = d1 /\ n = oldName <=> j = s)
      BY <2>1
    <3>4. ~ (d1 = d2 /\ oldName = newName)
      BY <1>0
    <3>. QED
      BY <3>1, <3>2, <3>3, <3>4
  <2>. SUFFICES ASSUME NEW k, NEW n, NEW j
                PROVE  <<k, n, j>> \in E2
                  <=> k \in DirRecs /\ n \in Names /\ j \in Inodes /\ Refers(At(r, k), n, j)
    BY <1>11 DEF EdgesFor
  <2>3. <<k, n, j>> \in EB
          <=> k \in DirRecs /\ n \in Names /\ j \in Inodes /\ Refers(At(a, k), n, j)
    BY <1>16 DEF EdgesFor
  <2>4. k \in DirRecs /\ n \in Names /\ j \in Inodes =>
          (Refers(At(r, k), n, j) <=> Refers(At(a, k), n, j) /\ ~ (k = d1 /\ n = oldName))
    BY <1>6
  <2>. QED
    BY <2>2, <2>3, <2>4
<1>18. /\ \A p, i : Leads(EB, p, i) => Leads(E1, p, i) \/ Leads(E2, p, i)
       /\ \A p, i : Leads(E1, p, i) => Leads(EB, p, i)
  <2>1. Leads(E1, pd1, d1)
    BY <1>2, <1>3, <1>9, <1>10
  <2>. QED
    BY <1>9, <1>15, <2>1, PathsBetween
<1>19. PICK g : g = Device(blockBitmap', inodeBitmap', ino, blks, cnt)
  OBVIOUS
<1>20. /\ g.inodeBitmap = inodeBitmap' /\ g.blockBitmap = blockBitmap'
       /\ g.inodes = ino /\ g.dirBlocks = blks
  BY <1>19 DEF Device
<1>21. /\ \A p, i : Leads(E, p, i) => i \in Reached /\ i \in Usable
       /\ \A p, i : Leads(E2, p, i) => i \in Reached' /\ i \in Usable /\ i # t
       /\ \A i \in Reached : \E p : Leads(E, p, i)
       /\ \A i \in Reached' : \E p : Leads(E2, p, i)
  <2>1. Reached' \subseteq Usable'
    BY ReachedMarkedAfter DEF AllMarked
  <2>2. LedAndShown'
    BY LedShownAfter
  <2>3. /\ \A p, i : Leads(E2, p, i) => i \in Reached'
        /\ \A i \in Reached' : \E p : Leads(E2, p, i)
    BY <1>7, <2>2 DEF LedAndShown
  <2>4. /\ \A p, i : Leads(E, p, i) => i \in Reached /\ i \in Usable
        /\ \A i \in Reached : \E p : Leads(E, p, i)
    BY <1>7 DEF Sides
  <2>. QED
    BY <1>2, <2>1, <2>3, <2>4
<1>22. PICK F : /\ F = E1 \/ F = EB \/ F = E2
                /\ EdgesFor(F, blks) /\ Midway(blks)
  BY <1>6, <1>13, <1>16, <1>17
<1>23. /\ \A p, i : Leads(F, p, i) => (Leads(E, p, i) /\ i # t) \/ Leads(E2, p, i)
       /\ \A p, i : Leads(E, p, i) /\ Leads(E2, p, i) => Leads(F, p, i)
       /\ \A i \in Reached \cap Reached' : \E p : Leads(F, p, i)
  BY <1>2, <1>10, <1>18, <1>21, <1>22
<1>24. NamesAre(ino, blks, F)
  <2>1. \A i \in Usable : i \in Inodes
    BY <1>0, UsableInodes
  <2>2. \A p, i : Leads(F, p, i) => i \in Usable /\ SameRow(ino[i], inodes[i])
    BY <1>21, <1>23, <2>1
  <2>. QED
    BY <1>22, <2>2, MidwayNamesAre
<1>25. LiesBetween(g, Shown, Shown', X)
  BY <1>2, <1>7, <1>20, <1>23, <1>24, MidMove
<1>. QED
  BY <1>19, <1>25

LEMMA MoveShows ==
  ASSUME NoDotsInPaths, TreeIInv, TreeIInv', NEW d1, NEW s, NEW oldName, NEW d2, NEW t,
         NEW newName,
         \/ Renames(d1, s, oldName, d2, t, newName) /\ MoveFull(s, d2, t, newName)
         \/ Moving(s, d1, oldName, d2, t, newName),
         NEW u, u = AfterUnlink(d2, t, newName),
         NEW a, a = AddedBlocks(u, s, d2, newName),
         NEW r, r = RemovedBlocks(u, a, s, d1, oldName),
         MoveEdited(s, d1, d2, t, u, a, r), NEW X
  PROVE  \A g \in MoveImages(d1, t, u, a, r) : LiesBetween(g, Shown, Shown', X)
<1>0. IInv
  BY DEF TreeIInv
<1>1. Displaces(t)
  BY <1>0, MoveFullRows, MovedRows DEF Moving
<1>2. /\ t \notin Reached'
      /\ \A i \in Inodes \ {t} : SameRow(inodes[i], inodes'[i])
  BY <1>1, DisplacedGone
<1>3. DOMAIN inodes = Inodes /\ Reached' \subseteq Inodes
  <2>1. Reached' \subseteq Usable' /\ Usable' \subseteq inodeBitmap' /\ inodeBitmap' \subseteq Inodes
    BY ReachedMarkedAfter DEF AllMarked
  <2>. QED
    BY <1>0, <2>1 DEF IInv, TypeOK
<1>4. \A w : SameRow(w, w)
  BY DEF SameRow
<1>5. ASSUME NEW S, NEW i \in Reached' PROVE SameRow(Set(inodes, inodes', S)[i], inodes'[i])
  <2>1. i \in Inodes \ {t}
    BY <1>2, <1>3
  <2>2. Set(inodes, inodes', S)[i] = inodes[i] \/ Set(inodes, inodes', S)[i] = inodes'[i]
    BY <1>3, <2>1 DEF Set
  <2>. QED
    BY <1>2, <1>4, <2>1, <2>2
<1>. DEFINE ino == Set(inodes, inodes', Displaced(t))
            ino1 == Set(inodes, inodes', Displaced(t) \cup {d1})
<1>6. \A i \in Inodes \ {t} : SameRow(ino[i], inodes[i])
  BY <1>3, <1>4 DEF Set, Displaced
<1>7. \A rows, cnt : rows \in {ino, ino1, inodes'} =>
        LiesBetween(Device(blockBitmap', inodeBitmap', rows, dirBlocks', cnt), Shown, Shown', X)
  <2>. SUFFICES ASSUME NEW rows, NEW cnt, rows \in {ino, ino1, inodes'}
                PROVE  LiesBetween(Device(blockBitmap', inodeBitmap', rows, dirBlocks', cnt),
                                   Shown, Shown', X)
    OBVIOUS
  <2>1. \A i \in Reached' : SameRow(rows[i], inodes'[i])
    BY <1>4, <1>5
  <2>. QED
    BY <2>1, RowsAfter
<1>8. ASSUME NEW blks, blks = u \/ blks = a \/ blks = r, NEW cnt
      PROVE  LiesBetween(Device(blockBitmap', inodeBitmap', ino, blks, cnt), Shown, Shown', X)
  <2>. HIDE DEF ino, ino1
  <2>1. CASE Moving(s, d1, oldName, d2, t, newName)
    BY <1>6, <1>8, <2>1, MovingBetween
  <2>2. CASE MoveFull(s, d2, t, newName)
    <3>1. u = dirBlocks' /\ a = u /\ r = u
      BY <2>2 DEF MoveFull, AddedBlocks, RemovedBlocks
    <3>. QED
      BY <1>7, <1>8, <3>1
  <2>. QED
    BY <2>1, <2>2
<1>9. ASSUME NEW g, g.dirBlocks = dirBlocks, g.inodes = inodes \/ g.inodes = ino,
             g.blockBitmap = blockBitmap \/ g.blockBitmap = blockBitmap',
             g.inodeBitmap = inodeBitmap \/ g.inodeBitmap = inodeBitmap'
      PROVE  LiesBetween(g, Shown, Shown', X)
  BY <1>1, <1>9, DisplacedBefore
<1>. HIDE DEF ino, ino1
<1>10. ASSUME NEW g \in MoveImages(d1, t, u, a, r)
       PROVE  \/ /\ g.dirBlocks = dirBlocks /\ (g.inodes = inodes \/ g.inodes = ino)
                 /\ g.blockBitmap = blockBitmap \/ g.blockBitmap = blockBitmap'
                 /\ g.inodeBitmap = inodeBitmap \/ g.inodeBitmap = inodeBitmap'
              \/ \E rows, cnt : /\ rows \in {ino, ino1, inodes'}
                                /\ g = Device(blockBitmap', inodeBitmap', rows, dirBlocks', cnt)
              \/ \E blks, cnt : /\ blks = u \/ blks = a \/ blks = r
                                /\ g = Device(blockBitmap', inodeBitmap', ino, blks, cnt)
  <2>1. \/ g = Device(blockBitmap, inodeBitmap, inodes, dirBlocks, diskCounts)
        \/ g = Device(blockBitmap', inodeBitmap, inodes, dirBlocks, diskCounts)
        \/ g = Device(blockBitmap', inodeBitmap', inodes, dirBlocks, diskCounts)
        \/ g = Device(blockBitmap', inodeBitmap', ino, dirBlocks, diskCounts)
        \/ \E blks, cnt : /\ blks = u \/ blks = a \/ blks = r
                          /\ g = Device(blockBitmap', inodeBitmap', ino, blks, cnt)
        \/ \E rows, cnt : /\ rows \in {ino, ino1, inodes'}
                          /\ g = Device(blockBitmap', inodeBitmap', rows, dirBlocks', cnt)
    BY DEF MoveImages, ino, ino1
  <2>2. ASSUME NEW bb, NEW ib, NEW rows, NEW cnt,
               g = Device(bb, ib, rows, dirBlocks, cnt)
        PROVE  /\ g.dirBlocks = dirBlocks /\ g.inodes = rows
               /\ g.blockBitmap = bb /\ g.inodeBitmap = ib
    BY <2>2 DEF Device
  <2>. QED
    BY <2>1, <2>2
<1>. QED
  BY <1>7, <1>8, <1>9, <1>10

-----------------------------------------------------------------------------
(* truncate, as its course sees it: the path still leads to the file.      *)
AllPathsRun ==
  \A path \in FullPaths :
    /\ Len(path) \in Nat /\ path \in [1 .. Len(path) -> PathNames]
    /\ \E at : Opens(path, at) /\ OpenPath(path) = at[Len(path)]

LEMMA PathsRun == NoDotsInPaths /\ TreeIInv => AllPathsRun
<1>. SUFFICES ASSUME NoDotsInPaths, TreeIInv PROVE AllPathsRun
  OBVIOUS
<1>1. PICK G : G = {NoInode} \cup {i \in Usable : Resolved(i)}
  OBVIOUS
<1>2. Root \in G /\ \A i \in G : \A name \in PathNames : Walk(i, name) \in G
  BY <1>1, WalksResolve DEF TreeIInv
<1>. QED
  BY <1>2, OpenPathRuns DEF AllPathsRun

LEMMA SameWalks ==
  ASSUME dirBlocks' = dirBlocks, NEW i, ~ IsDir(i),
         \A j \in Inodes : inodes'[j].kind = inodes[j].kind,
         \A j \in Inodes \ {i} : inodes'[j] = inodes[j]
  PROVE  \A j, n : Walk(j, n)' = Walk(j, n)
<1>. SUFFICES ASSUME NEW j, NEW n PROVE Walk(j, n)' = Walk(j, n)
  OBVIOUS
<1>1. IsDir(j)' <=> IsDir(j)
  BY DEF IsDir
<1>2. IsDir(j) => inodes'[j] = inodes[j]
  BY DEF IsDir
<1>3. IsDir(j) => Lookup(j, n)' = Lookup(j, n)
  BY <1>2 DEF Lookup, DirEntries
<1>. QED
  BY <1>1, <1>3 DEF Walk

LEMMA SamePath ==
  ASSUME NoDotsInPaths, TreeIInv, TreeIInv', \A j, n : Walk(j, n)' = Walk(j, n),
         NEW path \in FullPaths
  PROVE  OpenPath(path)' = OpenPath(path)
<1>1. AllPathsRun'
  <2>1. (NoDotsInPaths /\ TreeIInv => AllPathsRun)'
    BY PathsRun, PTL
  <2>. QED
    BY <2>1 DEF NoDotsInPaths
<1>2. /\ Len(path) \in Nat
      /\ \E at : Opens(path, at) /\ OpenPath(path) = at[Len(path)]
  BY PathsRun DEF AllPathsRun
<1>3. \E at : Opens(path, at)' /\ OpenPath(path)' = at[Len(path)]
  BY <1>1 DEF AllPathsRun
<1>4. PICK at : Opens(path, at) /\ OpenPath(path) = at[Len(path)]
  BY <1>2
<1>5. PICK at2 : Opens(path, at2)' /\ OpenPath(path)' = at2[Len(path)]
  BY <1>3
<1>6. PICK len : len = Len(path)
  OBVIOUS
<1>7. \A k \in 0 .. len : at[k] = IF k = 0 THEN Root ELSE Walk(at[k - 1], path[k])
  BY <1>4, <1>6 DEF Opens
<1>8. \A k \in 0 .. len : at2[k] = IF k = 0 THEN Root ELSE Walk(at2[k - 1], path[k])
  BY <1>5, <1>6 DEF Opens
<1>. DEFINE T == {m \in Nat : m <= len => at2[m] = at[m]}
<1>9. 0 \in T
  BY <1>2, <1>6, <1>7, <1>8
<1>10. ASSUME NEW m \in Nat, m \in T PROVE m + 1 \in T
  <2>. SUFFICES ASSUME m + 1 <= len PROVE at2[m + 1] = at[m + 1]
    OBVIOUS
  <2>1. at2[m] = at[m] /\ m + 1 \in 0 .. len /\ m + 1 # 0 /\ (m + 1) - 1 = m
    BY <1>2, <1>6, <1>10
  <2>. QED
    BY <1>7, <1>8, <2>1
<1>11. len \in T
  <2>. HIDE DEF T
  <2>. QED
    BY <1>2, <1>6, <1>9, <1>10, NatSetInduction
<1>. QED
  BY <1>2, <1>4, <1>5, <1>6, <1>11

LEMMA TruncateResizes ==
  ASSUME NoDotsInPaths, TreeIInv, TreeIInv', NEW path \in FullPaths, NEW size,
         Truncate(path, size), NEW i, i = OpenPath(path)
  PROVE  \/ Goal' = Goal
         \/ blockBitmap' \subseteq blockBitmap /\ OpenPath(path)' = i
<1>1. CASE Refuse \/ (outcome' = "same" /\ UNCHANGED <<disk, diskCounts, counts>>)
  BY <1>1, StillGoal DEF Refuse
<1>2. CASE ~ (Refuse \/ (outcome' = "same" /\ UNCHANGED <<disk, diskCounts, counts>>))
  <2>1. i \in Inodes /\ inodes[i].kind = "reg" /\ (Grow(i, size) \/ Shrink(i, size))
    BY <1>2 DEF Truncate
  <2>2. inodes \in [Inodes -> InodeType] /\ inodes[i] \in InodeType
    BY <2>1 DEF TreeIInv, IInv, TypeOK
  <2>3. /\ \A j \in Inodes \ {i} : inodes'[j] = inodes[j]
        /\ inodes'[i].kind = "reg" /\ dirBlocks' = dirBlocks
        /\ blockBitmap' \subseteq blockBitmap
    BY <1>2, <2>1, <2>2 DEF Grow, Shrink, InodeType
  <2>4. \A j, n : Walk(j, n)' = Walk(j, n)
    BY <2>1, <2>3, SameWalks DEF IsDir
  <2>. QED
    BY <2>3, <2>4, SamePath
<1>. QED
  BY <1>1, <1>2

-----------------------------------------------------------------------------
(* Up to the first crash, every image a call still passes through lies     *)
(* between what was shown when it began and what it will have shown.       *)
CourseShows ==
  \E G : /\ Passes(image, todo, G, Goal)
         /\ \A g \in G : LiesBetween(g, began, Shown, Resized)

LEMMA DiskShows ==
  ASSUME UNCHANGED disk PROVE Shown' = Shown /\ \A q : OpenPath(q)' = OpenPath(q)
<1>1. UNCHANGED <<inodes, dirBlocks, inodeBitmap>>
  BY DEF disk
<1>2. NamedPaths' = NamedPaths
  BY <1>1 DEF NamedPaths, Named, DirEntries, Usable
<1>3. Shown' = Shown
  BY <1>1, <1>2 DEF Shown
<1>4. \A q : OpenPath(q)' = OpenPath(q)
  BY <1>1 DEF OpenPath, Walk, IsDir, Lookup, DirEntries
<1>. QED
  BY <1>3, <1>4

LEMMA CallShows ==
  ASSUME CourseHolds, Idle, NEW c, Calls(c), NEW course, Issue(course), NEW G, NEW Y,
         \/ Goal' = Goal
         \/ /\ Passes(Goal, course, G, Goal')
            /\ \A g \in G : LiesBetween(g, Shown, Shown', Y)
            /\ call' = c => Resized' = Y
  PROVE  (Idle \/ CourseShows)'
<1>1. image = Goal /\ image' = image
  BY IdleHolds DEF Calls
<1>2. CASE Goal' = Goal \/ todo' = <<>>
  BY <1>2 DEF Issue, Idle
<1>3. CASE ~ (Goal' = Goal \/ todo' = <<>>)
  <2>1. todo' = Pending(image, course)
    BY <1>3 DEF Issue
  <2>2. Passes(image, Pending(image, course), G, Goal')
    BY <1>1, <1>3, PassesPending
  <2>3. call' = c /\ began' = Shown
    BY <1>3 DEF Calls
  <2>4. Passes(image', todo', G, Goal') /\ \A g \in G : LiesBetween(g, began', Shown', Resized')
    BY <1>1, <1>3, <2>1, <2>2, <2>3
  <2>. QED
    BY <2>4 DEF CourseShows
<1>. QED
  BY <1>2, <1>3

LEMMA InsertStepShows ==
  ASSUME NoDotsInPaths, TreeIInv, TreeIInv', CourseHolds, Idle,
         NEW path, NEW name, InsertStep(path, name)
  PROVE  (Idle \/ CourseShows)'
<1>1. PICK d : d = OpenPath(path)
  OBVIOUS
<1>2. PICK c : c = [op |-> "insert"]
  OBVIOUS
<1>3. Issue(InsertCourse(d)) /\ Calls(c) /\ Whole(inodes, dirBlocks)
  BY <1>1, <1>2, IdleHolds DEF InsertStep
<1>4. \E kind, links, size, n : Insert(d, name, kind, links, size, n) \/ Refuse
  BY <1>1 DEF InsertStep, Mkdir, CreateFile, Symlink
<1>5. Goal' = Goal \/ (InsertEdited(d) /\ InsertKept)
  BY <1>3, <1>4, InsertEdits, InsertKeeps, StillGoal DEF Refuse
<1>6. PICK Y : Y = {}
  OBVIOUS
<1>7. call' = c => Resized' = Y
  BY <1>2, <1>6 DEF Resized
<1>8. PICK G : G = InsertImages(d, NewInodes, NewBlocks)
  OBVIOUS
<1>9. \/ Goal' = Goal
      \/ /\ Passes(Goal, InsertCourse(d), G, Goal')
         /\ \A g \in G : LiesBetween(g, Shown, Shown', Y)
  BY <1>5, <1>8, InsertDevices, InsertShows
<1>. QED
  BY <1>3, <1>7, <1>9, CallShows

LEMMA RemoveStepShows ==
  ASSUME NoDotsInPaths, TreeIInv, TreeIInv', CourseHolds, Idle,
         NEW path \in Paths, NEW name \in PathNames, RemoveStep(path, name)
  PROVE  (Idle \/ CourseShows)'
<1>1. PICK d : d = OpenPath(path)
  OBVIOUS
<1>2. PICK t : t = Found(d, name)
  OBVIOUS
<1>3. t = IF IsDir(d) THEN Lookup(d, name) ELSE NoInode
  BY <1>2 DEF Found
<1>4. PICK c : /\ c.op # "truncate" /\ Calls(c) /\ Issue(RemoveCourse(d, t))
               /\ Unlink(path, name) \/ Rmdir(path, name)
  BY <1>1, <1>3 DEF RemoveStep
<1>5. Whole(inodes, dirBlocks)
  BY IdleHolds
<1>6. Goal' = Goal \/ RemoveEdited(d, t)
  BY <1>1, <1>3, <1>4, <1>5, UnlinkEdits, RmdirEdits
<1>7. Goal' = Goal \/ Leaf(d, name, t)
  BY <1>1, <1>2, <1>4, UnlinkLeaf, RmdirLeaf, StillGoal DEF Refuse
<1>8. PICK Y : Y = {}
  OBVIOUS
<1>9. call' = c => Resized' = Y
  BY <1>4, <1>8 DEF Resized
<1>10. PICK G : G = RemoveImages(t)
  OBVIOUS
<1>11. \/ Goal' = Goal
       \/ /\ Passes(Goal, RemoveCourse(d, t), G, Goal')
          /\ \A g \in G : LiesBetween(g, Shown, Shown', Y)
  BY <1>6, <1>7, <1>10, RemoveDevices, RemoveShows
<1>. QED
  BY <1>4, <1>9, <1>11, CallShows

LEMMA MoveStepShows ==
  ASSUME NoDotsInPaths, ~ SubtreeMoves, TreeIInv, TreeIInv', CourseHolds, Idle,
         NEW oldPath \in Paths, NEW oldName \in PathNames,
         NEW newPath \in Paths, NEW newName \in PathNames,
         MoveStep(oldPath, oldName, newPath, newName)
  PROVE  (Idle \/ CourseShows)'
<1>1. PICK d1, d2 : d1 = OpenPath(oldPath) /\ d2 = OpenPath(newPath)
  OBVIOUS
<1>2. PICK s, t : s = Found(d1, oldName) /\ t = Found(d2, newName)
  OBVIOUS
<1>3. /\ s = IF IsDir(d1) THEN Lookup(d1, oldName) ELSE NoInode
      /\ t = IF IsDir(d2) THEN Lookup(d2, newName) ELSE NoInode
  BY <1>2 DEF Found
<1>4. PICK c : c = [op |-> "rename"]
  OBVIOUS
<1>5. /\ Rename(oldPath, oldName, newPath, newName)
      /\ Calls(c) /\ Issue(MoveCourse(s, d1, oldName, d2, t, newName))
      /\ Whole(inodes, dirBlocks)
  BY <1>1, <1>3, <1>4, IdleHolds DEF MoveStep
<1>6. PICK u : u = AfterUnlink(d2, t, newName)
  OBVIOUS
<1>7. PICK a : a = AddedBlocks(u, s, d2, newName)
  OBVIOUS
<1>8. PICK r : r = RemovedBlocks(u, a, s, d1, oldName)
  OBVIOUS
<1>9. Goal' = Goal \/ MoveEdited(s, d1, d2, t, u, a, r)
  BY <1>1, <1>3, <1>5, <1>6, <1>7, <1>8, MoveEdits
<1>10. \/ Goal' = Goal
       \/ Renames(d1, s, oldName, d2, t, newName) /\ MoveFull(s, d2, t, newName)
       \/ Moving(s, d1, oldName, d2, t, newName)
  <2>1. \/ Refuse \/ (outcome' = "same" /\ UNCHANGED <<disk, diskCounts, counts>>)
        \/ Renames(d1, s, oldName, d2, t, newName) /\ MoveFull(s, d2, t, newName)
        \/ Moving(s, d1, oldName, d2, t, newName)
    BY <1>1, <1>2, <1>5, RenameMoves
  <2>. QED
    BY <2>1, StillGoal DEF Refuse
<1>11. PICK Y : Y = {}
  OBVIOUS
<1>12. call' = c => Resized' = Y
  BY <1>4, <1>11 DEF Resized
<1>13. PICK G : G = MoveImages(d1, t, u, a, r)
  OBVIOUS
<1>14. \/ Goal' = Goal
       \/ /\ Passes(Goal, MoveCourse(s, d1, oldName, d2, t, newName), G, Goal')
          /\ \A g \in G : LiesBetween(g, Shown, Shown', Y)
  BY <1>6, <1>7, <1>8, <1>9, <1>10, <1>13, MoveDevices, MoveShows
<1>. QED
  BY <1>5, <1>12, <1>14, CallShows

LEMMA ResizeStepShows ==
  ASSUME NoDotsInPaths, TreeIInv, TreeIInv', CourseHolds, Idle,
         NEW path \in FullPaths, NEW size, ResizeStep(path, size)
  PROVE  (Idle \/ CourseShows)'
<1>1. PICK i : i = OpenPath(path)
  OBVIOUS
<1>2. PICK c : c = [op |-> "truncate", path |-> path, size |-> size]
  OBVIOUS
<1>3. /\ Truncate(path, size) /\ Calls(c) /\ Issue(ResizeCourse(i))
      /\ Whole(inodes, dirBlocks)
  BY <1>1, <1>2, IdleHolds DEF ResizeStep
<1>4. \/ Goal' = Goal
      \/ inodeBitmap' = inodeBitmap /\ Edits(inodes, inodes', {i}, dirBlocks, dirBlocks', {})
  BY <1>1, <1>3, TruncateEdits
<1>5. Goal' = Goal \/ (blockBitmap' \subseteq blockBitmap /\ OpenPath(path)' = i)
  BY <1>1, <1>3, TruncateResizes
<1>6. PICK Y : Y = {i}
  OBVIOUS
<1>7. OpenPath(path)' = i /\ call' = c => Resized' = Y
  BY <1>2, <1>6 DEF Resized
<1>8. PICK G : G = ResizeImages
  OBVIOUS
<1>9. \/ Goal' = Goal
      \/ /\ Passes(Goal, ResizeCourse(i), G, Goal')
         /\ \A g \in G : LiesBetween(g, Shown, Shown', Y)
         /\ OpenPath(path)' = i
  BY <1>4, <1>5, <1>6, <1>8, ResizeDevices, ResizeShows
<1>. QED
  BY <1>3, <1>7, <1>9, CallShows

LEMMA WriteNextShows ==
  ASSUME CourseShows, WriteNext
  PROVE  (Idle \/ CourseShows)'
<1>1. PICK G : /\ Passes(image, todo, G, Goal)
               /\ \A g \in G : LiesBetween(g, began, Shown, Resized)
  BY DEF CourseShows
<1>2. /\ todo # <<>> /\ image' = Put(image, Head(todo)) /\ todo' = Pending(image', Tail(todo))
      /\ todo' # <<>> => call' = call /\ began' = began
      /\ UNCHANGED disk /\ UNCHANGED <<disk, diskCounts>>
  BY DEF WriteNext, Idle, vars
<1>3. Goal' = Goal
  BY <1>2, StillGoal
<1>4. Passes(image', todo', G, Goal')
  <2>1. Passes(image', Tail(todo), G, Goal)
    BY <1>1, <1>2, PassesStep
  <2>. QED
    BY <1>2, <1>3, <2>1, PassesPending
<1>5. CASE todo' = <<>>
  BY <1>5 DEF Idle
<1>6. CASE todo' # <<>>
  <2>1. Shown' = Shown /\ \A q : OpenPath(q)' = OpenPath(q)
    BY <1>2, DiskShows
  <2>2. Resized' = Resized
    BY <1>2, <1>6, <2>1 DEF Resized
  <2>3. \A g \in G : LiesBetween(g, began', Shown', Resized')
    BY <1>1, <1>2, <1>6, <2>1, <2>2
  <2>. QED
    BY <1>4, <2>3 DEF CourseShows
<1>. QED
  BY <1>5, <1>6

(* Before the first crash the program's variables are those of Filesystem. *)
FirstIInv ==
  /\ crashes \in Nat /\ CourseHolds
  /\ crashes = 0 => TreeIInv /\ (Idle \/ CourseShows)

LEMMA FirstStarts ==
  ASSUME NoDotsInPaths, CrashInit PROVE FirstIInv
<1>1. TreeIInv
  BY InitTree DEF CrashInit
<1>. QED
  BY <1>1, CourseStarts DEF FirstIInv, CrashInit, Idle

LEMMA CallIsNext == CallNext => Next
<1>1. ASSUME NEW path, NEW name, InsertStep(path, name)
      PROVE  \/ Mkdir(path, name)
             \/ \E size \in FileSizes : CreateFile(path, name, size)
             \/ \E size \in TargetSizes : Symlink(path, name, size)
  BY <1>1 DEF InsertStep
<1>2. ASSUME NEW path, NEW name, RemoveStep(path, name)
      PROVE  Unlink(path, name) \/ Rmdir(path, name)
  BY <1>2 DEF RemoveStep
<1>3. ASSUME NEW path, NEW name, NEW newPath, NEW newName,
             MoveStep(path, name, newPath, newName)
      PROVE  Rename(path, name, newPath, newName)
  BY <1>3 DEF MoveStep
<1>4. ASSUME NEW path, NEW size, ResizeStep(path, size) PROVE Truncate(path, size)
  BY <1>4 DEF ResizeStep
<1>5. OpenAgain => Reopen
  BY DEF OpenAgain
<1>. QED
  BY <1>1, <1>2, <1>3, <1>4, <1>5 DEF CallNext, DirPaths, Next

(* A call crashes nothing, and settles what was owed.                      *)
LEMMA CallsSettle == CallNext => crashes' = crashes /\ owed' = NoCall
<1>1. ASSUME NEW c, Calls(c) PROVE crashes' = crashes /\ owed' = NoCall
  BY <1>1 DEF Calls
<1>2. ASSUME NEW path, NEW name, InsertStep(path, name)
      PROVE  crashes' = crashes /\ owed' = NoCall
  BY <1>1, <1>2 DEF InsertStep
<1>3. ASSUME NEW path, NEW name, RemoveStep(path, name)
      PROVE  crashes' = crashes /\ owed' = NoCall
  BY <1>1, <1>3 DEF RemoveStep
<1>4. ASSUME NEW path, NEW name, NEW newPath, NEW newName,
             MoveStep(path, name, newPath, newName)
      PROVE  crashes' = crashes /\ owed' = NoCall
  BY <1>1, <1>4 DEF MoveStep
<1>5. ASSUME NEW path, NEW size, ResizeStep(path, size)
      PROVE  crashes' = crashes /\ owed' = NoCall
  BY <1>1, <1>5 DEF ResizeStep
<1>6. OpenAgain => crashes' = crashes /\ owed' = NoCall
  BY DEF OpenAgain, Admits
<1>. QED
  BY <1>2, <1>3, <1>4, <1>5, <1>6 DEF CallNext

LEMMA FirstStep ==
  ASSUME NoDotsInPaths, ~ SubtreeMoves, FirstIInv, [CrashNext]_crashVars
  PROVE  FirstIInv'
<1>0. CourseHolds /\ CourseHolds' /\ crashes \in Nat
  BY CourseStep DEF FirstIInv
<1>1. CASE Idle /\ CallNext
  <2>1. crashes' = crashes
    BY <1>1, CallsSettle
  <2>2. CASE crashes = 0
    <3>1. TreeIInv
      BY <2>2 DEF FirstIInv
    <3>2. TreeIInv'
      BY <1>1, <3>1, CallIsNext, NextTree
    <3>3. (Idle \/ CourseShows)'
      <4>. USE <1>0, <1>1, <3>1, <3>2
      <4>0. DirPaths \subseteq Paths
        BY DEF DirPaths
      <4>1. ASSUME NEW path \in DirPaths, NEW name \in PathNames, InsertStep(path, name)
            PROVE  (Idle \/ CourseShows)'
        BY <4>1, InsertStepShows
      <4>2. ASSUME NEW path \in DirPaths, NEW name \in PathNames, RemoveStep(path, name)
            PROVE  (Idle \/ CourseShows)'
        BY <4>0, <4>2, RemoveStepShows
      <4>3. ASSUME NEW path \in DirPaths, NEW name \in PathNames,
                   NEW newPath \in DirPaths, NEW newName \in PathNames,
                   MoveStep(path, name, newPath, newName)
            PROVE  (Idle \/ CourseShows)'
        BY <4>0, <4>3, MoveStepShows
      <4>4. ASSUME NEW path \in FullPaths, NEW size \in FileSizes, ResizeStep(path, size)
            PROVE  (Idle \/ CourseShows)'
        BY <4>4, ResizeStepShows
      <4>5. CASE OpenAgain
        BY <4>5 DEF OpenAgain, Idle
      <4>. QED
        BY <4>1, <4>2, <4>3, <4>4, <4>5 DEF CallNext
    <3>. QED
      BY <1>0, <2>1, <3>2, <3>3 DEF FirstIInv
  <2>. QED
    BY <1>0, <2>1, <2>2 DEF FirstIInv
<1>2. CASE WriteNext
  <2>1. UNCHANGED vars /\ crashes' = crashes /\ ~ Idle
    BY <1>2 DEF WriteNext
  <2>2. CASE crashes = 0
    <3>1. TreeIInv /\ CourseShows
      BY <2>1, <2>2 DEF FirstIInv
    <3>2. TreeIInv'
      BY <2>1, <3>1, NextTree
    <3>3. (Idle \/ CourseShows)'
      BY <1>2, <3>1, WriteNextShows
    <3>. QED
      BY <1>0, <2>1, <3>2, <3>3 DEF FirstIInv
  <2>. QED
    BY <1>0, <2>1, <2>2 DEF FirstIInv
<1>3. CASE Crash
  <2>1. crashes' = crashes + 1
    BY <1>3 DEF Crash
  <2>. QED
    BY <1>0, <2>1 DEF FirstIInv
<1>4. CASE UNCHANGED crashVars
  <2>1. /\ UNCHANGED vars /\ UNCHANGED disk /\ UNCHANGED <<disk, diskCounts>>
        /\ UNCHANGED <<image, todo, call, began, crashes>>
    BY <1>4 DEF crashVars, vars
  <2>2. CASE crashes = 0
    <3>1. TreeIInv /\ (Idle \/ CourseShows)
      BY <2>2 DEF FirstIInv
    <3>2. TreeIInv'
      BY <2>1, <3>1, NextTree
    <3>3. CASE Idle
      BY <1>0, <2>1, <3>2, <3>3 DEF FirstIInv, Idle
    <3>4. CASE CourseShows
      <4>1. PICK G : /\ Passes(image, todo, G, Goal)
                     /\ \A g \in G : LiesBetween(g, began, Shown, Resized)
        BY <3>4 DEF CourseShows
      <4>2. Goal' = Goal
        BY <2>1, StillGoal
      <4>3. Shown' = Shown /\ \A q : OpenPath(q)' = OpenPath(q)
        BY <2>1, DiskShows
      <4>4. Resized' = Resized
        BY <2>1, <4>3 DEF Resized
      <4>5. CourseShows'
        BY <2>1, <4>1, <4>2, <4>3, <4>4 DEF CourseShows
      <4>. QED
        BY <1>0, <2>1, <3>2, <4>5 DEF FirstIInv
    <3>. QED
      BY <3>1, <3>3, <3>4
  <2>. QED
    BY <1>0, <2>1, <2>2 DEF FirstIInv
<1>. QED
  BY <1>1, <1>2, <1>3, <1>4 DEF CrashNext

(* What the three properties say of the image between two writes.          *)
LEMMA FirstMeans ==
  FirstIInv /\ crashes = 0 => NamesInBetween /\ NeverNameless /\ DamageIsLocal
<1>. SUFFICES ASSUME FirstIInv, crashes = 0
              PROVE  NamesInBetween /\ NeverNameless /\ DamageIsLocal
  OBVIOUS
<1>1. CASE Idle
  BY <1>1 DEF NamesInBetween, NeverNameless, DamageIsLocal
<1>2. CASE ~ Idle
  <2>1. PICK G : /\ Passes(image, todo, G, Goal)
                 /\ \A g \in G : LiesBetween(g, began, Shown, Resized)
    BY <1>2 DEF FirstIInv, CourseShows
  <2>2. image \in G
    BY <2>1, PassesEnd, PassesStep
  <2>. QED
    BY <2>1, <2>2, LiesBetweenMeans
<1>. QED
  BY <1>1, <1>2

LEMMA FirstInvariant ==
  ASSUME NoDotsInPaths, ~ SubtreeMoves PROVE CrashSpec => []FirstIInv
<1>1. CrashInit => FirstIInv
  BY FirstStarts
<1>2. FirstIInv /\ [CrashNext]_crashVars => FirstIInv'
  BY FirstStep
<1>. QED
  BY <1>1, <1>2, PTL DEF CrashSpec

(* The image between two writes is what a crash there leaves behind.  Up   *)
(* to the first crash: whichever of create_file, mkdir, symlink, unlink,   *)
(* rmdir, rename and truncate is interrupted, after whichever of the       *)
(* writes that filesystem.rs issues for it, a walk of the names then shows *)
(* nothing that was there neither before nor after the call, and all that  *)
(* was there before and after.                                             *)
THEOREM FirstCrashShowsEitherSide ==
  ASSUME NoDotsInPaths, ~ SubtreeMoves
  PROVE  CrashSpec => [](crashes = 0 => NamesInBetween)
<1>1. FirstIInv => (crashes = 0 => NamesInBetween)
  BY FirstMeans
<1>. QED
  BY <1>1, FirstInvariant, PTL

(* And what has a name before and after the call has one at every moment   *)
(* of it: rename adds the new entry before it removes the old one, over a  *)
(* destination or not, from one directory to another or within one.        *)
THEOREM FirstCrashLosesNoName ==
  ASSUME NoDotsInPaths, ~ SubtreeMoves
  PROVE  CrashSpec => [](crashes = 0 => NeverNameless)
<1>1. FirstIInv => (crashes = 0 => NeverNameless)
  BY FirstMeans
<1>. QED
  BY <1>1, FirstInvariant, PTL

(* And whatever has a name then and after the call, but for the file that  *)
(* truncate shrinks, keeps its inode bit and its blocks, marked and shared *)
(* with nothing else that has a name: bits are freed before the entries    *)
(* that lead to them go, and never those of a bystander.                   *)
THEOREM FirstCrashDamageIsLocal ==
  ASSUME NoDotsInPaths, ~ SubtreeMoves
  PROVE  CrashSpec => [](crashes = 0 => DamageIsLocal)
<1>1. FirstIInv => (crashes = 0 => DamageIsLocal)
  BY FirstMeans
<1>. QED
  BY <1>1, FirstInvariant, PTL

-----------------------------------------------------------------------------
(* What the first crash leaves, and what the interrupted call makes of it  *)
(* when it is made again.  First, what Consistent says, of any device.     *)
EntriesIn(g, i) == IF g.inodes[i].len = 0 THEN {} ELSE g.dirBlocks[g.inodes[i].start]
IsDirIn(g, i) == i \in Inodes /\ g.inodes[i].kind = "dir"
NamesOf(g, i) == {e \in Live(EntriesIn(g, i)) : e.name \notin Dots}
ChildrenIn(g, i) == {e.inode : e \in {f \in Live(EntriesIn(g, i)) : f.name \notin Dots}}
ClosedOn(g, S) == \A i \in S : ChildrenIn(g, i) \subseteq S

ReachableIn(g) ==
  {i \in UsableIn(g) :
     \A S \in SUBSET UsableIn(g) : Root \in S /\ ClosedOn(g, S) => i \in S}

DirsIn(g) == {i \in ReachableIn(g) : IsDirIn(g, i)}

LookupIn(g, d, name) ==
  LET hits == Called(EntriesIn(g, d), name) IN
  IF hits = {} THEN NoInode ELSE FirstOf(hits).inode

ReferencesIn(g, i) ==
  {r \in UNION {{d} \X NamesOf(g, d) : d \in {j \in UsableIn(g) : IsDirIn(g, j)}} :
     r[2].inode = i}

OwnedOnceIn(g) ==
  /\ \A i \in UsableIn(g) :
       /\ OwnRun(g.inodes[i]) \subseteq g.blockBitmap \ (0 .. (RootBlock - 1))
       /\ \A j \in UsableIn(g) \ {i} : OwnRun(g.inodes[i]) \cap OwnRun(g.inodes[j]) = {}
  /\ \A i \in Inodes \ UsableIn(g) : OwnRun(g.inodes[i]) = {}

NothingDanglesIn(g) ==
  \A d \in DirsIn(g) : \A e \in Live(EntriesIn(g, d)) :
    /\ e.inode \in UsableIn(g)
    /\ g.inodes[e.inode].links > 0
    /\ e.ftype = FtOf(g.inodes[e.inode].kind)

TreeIn(g) ==
  /\ ReferencesIn(g, Root) = {}
  /\ \A i \in UsableIn(g) : Cardinality(ReferencesIn(g, i)) <= 1
  /\ \A i \in UsableIn(g) : ReferencesIn(g, i) # {} => i \in ReachableIn(g)

DotsIn(g) ==
  \A d \in DirsIn(g) :
    /\ LookupIn(g, d, ".") = d
    /\ \/ d = Root /\ LookupIn(g, d, "..") = Root
       \/ \E r \in ReferencesIn(g, d) : r[1] = LookupIn(g, d, "..")

ConsistentIn(g) == OwnedOnceIn(g) /\ NothingDanglesIn(g) /\ TreeIn(g) /\ DotsIn(g)

(* The device that the program's variables describe. *)
LEMMA VariablesAre ==
  ASSUME NEW g, g.blockBitmap = blockBitmap, g.inodeBitmap = inodeBitmap,
         g.inodes = inodes, g.dirBlocks = dirBlocks
  PROVE  /\ UsableIn(g) = Usable /\ ReachableIn(g) = Reachable /\ DirsIn(g) = Dirs
         /\ \A i : EntriesIn(g, i) = DirEntries(inodes[i])
         /\ \A i : NamesOf(g, i) = Named(i) /\ ChildrenIn(g, i) = Children(i)
         /\ \A i : ReferencesIn(g, i) = References(i) /\ (IsDirIn(g, i) <=> IsDir(i))
         /\ \A d, name : LookupIn(g, d, name) = Lookup(d, name)
<1>1. UsableIn(g) = Usable
  BY DEF UsableIn, Usable
<1>2. \A i : EntriesIn(g, i) = DirEntries(inodes[i])
  BY DEF EntriesIn, DirEntries
<1>3. \A i : NamesOf(g, i) = Named(i) /\ ChildrenIn(g, i) = Children(i)
  BY <1>2 DEF NamesOf, Named, ChildrenIn, Children
<1>4. \A i : IsDirIn(g, i) <=> IsDir(i)
  BY DEF IsDirIn, IsDir
<1>5. \A S : ClosedOn(g, S) <=> Closed(S)
  BY <1>3 DEF ClosedOn, Closed
<1>6. ReachableIn(g) = Reachable
  BY <1>1, <1>5 DEF ReachableIn, Reachable
<1>7. DirsIn(g) = Dirs
  BY <1>4, <1>6 DEF DirsIn, Dirs
<1>8. \A i : ReferencesIn(g, i) = References(i)
  BY <1>1, <1>3, <1>4 DEF ReferencesIn, References
<1>9. \A d, name : LookupIn(g, d, name) = Lookup(d, name)
  BY <1>2 DEF LookupIn, Lookup
<1>. QED
  BY <1>1, <1>2, <1>3, <1>4, <1>6, <1>7, <1>8, <1>9

Describes(g) ==
  /\ g.blockBitmap = blockBitmap /\ g.inodeBitmap = inodeBitmap
  /\ g.inodes = inodes /\ g.dirBlocks = dirBlocks

DescribedAlike == \A g : Describes(g) => (Consistent <=> ConsistentIn(g))

LEMMA ConsistentAlike == DescribedAlike
<1>. SUFFICES ASSUME NEW g, Describes(g) PROVE Consistent <=> ConsistentIn(g)
  BY DEF DescribedAlike
<1>1. /\ UsableIn(g) = Usable /\ ReachableIn(g) = Reachable /\ DirsIn(g) = Dirs
      /\ \A i : EntriesIn(g, i) = DirEntries(inodes[i])
      /\ \A i : ReferencesIn(g, i) = References(i)
      /\ \A d, name : LookupIn(g, d, name) = Lookup(d, name)
      /\ g.blockBitmap = blockBitmap /\ g.inodes = inodes
  BY VariablesAre DEF Describes
<1>2. OwnedOnceIn(g) <=> BlocksOwnedOnce
  BY <1>1 DEF OwnedOnceIn, BlocksOwnedOnce
<1>3. NothingDanglesIn(g) <=> NoDanglingEntry
  BY <1>1 DEF NothingDanglesIn, NoDanglingEntry
<1>4. TreeIn(g) <=> NamesFormTree
  BY <1>1 DEF TreeIn, NamesFormTree
<1>5. DotsIn(g) <=> DotsMatchTree
  BY <1>1 DEF DotsIn, DotsMatchTree
<1>. QED
  BY <1>2, <1>3, <1>4, <1>5 DEF ConsistentIn, Consistent

(* After a step, all the same. *)
LEMMA ConsistentAfter == DescribedAlike'
<1>1. DescribedAlike
  BY ConsistentAlike
<1>. QED
  BY <1>1, ConsistentAlike, PTL

LEMMA TreeConsistent == NoDotsInPaths /\ TreeIInv => Consistent /\ Closed(Usable)
<1>. SUFFICES ASSUME NoDotsInPaths, TreeIInv PROVE Consistent /\ Closed(Usable)
  OBVIOUS
<1>1. Consistent
  BY DanglesNot, NamesAreTree, DotsAreTree DEF TreeIInv, IInv, Consistent
<1>2. ASSUME NEW i \in Usable, NEW e \in Named(i) PROVE e.inode \in Usable
  <2>0. inodes[i].len \in Nat
    BY UsableInodes, InodeFields DEF TreeIInv, IInv
  <2>1. i \in DirRecs
    <3>. SUFFICES ASSUME i \notin DirRecs PROVE FALSE
      OBVIOUS
    <3>1. DirEntries(inodes[i]) = {}
      BY <2>0 DEF DirEntries, TreeIInv, TreeParts, PlainFiles
    <3>. QED
      BY <1>2, <3>1 DEF Named, Live
  <2>2. e \in Block(i) /\ e.name \in Names
    BY <1>2, <2>1, TreeMeans
  <2>. QED
    BY <2>1, <2>2, EntryMeans
<1>. QED
  BY <1>1, <1>2 DEF Closed, Children, Named

(* g adds to h only inodes without names, and links.                       *)
BuildsOn(g, h) ==
  /\ UsableIn(h) \subseteq UsableIn(g) /\ ClosedOn(h, UsableIn(h))
  /\ \A i \in UsableIn(h) :
       /\ g.inodes[i].kind = h.inodes[i].kind /\ EntriesIn(g, i) = EntriesIn(h, i)
       /\ h.inodes[i].links > 0 => g.inodes[i].links > 0
  /\ \A i \in UsableIn(g) \ UsableIn(h) : NamesOf(g, i) = {}
  /\ OwnedOnceIn(g)

LEMMA BuildsConsistent ==
  ASSUME NEW g, NEW h, ConsistentIn(h), BuildsOn(g, h)
  PROVE  ConsistentIn(g)
<1>1. /\ UsableIn(h) \subseteq UsableIn(g) /\ ClosedOn(h, UsableIn(h))
      /\ Root \in UsableIn(h) /\ OwnedOnceIn(g)
  BY DEF BuildsOn, UsableIn
<1>2. \A i \in UsableIn(h) :
        /\ g.inodes[i].kind = h.inodes[i].kind /\ EntriesIn(g, i) = EntriesIn(h, i)
        /\ h.inodes[i].links > 0 => g.inodes[i].links > 0
  BY DEF BuildsOn
<1>3. \A i \in UsableIn(h) :
        /\ NamesOf(g, i) = NamesOf(h, i) /\ ChildrenIn(g, i) = ChildrenIn(h, i)
        /\ (IsDirIn(g, i) <=> IsDirIn(h, i)) /\ \A n : LookupIn(g, i, n) = LookupIn(h, i, n)
  BY <1>2 DEF NamesOf, ChildrenIn, IsDirIn, LookupIn
<1>4. ReachableIn(g) = ReachableIn(h)
  <2>1. ASSUME NEW i \in ReachableIn(g) PROVE i \in ReachableIn(h)
    <3>1. ASSUME NEW S \in SUBSET UsableIn(h), Root \in S, ClosedOn(h, S) PROVE i \in S
      <4>1. S \in SUBSET UsableIn(g) /\ ClosedOn(g, S)
        BY <1>1, <1>3, <3>1 DEF ClosedOn
      <4>. QED
        BY <2>1, <3>1, <4>1 DEF ReachableIn
    <3>2. i \in UsableIn(h)
      BY <1>1, <3>1
    <3>. QED
      BY <3>1, <3>2 DEF ReachableIn
  <2>2. ASSUME NEW i \in ReachableIn(h) PROVE i \in ReachableIn(g)
    <3>1. ASSUME NEW S \in SUBSET UsableIn(g), Root \in S, ClosedOn(g, S) PROVE i \in S
      <4>1. PICK T : T = S \cap UsableIn(h)
        OBVIOUS
      <4>2. ClosedOn(h, T)
        BY <1>1, <1>3, <3>1, <4>1 DEF ClosedOn
      <4>3. T \in SUBSET UsableIn(h) /\ Root \in T
        BY <1>1, <3>1, <4>1
      <4>. QED
        BY <2>2, <4>1, <4>2, <4>3 DEF ReachableIn
    <3>2. i \in UsableIn(g)
      BY <1>1, <2>2 DEF ReachableIn
    <3>. QED
      BY <3>1, <3>2 DEF ReachableIn
  <2>. QED
    BY <2>1, <2>2
<1>5. DirsIn(g) = DirsIn(h) /\ DirsIn(h) \subseteq UsableIn(h)
  BY <1>3, <1>4 DEF DirsIn, ReachableIn
<1>6. \A i : ReferencesIn(g, i) = ReferencesIn(h, i)
  <2>. DEFINE P == UNION {{d} \X NamesOf(g, d) : d \in {j \in UsableIn(g) : IsDirIn(g, j)}}
              Q == UNION {{d} \X NamesOf(h, d) : d \in {j \in UsableIn(h) : IsDirIn(h, j)}}
  <2>1. \A j \in UsableIn(g) \ UsableIn(h) : NamesOf(g, j) = {}
    BY DEF BuildsOn
  <2>2. ASSUME NEW r \in P PROVE r \in Q
    <3>1. PICK d \in UsableIn(g) : IsDirIn(g, d) /\ r \in {d} \X NamesOf(g, d)
      OBVIOUS
    <3>2. d \in UsableIn(h)
      BY <2>1, <3>1
    <3>. QED
      BY <1>3, <3>1, <3>2
  <2>3. ASSUME NEW r \in Q PROVE r \in P
    <3>1. PICK d \in UsableIn(h) : IsDirIn(h, d) /\ r \in {d} \X NamesOf(h, d)
      OBVIOUS
    <3>. QED
      BY <1>1, <1>3, <3>1
  <2>4. P = Q
    BY <2>2, <2>3
  <2>. QED
    BY <2>4, Zenon DEF ReferencesIn
<1>7. NothingDanglesIn(g)
  <2>. SUFFICES ASSUME NEW d \in DirsIn(h), NEW e \in Live(EntriesIn(h, d))
                PROVE  /\ e.inode \in UsableIn(g) /\ g.inodes[e.inode].links > 0
                       /\ e.ftype = FtOf(g.inodes[e.inode].kind)
    BY <1>2, <1>5 DEF NothingDanglesIn
  <2>1. /\ e.inode \in UsableIn(h) /\ h.inodes[e.inode].links > 0
        /\ e.ftype = FtOf(h.inodes[e.inode].kind)
    BY DEF ConsistentIn, NothingDanglesIn
  <2>. QED
    BY <1>1, <1>2, <2>1
<1>8. TreeIn(g)
  <2>1. /\ ReferencesIn(h, Root) = {}
        /\ \A i \in UsableIn(h) : Cardinality(ReferencesIn(h, i)) <= 1
        /\ \A i \in UsableIn(h) : ReferencesIn(h, i) # {} => i \in ReachableIn(h)
    BY DEF ConsistentIn, TreeIn
  <2>2. ASSUME NEW i, i \notin UsableIn(h) PROVE ReferencesIn(h, i) = {}
    <3>. SUFFICES ASSUME NEW r \in ReferencesIn(h, i) PROVE FALSE
      OBVIOUS
    <3>1. PICK d \in UsableIn(h) : r \in {d} \X NamesOf(h, d)
      BY DEF ReferencesIn
    <3>2. r[2] \in NamesOf(h, d) /\ r[2].inode = i
      BY <3>1 DEF ReferencesIn
    <3>3. i \in ChildrenIn(h, d)
      BY <3>2 DEF ChildrenIn, NamesOf
    <3>. QED
      BY <1>1, <2>2, <3>1, <3>3 DEF ClosedOn
  <2>3. Cardinality({}) = 0
    BY FS_EmptySet
  <2>4. ASSUME NEW i \in UsableIn(g)
        PROVE  /\ Cardinality(ReferencesIn(g, i)) <= 1
               /\ ReferencesIn(g, i) # {} => i \in ReachableIn(g)
    <3>1. CASE i \in UsableIn(h)
      BY <1>4, <1>6, <2>1, <3>1
    <3>2. CASE i \notin UsableIn(h)
      <4>1. ReferencesIn(g, i) = {}
        BY <1>6, <2>2, <3>2
      <4>. QED
        BY <2>3, <4>1
    <3>. QED
      BY <3>1, <3>2
  <2>. QED
    BY <1>6, <2>1, <2>4 DEF TreeIn
<1>9. DotsIn(g)
  BY <1>3, <1>5, <1>6 DEF ConsistentIn, DotsIn
<1>. QED
  BY <1>1, <1>7, <1>8, <1>9 DEF ConsistentIn

LEMMA TreeBuilds ==
  ASSUME NoDotsInPaths, TreeIInv, NEW g,
         blockBitmap \subseteq g.blockBitmap, inodeBitmap \subseteq g.inodeBitmap,
         \A i \in Usable : /\ SameRow(g.inodes[i], inodes[i])
                           /\ inodes[i].links > 0 => g.inodes[i].links > 0,
         \A b \in blockBitmap : g.dirBlocks[b] = dirBlocks[b],
         \A i \in UsableIn(g) \ Usable : NamesOf(g, i) = {},
         OwnedOnceIn(g)
  PROVE  ConsistentIn(g)
<1>1. Consistent /\ Closed(Usable)
  BY TreeConsistent
<1>2. PICK h : h = Goal
  OBVIOUS
<1>3. Describes(h) /\ ConsistentIn(h)
  BY <1>1, <1>2, ConsistentAlike DEF Describes, Goal, DescribedAlike
<1>4. /\ UsableIn(h) = Usable /\ \A i : ChildrenIn(h, i) = Children(i)
  BY <1>3, VariablesAre DEF Describes
<1>5. UsableIn(h) \subseteq UsableIn(g) /\ ClosedOn(h, UsableIn(h))
  BY <1>1, <1>4 DEF UsableIn, Usable, ClosedOn, Closed
<1>6. ASSUME NEW i \in Usable PROVE EntriesIn(g, i) = EntriesIn(h, i)
  <2>1. inodes[i].len # 0 => inodes[i].start \in blockBitmap
    BY StartsMarked
  <2>2. g.inodes[i].len = inodes[i].len /\ g.inodes[i].start = inodes[i].start
    BY DEF SameRow
  <2>. QED
    BY <1>3, <2>1, <2>2 DEF EntriesIn, Describes
<1>7. \A i \in Usable : /\ g.inodes[i].kind = h.inodes[i].kind
                        /\ h.inodes[i].links > 0 => g.inodes[i].links > 0
  BY <1>3 DEF Describes, SameRow
<1>. QED
  BY <1>3, <1>4, <1>5, <1>6, <1>7, BuildsConsistent DEF BuildsOn

(* Bits may be set that were clear: what they stand for is blank.          *)
SameRows(g) ==
  /\ blockBitmap \subseteq g.blockBitmap
  /\ inodeBitmap \subseteq g.inodeBitmap /\ g.inodeBitmap \subseteq Inodes
  /\ \A i \in Inodes : SameRow(g.inodes[i], inodes[i])

SameRowsOwn == \A g : SameRows(g) => OwnedOnceIn(g)

LEMMA RowsOwn == NoDotsInPaths /\ TreeIInv => SameRowsOwn
<1>. SUFFICES ASSUME NoDotsInPaths, TreeIInv, NEW g, SameRows(g) PROVE OwnedOnceIn(g)
  BY DEF SameRowsOwn
<1>0. BlocksOwnedOnce /\ FreedBlank /\ Usable \subseteq Inodes
  BY UsableInodes DEF TreeIInv, IInv
<1>1. /\ Usable \subseteq UsableIn(g) /\ UsableIn(g) \subseteq Inodes
  BY Constants DEF SameRows, UsableIn, Usable, Root, Inodes
<1>2. \A i \in Inodes : OwnRun(g.inodes[i]) = OwnRun(inodes[i])
  BY DEF SameRows, SameRow, OwnRun
<1>3. \A i \in Inodes \ Usable : OwnRun(inodes[i]) = {}
  BY <1>0 DEF BlocksOwnedOnce
<1>4. ASSUME NEW i \in UsableIn(g)
      PROVE  /\ OwnRun(g.inodes[i]) \subseteq g.blockBitmap \ (0 .. (RootBlock - 1))
             /\ \A j \in UsableIn(g) \ {i} : OwnRun(g.inodes[i]) \cap OwnRun(g.inodes[j]) = {}
  <2>1. CASE i \notin Usable
    BY <1>1, <1>2, <1>3, <2>1
  <2>2. CASE i \in Usable
    <3>1. OwnRun(inodes[i]) \subseteq blockBitmap \ (0 .. (RootBlock - 1))
      BY <1>0, <2>2 DEF BlocksOwnedOnce
    <3>2. \A j \in UsableIn(g) \ {i} : OwnRun(inodes[i]) \cap OwnRun(inodes[j]) = {}
      BY <1>0, <1>1, <1>3, <2>2 DEF BlocksOwnedOnce
    <3>. QED
      BY <1>1, <1>2, <3>1, <3>2 DEF SameRows
  <2>. QED
    BY <2>1, <2>2
<1>5. \A i \in Inodes \ UsableIn(g) : OwnRun(g.inodes[i]) = {}
  BY <1>1, <1>2, <1>3
<1>. QED
  BY <1>4, <1>5 DEF OwnedOnceIn

Resembles(g) ==
  /\ SameRows(g)
  /\ \A i \in Usable : inodes[i].links > 0 => g.inodes[i].links > 0
  /\ \A b \in blockBitmap : g.dirBlocks[b] = dirBlocks[b]

ResemblesWell == \A g : Resembles(g) => ConsistentIn(g)

LEMMA ResemblingIsConsistent == NoDotsInPaths /\ TreeIInv => ResemblesWell
<1>. SUFFICES ASSUME NoDotsInPaths, TreeIInv, NEW g, Resembles(g) PROVE ConsistentIn(g)
  BY DEF ResemblesWell
<1>0. FreedBlank /\ Usable \subseteq Inodes
  BY UsableInodes DEF TreeIInv, IInv
<1>1. OwnedOnceIn(g)
  BY RowsOwn DEF SameRowsOwn, Resembles
<1>2. ASSUME NEW i \in UsableIn(g) \ Usable PROVE NamesOf(g, i) = {}
  <2>1. i \in Inodes
    BY Constants DEF Resembles, SameRows, UsableIn, Root, Inodes
  <2>2. g.inodes[i].len = 0
    BY <1>0, <2>1 DEF Resembles, SameRows, SameRow, FreedBlank
  <2>. QED
    BY <2>2 DEF NamesOf, EntriesIn, Live
<1>. QED
  BY <1>0, <1>1, <1>2, TreeBuilds DEF Resembles, SameRows

LEMMA ResemblingAfter ==
  NoDotsInPaths /\ TreeIInv' => SameRowsOwn' /\ ResemblesWell'
<1>1. (NoDotsInPaths /\ TreeIInv => SameRowsOwn)'
  BY RowsOwn, PTL
<1>2. (NoDotsInPaths /\ TreeIInv => ResemblesWell)'
  BY ResemblingIsConsistent, PTL
<1>. QED
  BY <1>1, <1>2 DEF NoDotsInPaths

-----------------------------------------------------------------------------
(* create_file, mkdir, symlink: a block that is no directory's holds no    *)
(* names, so the new directory shows none before its block is written.     *)
NoNames(es) == \A e \in Live(es) : e.name \in Dots

OnlyDirsName ==
  \A b \in Blocks : (\A d \in DirRecs : inodes[d].start # b) => NoNames(dirBlocks[b])

InsertFresh ==
  /\ \A i \in NewInodes : inodes'[i].len = 0 \/ inodes'[i].start \in NewBlocks
  /\ \A b \in NewBlocks : NoNames(dirBlocks'[b])
  /\ \A i \in Inodes \ NewInodes :
       inodes'[i].links = inodes[i].links \/ inodes[i].links > 0

LEMMA InsertIsFresh ==
  ASSUME NoDotsInPaths, TreeIInv, NEW path \in Paths, NEW d, d = OpenPath(path),
         NEW name, NEW kind, NEW links, NEW size, NEW n \in Nat,
         Insert(d, name, kind, links, size, n)
  PROVE  Goal' = Goal \/ (d \in DirRecs /\ InsertFresh)
<1>0. IInv /\ TreeNow /\ DOMAIN inodes = Inodes /\ DOMAIN dirBlocks = Blocks
  BY DEF TreeIInv, TreeParts, IInv, TypeOK
<1>1. CASE Refuse \/ NoInodeLeft
  BY <1>1, StillGoal DEF Refuse, NoInodeLeft
<1>2. CASE ~ (Refuse \/ NoInodeLeft)
  <2>1. /\ IsDir(d)
        /\ \E i \in Inodes :
             /\ FirstFreeInode(i)
             /\ \/ NoRunLeft(i, n)
                \/ \E s \in Blocks :
                     /\ Allocates(n, s)
                     /\ LET rec == Inode(kind, links, size, s, n) IN
                        ParentFull(i, d, name, rec) \/ Linked(i, d, name, rec)
    BY <1>2 DEF Insert, CanInsert
  <2>2. d \in DirRecs /\ d \in Usable /\ d \in Inodes
    BY <1>0, <2>1, PathIsDir, UsableInodes DEF TreeIInv
  <2>3. inodes[d].links > 0 /\ inodes[d].start \in blockBitmap
    <3>1. LinksOf[d] \in Nat /\ LinksOf[d] >= 2 /\ LinksOf[d] = inodes[d].links
      BY <1>0, <2>2, LinksAtLeast DEF LinksOf
    <3>2. inodes[d].len # 0
      BY <2>2 DEF DirRecs
    <3>. QED
      BY <2>2, <3>1, <3>2, StartsMarked
  <2>4. PICK i \in Inodes :
          /\ FirstFreeInode(i)
          /\ \/ NoRunLeft(i, n)
             \/ \E s \in Blocks :
                  /\ Allocates(n, s)
                  /\ LET rec == Inode(kind, links, size, s, n) IN
                     ParentFull(i, d, name, rec) \/ Linked(i, d, name, rec)
    BY <2>1
  <2>5. i \notin inodeBitmap /\ i # d
    <3>1. i \notin inodeBitmap
      BY <2>4 DEF FirstFreeInode, IsFirstZero
    <3>. QED
      BY <2>2, <3>1, ReachedMarked DEF AllMarked
  <2>6. CASE NoRunLeft(i, n)
    <3>1. NewInodes = {i} /\ NewBlocks = {} /\ inodes' = inodes
      BY <2>5, <2>6 DEF NoRunLeft, NewInodes, NewBlocks
    <3>2. inodes[i].len = 0
      <4>1. i \notin Usable
        BY <2>5, ReachedMarked DEF AllMarked
      <4>. QED
        BY <1>0, <4>1 DEF IInv, FreedBlank
    <3>. QED
      BY <2>2, <3>1, <3>2 DEF InsertFresh
  <2>7. CASE ~ NoRunLeft(i, n)
    <3>0. PICK s \in Blocks :
            /\ Allocates(n, s)
            /\ LET rec == Inode(kind, links, size, s, n) IN
               ParentFull(i, d, name, rec) \/ Linked(i, d, name, rec)
      BY <2>4, <2>7
    <3>1. PICK rec : /\ Allocates(n, s) /\ rec = Inode(kind, links, size, s, n)
                     /\ ParentFull(i, d, name, rec) \/ Linked(i, d, name, rec)
      BY <3>0
    <3>2. rec.start = s /\ rec.len = n
      BY <3>1 DEF Inode
    <3>3. /\ inodeBitmap' = inodeBitmap \cup {i}
          /\ blockBitmap' = blockBitmap \cup RunBits(s, n)
      BY <3>1, <3>2 DEF ParentFull, Linked, Allocated
    <3>4. NewInodes = {i} /\ NewBlocks \subseteq RunBits(s, n) /\ NewBlocks \cap blockBitmap = {}
      BY <2>5, <3>3 DEF NewInodes, NewBlocks
    <3>5. n = 0 \/ s \in NewBlocks
      <4>. SUFFICES ASSUME n # 0 PROVE s \in NewBlocks
        OBVIOUS
      <4>1. RunBits(s, n) \cap blockBitmap = {}
        BY <3>1 DEF Allocates, IsFirstFreeRun, IsFreeRun
      <4>2. s \in RunBits(s, n)
        BY <3>1, FilesystemAssumption DEF RunBits, Blocks
      <4>. QED
        BY <3>3, <4>1, <4>2 DEF NewBlocks
    <3>6. PICK data : data = WithData(i, d, rec.start, rec.len, rec.kind)
      OBVIOUS
    <3>7. /\ DOMAIN data = Blocks
          /\ \A b \in Blocks : b \in RunBits(s, n) => NoNames(data[b])
      <4>1. NoNames(FreshBlock(i, d)) /\ NoNames({})
        <5>1. \A e \in FreshBlock(i, d) : e.name \in Dots
          BY DEF FreshBlock, Entry, Dots
        <5>. QED
          BY <5>1 DEF NoNames, Live
      <4>2. PICK fresh : fresh = IF rec.kind = "dir" THEN FreshBlock(i, d) ELSE {}
        OBVIOUS
      <4>3. /\ NoNames(fresh)
            /\ data = [b \in Blocks |-> IF b \in RunBits(s, n) THEN fresh ELSE dirBlocks[b]]
        BY <3>2, <3>6, <4>1, <4>2 DEF WithData
      <4>. QED
        BY <4>3
    <3>8. \A b \in Blocks : b # inodes[d].start => dirBlocks'[b] = data[b]
      BY <3>1, <3>6, <3>7 DEF ParentFull, Linked
    <3>9. /\ inodes'[i] = rec
          /\ \A j \in Inodes \ {i} : \/ inodes'[j].links = inodes[j].links
                                     \/ inodes[j].links > 0
      <4>1. CASE inodes' = [inodes EXCEPT ![i] = rec]
        BY <1>0, <4>1
      <4>2. CASE inodes' = [inodes EXCEPT ![i] = rec,
                              ![d].links = IF rec.kind = "dir" THEN @ + 1 ELSE @]
        <5>1. PICK parent : parent = [inodes[d] EXCEPT !.links = IF rec.kind = "dir" THEN @ + 1
                                                                 ELSE @]
          OBVIOUS
        <5>2. inodes' = [inodes EXCEPT ![i] = rec, ![d] = parent]
          BY <2>5, <4>2, <5>1
        <5>. QED
          BY <1>0, <2>3, <2>5, <5>2
      <4>. QED
        BY <3>1, <4>1, <4>2 DEF ParentFull, Linked
    <3>10. NewBlocks \subseteq Blocks /\ inodes[d].start \notin NewBlocks
      <4>1. RunBits(s, n) \subseteq Blocks
        <5>1. CASE n = 0
          BY <5>1, FilesystemAssumption DEF RunBits, Blocks
        <5>2. CASE n # 0
          BY <3>1, <5>2, FilesystemAssumption
             DEF Allocates, IsFirstFreeRun, IsFreeRun, RunBits, Blocks
        <5>. QED
          BY <5>1, <5>2
      <4>. QED
        BY <2>3, <3>4, <4>1
    <3>. QED
      BY <2>2, <3>2, <3>4, <3>5, <3>7, <3>8, <3>9, <3>10 DEF InsertFresh
  <2>. QED
    BY <2>6, <2>7
<1>. QED
  BY <1>1, <1>2

LEMMA InsertIsConsistent ==
  ASSUME NoDotsInPaths, TreeIInv, TreeIInv', OnlyDirsName, NEW d, d \in DirRecs,
         InsertEdited(d), InsertKept, InsertFresh
  PROVE  \A g \in InsertImages(d, NewInodes, NewBlocks) : ConsistentIn(g)
<1>0. /\ DOMAIN inodes = Inodes /\ DOMAIN dirBlocks = Blocks
      /\ DOMAIN inodes' = Inodes /\ DOMAIN dirBlocks' = Blocks
  BY WholeDomains DEF InsertEdited, Edits
<1>1. /\ Usable \subseteq inodeBitmap /\ inodeBitmap \subseteq Inodes
      /\ inodeBitmap' \subseteq Inodes /\ Usable' \subseteq inodeBitmap'
      /\ blockBitmap \subseteq Blocks /\ blockBitmap' \subseteq Blocks
      /\ inodeBitmap \subseteq inodeBitmap' /\ blockBitmap \subseteq blockBitmap'
  BY ReachedMarked, ReachedMarkedAfter DEF AllMarked, InsertKept
<1>2. SameRowsOwn' /\ ResemblesWell' /\ ResemblesWell
  BY ResemblingAfter, ResemblingIsConsistent
<1>. DEFINE S == {inodes[i].start : i \in {d}}
            ino == Set(inodes, inodes', NewInodes)
            blks == Set(dirBlocks, dirBlocks', NewBlocks)
            linked == Set(dirBlocks, dirBlocks', NewBlocks \cup S)
<1>3. linked = dirBlocks'
  <2>1. S = {inodes[d].start}
    OBVIOUS
  <2>. QED
    BY <2>1, SetAll DEF InsertEdited
<1>4. /\ \A i \in NewInodes : ino[i] = inodes'[i]
      /\ \A i \in Inodes \ NewInodes : ino[i] = inodes[i]
      /\ \A b \in NewBlocks : blks[b] = dirBlocks'[b]
      /\ \A b \in blockBitmap : blks[b] = dirBlocks[b]
      /\ NewInodes \subseteq Inodes /\ NewBlocks \subseteq Blocks
      /\ Usable \subseteq Inodes \ NewInodes
  BY <1>0, <1>1 DEF Set, NewInodes, NewBlocks
<1>5. \A r : SameRow(r, r)
  BY DEF SameRow
<1>6. \A i \in Inodes : SameRow(ino[i], inodes'[i])
  BY <1>4, <1>5 DEF InsertKept
<1>. HIDE DEF ino, blks, linked
<1>7. ASSUME NEW g, g.inodes = inodes, g.dirBlocks = dirBlocks,
             g.blockBitmap \in {blockBitmap, blockBitmap'},
             g.inodeBitmap \in {inodeBitmap, inodeBitmap'}
      PROVE  ConsistentIn(g)
  <2>1. Resembles(g)
    BY <1>1, <1>5, <1>7 DEF Resembles, SameRows
  <2>. QED
    BY <1>2, <2>1 DEF ResemblesWell
<1>8. ASSUME NEW g, g.inodes = ino, g.dirBlocks \in {dirBlocks, blks},
             g.blockBitmap = blockBitmap', g.inodeBitmap = inodeBitmap'
      PROVE  ConsistentIn(g)
  <2>1. \A i \in Usable : /\ SameRow(g.inodes[i], inodes[i])
                          /\ inodes[i].links > 0 => g.inodes[i].links > 0
    BY <1>4, <1>5, <1>8
  <2>2. \A b \in blockBitmap : g.dirBlocks[b] = dirBlocks[b]
    BY <1>4, <1>8
  <2>3. ASSUME NEW i \in UsableIn(g) \ Usable PROVE NamesOf(g, i) = {}
    <3>1. i \in NewInodes
      BY <1>8 DEF UsableIn, Usable, NewInodes
    <3>2. g.inodes[i].len = 0 \/ g.inodes[i].start \in NewBlocks
      BY <1>4, <1>8, <3>1 DEF InsertFresh
    <3>3. ASSUME NEW b \in NewBlocks PROVE NoNames(g.dirBlocks[b])
      <4>1. NoNames(dirBlocks[b])
        <5>1. \A k \in DirRecs : inodes[k].start \in blockBitmap
          BY StartsMarked DEF DirRecs
        <5>2. b \notin blockBitmap /\ b \in Blocks
          BY <1>4 DEF NewBlocks
        <5>. QED
          BY <5>1, <5>2 DEF OnlyDirsName
      <4>2. NoNames(blks[b])
        BY <1>4 DEF InsertFresh
      <4>. QED
        BY <1>8, <4>1, <4>2
    <3>4. g.inodes[i].len # 0 => NoNames(g.dirBlocks[g.inodes[i].start])
      BY <3>2, <3>3
    <3>. QED
      BY <3>4 DEF NamesOf, EntriesIn, NoNames, Live
  <2>4. SameRows(g)'
    BY <1>1, <1>6, <1>8 DEF SameRows
  <2>5. OwnedOnceIn(g)
    BY <1>2, <2>4 DEF SameRowsOwn
  <2>. QED
    BY <1>1, <1>8, <2>1, <2>2, <2>3, <2>5, TreeBuilds
<1>9. ASSUME NEW g, g.inodes \in {ino, inodes'}, g.dirBlocks = dirBlocks',
             g.blockBitmap = blockBitmap', g.inodeBitmap = inodeBitmap'
      PROVE  ConsistentIn(g)
  <2>1. \A i \in Inodes : inodes'[i].links > 0 => ino[i].links > 0
    <3>. SUFFICES ASSUME NEW i \in Inodes, inodes'[i].links > 0 PROVE ino[i].links > 0
      OBVIOUS
    <3>1. CASE i \in NewInodes
      BY <1>4, <3>1
    <3>2. CASE i \notin NewInodes
      BY <1>4, <3>2 DEF InsertFresh
    <3>. QED
      BY <3>1, <3>2
  <2>2. \A i \in Inodes : SameRow(g.inodes[i], inodes'[i])
    BY <1>5, <1>6, <1>9
  <2>3. \A i \in Usable' : inodes'[i].links > 0 => g.inodes[i].links > 0
    BY <1>1, <1>9, <2>1
  <2>4. Resembles(g)'
    BY <1>1, <1>9, <2>2, <2>3 DEF Resembles, SameRows
  <2>. QED
    BY <1>2, <2>4 DEF ResemblesWell
<1>10. ASSUME NEW g \in InsertImages(d, NewInodes, NewBlocks)
       PROVE  \/ /\ g.inodes = inodes /\ g.dirBlocks = dirBlocks
                 /\ g.blockBitmap \in {blockBitmap, blockBitmap'}
                 /\ g.inodeBitmap \in {inodeBitmap, inodeBitmap'}
              \/ /\ g.inodes = ino /\ g.dirBlocks \in {dirBlocks, blks}
                 /\ g.blockBitmap = blockBitmap' /\ g.inodeBitmap = inodeBitmap'
              \/ /\ g.inodes \in {ino, inodes'} /\ g.dirBlocks = dirBlocks'
                 /\ g.blockBitmap = blockBitmap' /\ g.inodeBitmap = inodeBitmap'
  BY <1>3 DEF InsertImages, Device, ino, blks, linked
<1>. QED
  BY <1>7, <1>8, <1>9, <1>10

-----------------------------------------------------------------------------
(* That only directories' blocks hold names stays so.                      *)
LEMMA NamesStayDirs ==
  ASSUME OnlyDirsName, NEW T,
         \A b \in Blocks \ T : dirBlocks'[b] = dirBlocks[b],
         \A b \in T : \/ NoNames(dirBlocks'[b])
                      \/ \E j \in DirRecs' : inodes'[j].start = b,
         \A k \in DirRecs : \/ \E j \in DirRecs' : inodes'[j].start = inodes[k].start
                            \/ NoNames(dirBlocks'[inodes[k].start])
  PROVE  OnlyDirsName'
<1>. SUFFICES ASSUME NEW b \in Blocks, \A j \in DirRecs' : inodes'[j].start # b
              PROVE  NoNames(dirBlocks'[b])
  BY DEF OnlyDirsName, NoNames
<1>1. CASE b \in T
  BY <1>1
<1>2. CASE b \notin T
  <2>1. CASE \E k \in DirRecs : inodes[k].start = b
    BY <2>1
  <2>2. CASE \A k \in DirRecs : inodes[k].start # b
    BY <1>2, <2>2 DEF OnlyDirsName
  <2>. QED
    BY <2>1, <2>2
<1>. QED
  BY <1>1, <1>2

LEMMA InsertNames ==
  ASSUME NoDotsInPaths, TreeIInv, TreeIInv', OnlyDirsName, NEW d, d \in DirRecs,
         InsertEdited(d), InsertKept, InsertFresh
  PROVE  OnlyDirsName'
<1>1. /\ Usable \subseteq inodeBitmap /\ inodeBitmap \subseteq Inodes
      /\ inodeBitmap \subseteq inodeBitmap'
  BY ReachedMarked DEF AllMarked, InsertKept
<1>2. \A k \in DirRecs : k \in DirRecs' /\ inodes'[k].start = inodes[k].start
  <2>1. \A k \in Usable : k \in Usable' /\ SameRow(inodes[k], inodes'[k])
    BY <1>1 DEF Usable, InsertKept, NewInodes
  <2>. QED
    BY <2>1 DEF DirRecs, SameRow
<1>3. \A b \in Blocks \ (NewBlocks \cup {inodes[d].start}) : dirBlocks'[b] = dirBlocks[b]
  BY DEF InsertEdited, Edits
<1>4. \A b \in NewBlocks \cup {inodes[d].start} :
        NoNames(dirBlocks'[b]) \/ \E j \in DirRecs' : inodes'[j].start = b
  BY <1>2 DEF InsertFresh
<1>. QED
  BY <1>2, <1>3, <1>4, NamesStayDirs

LEMMA RemoveNames ==
  ASSUME NoDotsInPaths, TreeIInv, OnlyDirsName, NEW d, NEW name, NEW t, Leaf(d, name, t),
         t # Root, RemoveEdited(d, t)
  PROVE  OnlyDirsName'
<1>1. d \in DirRecs /\ t \in Usable /\ t # d /\ FreesInode(t)
  BY DEF Leaf
<1>2. /\ DirRecs' = DirRecs \ {t} /\ DirRecs \subseteq Inodes
      /\ \A k \in DirRecs : inodes[k].start \in Blocks
      /\ \A k, j \in DirRecs : k # j => inodes[k].start # inodes[j].start
  BY <1>1, FreedOwns, StartsApart, UsableInodes DEF TreeIInv
<1>3. \A k \in DirRecs \ {t} : k \in DirRecs' /\ inodes'[k].start = inodes[k].start
  BY <1>1, <1>2 DEF FreesInode
<1>4. t \in DirRecs => NoNames(dirBlocks'[inodes[t].start])
  <2>. SUFFICES ASSUME t \in DirRecs PROVE NoNames(dirBlocks'[inodes[t].start])
    OBVIOUS
  <2>1. IsEmptyDir(t) /\ inodes[t].len # 0
    BY DEF Leaf, DirRecs
  <2>2. NoNames(dirBlocks[inodes[t].start])
    BY <2>1 DEF IsEmptyDir, DirEntries, NoNames
  <2>3. dirBlocks'[inodes[t].start] = dirBlocks[inodes[t].start]
    BY <1>1, <1>2 DEF RemoveEdited, Edits
  <2>. QED
    BY <2>2, <2>3
<1>0. PICK T : T = {inodes[d].start}
  OBVIOUS
<1>5. \A b \in Blocks \ T : dirBlocks'[b] = dirBlocks[b]
  BY <1>0 DEF RemoveEdited, Edits
<1>6. \A k \in DirRecs : \/ \E j \in DirRecs' : inodes'[j].start = inodes[k].start
                         \/ NoNames(dirBlocks'[inodes[k].start])
  BY <1>3, <1>4
<1>7. \A b \in T : \/ NoNames(dirBlocks'[b])
                  \/ \E j \in DirRecs' : inodes'[j].start = b
  BY <1>0, <1>1, <1>3
<1>. QED
  BY <1>5, <1>6, <1>7, NamesStayDirs

LEMMA MoveNames ==
  ASSUME NoDotsInPaths, TreeIInv, OnlyDirsName, NEW d1, NEW s, NEW oldName, NEW d2, NEW t,
         NEW newName, Renames(d1, s, oldName, d2, t, newName),
         MoveFull(s, d2, t, newName) \/ Moved(s, d1, oldName, d2, t, newName)
  PROVE  OnlyDirsName'
<1>0. /\ d1 \in DirRecs /\ d2 \in DirRecs /\ DirRecs \subseteq Inodes
      /\ dirBlocks = [b \in Blocks |-> dirBlocks[b]]
  BY UsableInodes DEF Renames, TreeIInv, IInv, TypeOK
<1>1. \A k \in DirRecs : k \notin Displaced(t)
  BY <1>0, Constants DEF Renames, Displaced, IsDir, DirRecs, NoInode
<1>2. \A k \in DirRecs : k \in DirRecs' /\ inodes'[k].start = inodes[k].start
  <2>1. inodeBitmap' = inodeBitmap \ Displaced(t)
    BY DEF MoveFull, Moved, Unlinked
  <2>2. \A k \in Inodes \ Displaced(t) : SameRow(inodes'[k], inodes[k])
    <3>1. CASE MoveFull(s, d2, t, newName)
      BY <3>1 DEF MoveFull, SameRow
    <3>2. CASE Moved(s, d1, oldName, d2, t, newName)
      <4>1. PICK newParent \in BOOLEAN : newParent = (d1 # d2 /\ IsDir(s))
        OBVIOUS
      <4>2. inodes' = [i \in Inodes |->
              CASE i \in Displaced(t)  -> Deleted(inodes[i])
                [] newParent /\ i = d1 -> [inodes[i] EXCEPT !.links = SatSub(@, 1)]
                [] newParent /\ i = d2 -> [inodes[i] EXCEPT !.links = @ + 1]
                [] OTHER               -> inodes[i]]
        BY <3>2, <4>1 DEF Moved
      <4>3. ASSUME NEW k \in Inodes \ Displaced(t)
            PROVE  inodes'[k] \in {inodes[k], [inodes[k] EXCEPT !.links = SatSub(@, 1)],
                                   [inodes[k] EXCEPT !.links = @ + 1]}
        BY <4>2
      <4>4. ASSUME NEW k \in Inodes \ Displaced(t) PROVE SameRow(inodes'[k], inodes[k])
        <5>1. inodes[k] \in InodeType
          BY DEF TreeIInv, IInv, TypeOK
        <5>. QED
          BY <4>3, <5>1 DEF SameRow, InodeType
      <4>. QED
        BY <4>4
    <3>. QED
      BY <3>1, <3>2
  <2>. QED
    BY <1>0, <1>1, <2>1, <2>2 DEF DirRecs, Usable, SameRow
<1>3. PICK T : T = {inodes[d1].start, inodes[d2].start} \cup {inodes[k].start : k \in DirRecs}
  OBVIOUS
<1>4. \A b \in Blocks \ T : dirBlocks'[b] = dirBlocks[b]
  <2>1. PICK u : u = AfterUnlink(d2, t, newName)
    OBVIOUS
  <2>2. /\ u = [b \in Blocks |-> u[b]]
        /\ \A b \in Blocks \ T : u[b] = dirBlocks[b]
    BY <1>0, <1>3, <2>1 DEF AfterUnlink, WithoutEntry
  <2>3. CASE MoveFull(s, d2, t, newName)
    BY <2>1, <2>2, <2>3 DEF MoveFull
  <2>4. CASE Moved(s, d1, oldName, d2, t, newName)
    <3>1. dirBlocks' = AfterMove(u, s, d1, oldName, d2, newName)
      BY <2>1, <2>4 DEF Moved
    <3>2. PICK es, es1 :
            \/ dirBlocks' = [[u EXCEPT ![inodes[d2].start] = es] EXCEPT ![inodes[d1].start] = es1]
            \/ /\ IsDir(s)
               /\ \E es2 : dirBlocks' = [[[u EXCEPT ![inodes[d2].start] = es]
                                             EXCEPT ![inodes[d1].start] = es1]
                                             EXCEPT ![inodes[s].start] = es2]
      BY <3>1 DEF AfterMove
    <3>3. IsDir(s) => s \in DirRecs
      BY DEF Renames, Resolved, IsDir
    <3>. QED
      BY <1>3, <2>2, <3>2, <3>3
  <2>. QED
    BY <2>3, <2>4
<1>5. \A b \in T : \E j \in DirRecs' : inodes'[j].start = b
  BY <1>0, <1>2, <1>3
<1>. QED
  BY <1>2, <1>4, <1>5, NamesStayDirs

LEMMA ResizeNames ==
  ASSUME NoDotsInPaths, TreeIInv, OnlyDirsName, NEW i, i \in Inodes, inodes[i].kind = "reg",
         inodeBitmap' = inodeBitmap, Edits(inodes, inodes', {i}, dirBlocks, dirBlocks', {})
  PROVE  OnlyDirsName'
<1>1. \A k \in DirRecs : k \in DirRecs' /\ inodes'[k].start = inodes[k].start
  <2>1. DirRecs \subseteq Inodes \ {i}
    BY UsableInodes DEF TreeIInv, DirRecs
  <2>2. \A k \in DirRecs : inodes'[k] = inodes[k]
    BY <2>1 DEF Edits
  <2>. QED
    BY <2>2 DEF DirRecs, Usable
<1>2. PICK T : T = {}
  OBVIOUS
<1>3. \A b \in Blocks \ T : dirBlocks'[b] = dirBlocks[b]
  BY <1>2 DEF Edits
<1>4. \A b \in T : NoNames(dirBlocks'[b]) \/ \E j \in DirRecs' : inodes'[j].start = b
  BY <1>2
<1>5. \A k \in DirRecs : \/ \E j \in DirRecs' : inodes'[j].start = inodes[k].start
                         \/ NoNames(dirBlocks'[inodes[k].start])
  BY <1>1
<1>. QED
  BY <1>3, <1>4, <1>5, NamesStayDirs

LEMMA StillNames ==
  ASSUME OnlyDirsName, UNCHANGED disk PROVE OnlyDirsName'
<1>1. DirRecs' = DirRecs
  BY DEF disk, DirRecs, Usable
<1>. QED
  BY <1>1 DEF disk, OnlyDirsName, NoNames

LEMMA GoalStays ==
  ASSUME Goal' = Goal PROVE UNCHANGED <<disk, diskCounts>>
<1>1. PICK g : g = Goal
  OBVIOUS
<1>2. /\ blockBitmap = g.blockBitmap /\ inodeBitmap = g.inodeBitmap
      /\ inodes = g.inodes /\ dirBlocks = g.dirBlocks /\ diskCounts = g.counts
  BY <1>1 DEF Goal
<1>3. /\ blockBitmap' = g.blockBitmap /\ inodeBitmap' = g.inodeBitmap
      /\ inodes' = g.inodes /\ dirBlocks' = g.dirBlocks /\ diskCounts' = g.counts
  BY <1>1 DEF Goal
<1>. QED
  BY <1>2, <1>3 DEF disk

-----------------------------------------------------------------------------
(* Where a path leads on a device.                                         *)
WalkIn(g, i, n) == IF IsDirIn(g, i) THEN LookupIn(g, i, n) ELSE NoInode

FollowsIn(g, path, at) ==
  \A k \in 0 .. Len(path) : at[k] = IF k = 0 THEN Root ELSE WalkIn(g, at[k - 1], path[k])

LedIn(g, path, i) == \E at : FollowsIn(g, path, at) /\ i = at[Len(path)]

LEMMA PathsAlwaysRun == NoDotsInPaths => AllPathsRun
<1>. SUFFICES ASSUME NoDotsInPaths PROVE AllPathsRun
  OBVIOUS
<1>1. PICK G : G = {Root, NoInode} \cup {Walk(x[1], x[2]) : x \in Inodes \X PathNames}
  OBVIOUS
<1>2. ASSUME NEW i \in G, NEW name \in PathNames PROVE Walk(i, name) \in G
  <2>1. CASE i \in Inodes
    <3>1. <<i, name>> \in Inodes \X PathNames
      BY <2>1
    <3>2. Walk(<<i, name>>[1], <<i, name>>[2]) \in G
      BY <1>1, <3>1
    <3>. QED
      BY <3>2
  <2>2. CASE i \notin Inodes
    BY <1>1, <2>2 DEF Walk, IsDir
  <2>. QED
    BY <2>1, <2>2
<1>3. Root \in G
  BY <1>1
<1>. QED
  BY <1>2, <1>3, OpenPathRuns DEF AllPathsRun

(* A walk that finds nothing else than another does not lead elsewhere.    *)
LEMMA LedAlong ==
  ASSUME NoDotsInPaths, NEW g, NEW h, NEW path \in FullPaths, NEW i, NEW j,
         \A k, n : n \in PathNames => WalkIn(g, k, n) \in {NoInode, WalkIn(h, k, n)},
         LedIn(g, path, i), LedIn(h, path, j)
  PROVE  i \in {NoInode, j}
<1>1. Len(path) \in Nat /\ path \in [1 .. Len(path) -> PathNames]
  BY PathsAlwaysRun, Zenon DEF AllPathsRun
<1>2. PICK at, at2 : /\ FollowsIn(g, path, at) /\ i = at[Len(path)]
                     /\ FollowsIn(h, path, at2) /\ j = at2[Len(path)]
  BY DEF LedIn
<1>3. PICK len \in Nat : len = Len(path)
  BY <1>1
<1>4. /\ \A k \in 0 .. len : at[k] = IF k = 0 THEN Root ELSE WalkIn(g, at[k - 1], path[k])
      /\ \A k \in 0 .. len : at2[k] = IF k = 0 THEN Root ELSE WalkIn(h, at2[k - 1], path[k])
  BY <1>2, <1>3 DEF FollowsIn
<1>5. \A n : WalkIn(g, NoInode, n) = NoInode
  BY Constants DEF WalkIn, IsDirIn, NoInode
<1>. DEFINE T == {m \in Nat : m <= len => at[m] \in {NoInode, at2[m]}}
<1>6. 0 \in T
  BY <1>4
<1>7. ASSUME NEW m \in Nat, m \in T PROVE m + 1 \in T
  <2>. SUFFICES ASSUME m + 1 <= len PROVE at[m + 1] \in {NoInode, at2[m + 1]}
    OBVIOUS
  <2>1. /\ at[m] \in {NoInode, at2[m]} /\ m + 1 \in 0 .. len /\ m + 1 # 0
        /\ (m + 1) - 1 = m /\ path[m + 1] \in PathNames
    BY <1>1, <1>3, <1>7
  <2>2. at[m + 1] = WalkIn(g, at[m], path[m + 1]) /\ at2[m + 1] = WalkIn(h, at2[m], path[m + 1])
    BY <1>4, <2>1
  <2>. QED
    BY <1>5, <2>1, <2>2
<1>8. len \in T
  <2>. HIDE DEF T
  <2>. QED
    BY <1>6, <1>7, NatSetInduction
<1>. QED
  BY <1>2, <1>3, <1>8

(* It leads where open_path goes.                                          *)
PathsLed ==
  \A path \in FullPaths : \A g : Describes(g) =>
    LedIn(g, path, OpenPath(path)) /\ \A i : LedIn(g, path, i) => i = OpenPath(path)

LEMMA OpenPathLed == NoDotsInPaths => PathsLed
<1>. SUFFICES ASSUME NoDotsInPaths, NEW path \in FullPaths, NEW g, Describes(g)
              PROVE  /\ LedIn(g, path, OpenPath(path))
                     /\ \A i : LedIn(g, path, i) => i = OpenPath(path)
  BY DEF PathsLed
<1>1. \A i, n : WalkIn(g, i, n) = Walk(i, n)
  BY VariablesAre DEF Describes, WalkIn, Walk
<1>2. PICK at : Opens(path, at) /\ OpenPath(path) = at[Len(path)]
  BY PathsAlwaysRun DEF AllPathsRun
<1>3. LedIn(g, path, OpenPath(path))
  BY <1>1, <1>2 DEF Opens, FollowsIn, LedIn
<1>4. ASSUME NEW i, LedIn(g, path, i) PROVE i = OpenPath(path)
  <2>1. \A k, n : n \in PathNames => WalkIn(g, k, n) \in {NoInode, WalkIn(g, k, n)}
    OBVIOUS
  <2>2. i \in {NoInode, OpenPath(path)} /\ OpenPath(path) \in {NoInode, i}
    BY <1>3, <1>4, <2>1, LedAlong
  <2>. QED
    BY <2>2
<1>. QED
  BY <1>3, <1>4

LEMMA OpenPathLedAfter == NoDotsInPaths => PathsLed'
<1>1. (NoDotsInPaths => PathsLed)'
  BY OpenPathLed, PTL
<1>. QED
  BY <1>1 DEF NoDotsInPaths
-----------------------------------------------------------------------------
(* unlink or rmdir made again on the device g, and what it makes of g.     *)
MayRemove(g, op, t) ==
  /\ t \in Inodes
  /\ IF op = "rmdir"
       THEN t # Root /\ IsDirIn(g, t) /\ \A e \in Live(EntriesIn(g, t)) : e.name \in Dots
       ELSE ~ IsDirIn(g, t)

RowsWithout(rows, op, d, t) ==
  IF op = "rmdir"
    THEN [rows EXCEPT ![t] = Deleted(@), ![d] = [rows[d] EXCEPT !.links = SatSub(@, 1)]]
    ELSE [rows EXCEPT ![t] = Deleted(@)]

RemovedFrom(g, h, op, d, t, name) ==
  /\ h.blockBitmap = g.blockBitmap \ OwnRun(g.inodes[t])
  /\ h.inodeBitmap = g.inodeBitmap \ {t}
  /\ h.inodes = RowsWithout(g.inodes, op, d, t)
  /\ h.dirBlocks = [g.dirBlocks EXCEPT ![g.inodes[d].start] = Remove(@, t, name)]

(* It has still to do what it does, or finds nothing to do.                *)
RemovalLeft(g, op, path, name) ==
  \E d, t, h :
    /\ LedIn(g, path, d) /\ IsDirIn(g, d) /\ t = LookupIn(g, d, name)
    /\ MayRemove(g, op, t) /\ RemovedFrom(g, h, op, d, t, name) /\ ConsistentIn(h)

RemovalDone(g, path, name) ==
  /\ ConsistentIn(g)
  /\ \A d : LedIn(g, path, d) /\ IsDirIn(g, d) => LookupIn(g, d, name) = NoInode

(* The call, as the steps make it. *)
Removing(op, d, name, t) ==
  /\ Leaf(d, name, t) /\ t = Lookup(d, name)
  /\ op = "rmdir" <=> IsDir(t)
  /\ IsDir(t) => IsEmptyDir(t)
  /\ inodes' = RowsWithout(inodes, op, d, t)

LEMMA CallRemoves ==
  ASSUME NoDotsInPaths, TreeIInv, NEW path \in Paths, NEW name \in PathNames,
         NEW op, \/ op = "unlink" /\ Unlink(path, name)
                 \/ op = "rmdir" /\ Rmdir(path, name),
         NEW d, d = OpenPath(path), NEW t, t = Found(d, name)
  PROVE  Goal' = Goal \/ Removing(op, d, name, t)
<1>1. CASE Refuse
  BY <1>1, StillGoal DEF Refuse
<1>2. CASE ~ Refuse
  <2>1. Leaf(d, name, t)
    BY <1>2, UnlinkLeaf, RmdirLeaf
  <2>2. IsDir(d) /\ t = Lookup(d, name)
    <3>1. t \in Inodes
      BY <2>1, UsableInodes DEF Leaf, TreeIInv
    <3>. QED
      BY <3>1, Constants DEF Found, NoInode
  <2>3. CASE op = "unlink" /\ Unlink(path, name)
    <3>1. ~ IsDir(t) /\ inodes' = [inodes EXCEPT ![t] = Deleted(@)]
      BY <1>2, <2>2, <2>3 DEF Unlink
    <3>. QED
      BY <2>1, <2>2, <2>3, <3>1 DEF Removing, RowsWithout
  <2>4. CASE op = "rmdir" /\ Rmdir(path, name)
    <3>1. /\ IsDir(t) /\ IsEmptyDir(t)
          /\ inodes' = [inodes EXCEPT ![t] = Deleted(@),
                                      ![d] = [inodes[d] EXCEPT !.links = SatSub(@, 1)]]
      BY <1>2, <2>2, <2>4 DEF Rmdir
    <3>. QED
      BY <2>1, <2>2, <2>4, <3>1 DEF Removing, RowsWithout
  <2>. QED
    BY <2>3, <2>4
<1>. QED
  BY <1>1, <1>2

LEMMA LeafNotRoot ==
  ASSUME NoDotsInPaths, TreeIInv, NEW d, NEW name, NEW t, Leaf(d, name, t) PROVE t # Root
<1>1. t \in Inodes /\ <<d, name, t>> \in EdgesOf
  BY UsableInodes, EdgesAre DEF Leaf, TreeIInv
<1>. QED
  BY <1>1, EdgesAre DEF Treelike

(* A path leads on g where it leads now. *)
LEMMA SameLed ==
  ASSUME NoDotsInPaths, NEW path \in FullPaths, NEW g,
         \A k, n : n \in PathNames => WalkIn(g, k, n) = Walk(k, n)
  PROVE  LedIn(g, path, OpenPath(path))
<1>1. /\ Len(path) \in Nat /\ path \in [1 .. Len(path) -> PathNames]
      /\ \E at : Opens(path, at) /\ OpenPath(path) = at[Len(path)]
  BY PathsAlwaysRun, Zenon DEF AllPathsRun
<1>2. PICK at : Opens(path, at) /\ OpenPath(path) = at[Len(path)]
  BY <1>1
<1>3. PICK len \in Nat : len = Len(path)
  BY <1>1
<1>4. \A k \in 1 .. len : path[k] \in PathNames
  BY <1>1, <1>3
<1>5. \A k \in 0 .. len : at[k] = IF k = 0 THEN Root ELSE Walk(at[k - 1], path[k])
  BY <1>2, <1>3 DEF Opens
<1>6. \A k \in 0 .. len : at[k] = IF k = 0 THEN Root ELSE WalkIn(g, at[k - 1], path[k])
  BY <1>4, <1>5
<1>. QED
  BY <1>2, <1>3, <1>6 DEF FollowsIn, LedIn

(* Through a directory that is empty, or gone, nothing leads anywhere.     *)
LEMMA EmptyWalks ==
  ASSUME NoDotsInPaths, NEW g, g.dirBlocks = dirBlocks, NEW t, t \in Inodes,
         \A k \in Inodes \ {t} : g.inodes[k] = inodes[k],
         g.inodes[t].kind = inodes[t].kind,
         g.inodes[t] = inodes[t] \/ g.inodes[t].len = 0, IsDir(t) => IsEmptyDir(t)
  PROVE  \A k, n : n \in PathNames => WalkIn(g, k, n) = Walk(k, n)
<1>. SUFFICES ASSUME NEW k, NEW n \in PathNames PROVE WalkIn(g, k, n) = Walk(k, n)
  OBVIOUS
<1>1. IsDirIn(g, k) <=> IsDir(k)
  BY DEF IsDirIn, IsDir
<1>2. CASE ~ IsDir(k)
  BY <1>1, <1>2 DEF WalkIn, Walk
<1>3. CASE IsDir(k) /\ k # t
  <2>1. g.inodes[k] = inodes[k]
    BY <1>3 DEF IsDir
  <2>2. EntriesIn(g, k) = DirEntries(inodes[k])
    BY <2>1 DEF EntriesIn, DirEntries
  <2>. QED
    BY <1>1, <1>3, <2>2 DEF WalkIn, Walk, LookupIn, Lookup
<1>4. CASE IsDir(k) /\ k = t
  <2>1. n \notin Dots
    BY DEF NoDotsInPaths
  <2>2. Called(DirEntries(inodes[t]), n) = {}
    BY <1>4, <2>1 DEF IsEmptyDir, Called
  <2>3. Called(EntriesIn(g, t), n) = {}
    <3>1. CASE g.inodes[t] = inodes[t]
      BY <2>2, <3>1 DEF EntriesIn, DirEntries
    <3>2. CASE g.inodes[t].len = 0
      BY <3>2 DEF EntriesIn, Called, Live
    <3>. QED
      BY <3>1, <3>2
  <2>. QED
    BY <1>1, <1>4, <2>2, <2>3 DEF WalkIn, Walk, LookupIn, Lookup
<1>. QED
  BY <1>2, <1>3, <1>4

LEMMA DeletedTwice ==
  ASSUME NEW r \in InodeType
  PROVE  /\ Deleted(Deleted(r)) = Deleted(r) /\ OwnRun(Deleted(r)) = {}
         /\ Deleted(r).kind = r.kind /\ Deleted(r).len = 0
<1>1. PICK e : e = Deleted(r)
  OBVIOUS
<1>2. e.links = 0 /\ e.size = 0 /\ e.start = 0 /\ e.len = 0 /\ e.kind = r.kind
  BY <1>1 DEF Deleted, InodeType
<1>3. e \in [kind : {r.kind}, links : {0}, size : {0}, start : {0}, len : {0}]
  BY <1>1 DEF Deleted, InodeType
<1>4. [e EXCEPT !.links = 0, !.size = 0, !.start = 0, !.len = 0] = e
  BY <1>2, <1>3
<1>. QED
  BY <1>1, <1>2, <1>4 DEF Deleted, OwnRun

LooksFind ==
  \A k \in DirRecs : \A n :
    \/ Lookup(k, n) = NoInode /\ \A e \in Block(k) : e.name # n
    \/ Refers(Block(k), n, Lookup(k, n))

LEMMA LookupsFind == NoDotsInPaths /\ IInv => LooksFind
<1>. SUFFICES ASSUME NoDotsInPaths, IInv PROVE LooksFind
  OBVIOUS
<1>. QED
  BY LookupFinds DEF LooksFind

(* When the entry is gone, paths lead where they led or nowhere.           *)
LEMMA LeafLooks ==
  ASSUME NoDotsInPaths, TreeIInv, TreeIInv', NEW d, NEW name, NEW t, Leaf(d, name, t)
  PROVE  /\ \A k, n : n \in PathNames => Walk(k, n)' \in {NoInode, Walk(k, n)}
         /\ Lookup(d, name)' = NoInode
<1>0. NoDotsInPaths /\ NoDotsInPaths' /\ IInv /\ IInv' /\ FreedBlank /\ FreedBlank'
  BY DEF TreeIInv, IInv, NoDotsInPaths
<1>1. /\ d \in DirRecs /\ name \in Names /\ t \in Usable /\ t # d /\ Refers(Block(d), name, t)
      /\ FreesInode(t) /\ dirBlocks' = WithoutEntry(d, t, name)
  BY DEF Leaf
<1>2. Usable \subseteq Inodes /\ DirRecs \subseteq Usable /\ t \in Inodes /\ t # Root
  BY <1>0, <1>1, UsableInodes, LeafNotRoot
<1>3. DirRecs' = DirRecs \ {t}
  BY <1>0, <1>1, <1>2, FreedOwns
<1>4. \A k \in DirRecs \ {t} : \A n, j :
        Refers(Block(k)', n, j) <=> Refers(Block(k), n, j) /\ ~ (k = d /\ n = name)
  <2>1. AllSound(dirBlocks) /\ \A k : At(dirBlocks, k) = Block(k)
    BY <1>0, InvIsSound DEF At, Block
  <2>2. dirBlocks' = RemovedAt(dirBlocks, d, t, name)
    BY <1>1 DEF WithoutEntry, RemovedAt
  <2>3. \A k \in DirRecs \ {t} : Block(k)' = At(dirBlocks', k)
    BY <1>1, <1>2 DEF Block, At, FreesInode
  <2>4. \A k \in DirRecs : \A n, j, f :
          Lists(At(RemovedAt(dirBlocks, d, t, name), k), n, j, f)
            <=> Lists(At(dirBlocks, k), n, j, f) /\ ~ (k = d /\ n = name)
    BY <1>0, <1>1, <1>2, <2>1, RemovedLists
  <2>5. \A k \in DirRecs \ {t} : \A n, j, f :
          Lists(Block(k)', n, j, f) <=> Lists(Block(k), n, j, f) /\ ~ (k = d /\ n = name)
    BY <2>1, <2>2, <2>3, <2>4
  <2>. QED
    BY <2>5, RefersLists
<1>5. \A k \in DirRecs : \A n : \/ /\ Lookup(k, n) = NoInode
                                     /\ \A e \in Block(k) : e.name # n
                                  \/ Refers(Block(k), n, Lookup(k, n))
  BY <1>0, LookupsFind DEF LooksFind
<1>6. \A k \in DirRecs' : \A n :
        Lookup(k, n)' = NoInode \/ Refers(Block(k)', n, Lookup(k, n)')
  <2>1. (NoDotsInPaths /\ IInv => LooksFind)'
    BY LookupsFind, PTL
  <2>. QED
    BY <1>0, <2>1 DEF LooksFind
<1>7. ASSUME NEW k \in DirRecs, k # t, NEW n
      PROVE  /\ Lookup(k, n)' \in {NoInode, Lookup(k, n)}
             /\ k = d /\ n = name => Lookup(k, n)' = NoInode
  <2>. SUFFICES ASSUME Lookup(k, n)' # NoInode
                PROVE  Lookup(k, n)' = Lookup(k, n) /\ ~ (k = d /\ n = name)
    OBVIOUS
  <2>1. Refers(Block(k), n, Lookup(k, n)') /\ ~ (k = d /\ n = name)
    BY <1>3, <1>4, <1>6, <1>7
  <2>2. Refers(Block(k), n, Lookup(k, n))
    BY <1>5, <2>1 DEF Refers
  <2>3. \A e, f \in Block(k) : e.name = f.name => e = f
    BY <1>0 DEF IInv, DirsSound, DirectoryBlock, Sound
  <2>. QED
    BY <2>1, <2>2, <2>3 DEF Refers
<1>8. ASSUME NEW k, NEW n PROVE Walk(k, n)' \in {NoInode, Walk(k, n)}
  <2>1. IsDir(k)' <=> IsDir(k)
    BY <1>1 DEF IsDir, FreesInode
  <2>2. CASE ~ IsDir(k)
    BY <2>1, <2>2 DEF Walk
  <2>3. CASE IsDir(k) /\ k \in DirRecs /\ k # t
    BY <1>7, <2>1, <2>3 DEF Walk
  <2>4. CASE IsDir(k) /\ ~ (k \in DirRecs /\ k # t)
    <3>1. k \in Inodes /\ inodes[k].kind = "dir"
      BY <2>4 DEF IsDir
    <3>2. inodes'[k].len = 0
      <4>1. CASE k = t
        BY <1>1, <4>1 DEF FreesInode
      <4>2. CASE k # t
        <5>1. inodes[k].len \in Nat
          BY <1>0, <3>1, InodeFields DEF IInv
        <5>2. inodes[k].len = 0
          BY <1>0, <2>4, <3>1, <4>2, <5>1 DEF FreedBlank, DirRecs
        <5>. QED
          BY <1>1, <3>1, <4>2, <5>2 DEF FreesInode
      <4>. QED
        BY <4>1, <4>2
    <3>3. Lookup(k, n)' = NoInode
      BY <3>2 DEF Lookup, DirEntries, Called, Live
    <3>. QED
      BY <3>3 DEF Walk
  <2>. QED
    BY <2>2, <2>3, <2>4
<1>. QED
  BY <1>1, <1>7, <1>8

(* What a step leads to is consistent, as it was before.                   *)
LEMMA GoalConsistent ==
  NoDotsInPaths /\ TreeIInv' => ConsistentIn(Goal')
<1>. SUFFICES ASSUME NoDotsInPaths, TreeIInv' PROVE ConsistentIn(Goal')
  OBVIOUS
<1>1. (NoDotsInPaths /\ TreeIInv => Consistent /\ Closed(Usable))'
  BY TreeConsistent, PTL
<1>2. Consistent'
  BY <1>1 DEF NoDotsInPaths
<1>3. PICK h : h = Goal'
  OBVIOUS
<1>4. Describes(h)'
  BY <1>3 DEF Describes, Goal
<1>. QED
  BY <1>2, <1>3, <1>4, ConsistentAfter DEF DescribedAlike

LEMMA RemoveIsLeft ==
  ASSUME NoDotsInPaths, TreeIInv, TreeIInv', NEW path \in Paths, NEW name \in PathNames,
         NEW op, NEW d, d = OpenPath(path), NEW t, Removing(op, d, name, t),
         NEW g, g.dirBlocks = dirBlocks, g.inodes = OnInodes(g.inodes),
         \A k \in Inodes \ {t} : g.inodes[k] = inodes[k],
         \/ g.inodes[t] = inodes[t] /\ g.blockBitmap \in {blockBitmap, blockBitmap'}
         \/ g.inodes[t] = Deleted(inodes[t]) /\ g.blockBitmap = blockBitmap',
         g.inodeBitmap \in {inodeBitmap, inodeBitmap'}
  PROVE  RemovalLeft(g, op, path, name)
<1>0. inodes \in [Inodes -> InodeType]
  BY DEF TreeIInv, IInv, TypeOK
<1>1. /\ d \in DirRecs /\ t \in Usable /\ t # d /\ t # Root /\ FreesInode(t)
      /\ dirBlocks' = WithoutEntry(d, t, name) /\ t = Lookup(d, name)
      /\ (op = "rmdir" <=> IsDir(t)) /\ (IsDir(t) => IsEmptyDir(t))
      /\ inodes' = RowsWithout(inodes, op, d, t)
  BY LeafNotRoot DEF Removing, Leaf
<1>2. d \in Inodes /\ t \in Inodes /\ IsDir(d)
  BY <1>1, UsableInodes DEF TreeIInv, DirRecs, IsDir
<1>3. /\ g.inodes[t].kind = inodes[t].kind
      /\ g.inodes[t] = inodes[t] \/ g.inodes[t].len = 0
      /\ Deleted(g.inodes[t]) = Deleted(inodes[t])
      /\ g.blockBitmap \ OwnRun(g.inodes[t]) = blockBitmap'
  <2>1. blockBitmap' = blockBitmap \ OwnRun(inodes[t])
    BY <1>1 DEF FreesInode
  <2>2. PICK r \in InodeType : r = inodes[t]
    BY <1>0, <1>2
  <2>. QED
    BY <2>1, <2>2, DeletedTwice
<1>4. LedIn(g, path, d)
  <2>1. \A k, n : n \in PathNames => WalkIn(g, k, n) = Walk(k, n)
    BY <1>1, <1>2, <1>3, EmptyWalks
  <2>. QED
    BY <2>1, PathsAreFull, SameLed
<1>5. IsDirIn(g, d) /\ LookupIn(g, d, name) = t
  <2>1. g.inodes[d] = inodes[d]
    BY <1>1, <1>2
  <2>2. EntriesIn(g, d) = DirEntries(inodes[d])
    BY <2>1 DEF EntriesIn, DirEntries
  <2>. QED
    BY <1>1, <1>2, <2>1, <2>2 DEF IsDirIn, IsDir, LookupIn, Lookup
<1>6. MayRemove(g, op, t)
  <2>1. IsDirIn(g, t) <=> IsDir(t)
    BY <1>3 DEF IsDirIn, IsDir
  <2>2. IsDir(t) => \A e \in Live(EntriesIn(g, t)) : e.name \in Dots
    <3>1. CASE g.inodes[t] = inodes[t]
      BY <1>1, <3>1 DEF IsEmptyDir, EntriesIn, DirEntries
    <3>2. CASE g.inodes[t].len = 0
      BY <3>2 DEF EntriesIn, Live
    <3>. QED
      BY <1>3, <3>1, <3>2
  <2>. QED
    BY <1>1, <1>2, <2>1, <2>2 DEF MayRemove
<1>7. PICK h : h = Goal'
  OBVIOUS
<1>8. /\ h.blockBitmap = blockBitmap' /\ h.inodeBitmap = inodeBitmap'
      /\ h.inodes = inodes' /\ h.dirBlocks = dirBlocks'
  BY <1>7 DEF Goal
<1>9. RowsWithout(g.inodes, op, d, t) = RowsWithout(inodes, op, d, t)
  <2>0. /\ g.inodes = [k \in Inodes |-> g.inodes[k]] /\ inodes = [k \in Inodes |-> inodes[k]]
        /\ DOMAIN g.inodes = Inodes
    <3>1. DOMAIN OnInodes(g.inodes) = Inodes
      BY DEF OnInodes
    <3>. QED
      BY <1>0, <3>1 DEF OnInodes
  <2>1. PICK r, p : r = Deleted(inodes[t]) /\ p = [inodes[d] EXCEPT !.links = SatSub(@, 1)]
    OBVIOUS
  <2>2. g.inodes[d] = inodes[d]
    BY <1>1, <1>2
  <2>3. [g.inodes EXCEPT ![t] = r] = [inodes EXCEPT ![t] = r]
    BY <2>0
  <2>4. [[g.inodes EXCEPT ![t] = r] EXCEPT ![d] = p] = [[inodes EXCEPT ![t] = r] EXCEPT ![d] = p]
    BY <2>3
  <2>5. /\ RowsWithout(g.inodes, op, d, t)
             = IF op = "rmdir" THEN [g.inodes EXCEPT ![t] = r, ![d] = p]
                               ELSE [g.inodes EXCEPT ![t] = r]
        /\ RowsWithout(inodes, op, d, t)
             = IF op = "rmdir" THEN [inodes EXCEPT ![t] = r, ![d] = p]
                               ELSE [inodes EXCEPT ![t] = r]
    BY <1>3, <2>1, <2>2 DEF RowsWithout
  <2>. QED
    BY <2>3, <2>4, <2>5
<1>10. RemovedFrom(g, h, op, d, t, name)
  <2>1. h.dirBlocks = [g.dirBlocks EXCEPT ![g.inodes[d].start] = Remove(@, t, name)]
    BY <1>1, <1>2, <1>8 DEF WithoutEntry
  <2>2. h.inodeBitmap = g.inodeBitmap \ {t}
    BY <1>1, <1>8 DEF FreesInode
  <2>. QED
    BY <1>1, <1>3, <1>8, <1>9, <2>1, <2>2 DEF RemovedFrom
<1>11. ConsistentIn(h)
  BY <1>7, GoalConsistent
<1>. QED
  BY <1>4, <1>5, <1>6, <1>10, <1>11 DEF RemovalLeft

LEMMA RemoveIsDone ==
  ASSUME NoDotsInPaths, TreeIInv, TreeIInv', NEW path \in Paths, NEW name \in PathNames,
         NEW op, NEW d, d = OpenPath(path), NEW t, Removing(op, d, name, t),
         NEW g, g.dirBlocks = dirBlocks', g.blockBitmap = blockBitmap',
         g.inodeBitmap = inodeBitmap',
         \A k \in Inodes : /\ SameRow(g.inodes[k], inodes'[k])
                           /\ inodes'[k].links > 0 => g.inodes[k].links > 0
  PROVE  RemovalDone(g, path, name)
<1>1. /\ \A k, n : n \in PathNames => Walk(k, n)' \in {NoInode, Walk(k, n)}
      /\ Lookup(d, name)' = NoInode /\ d \in DirRecs /\ d \in Inodes
  BY LeafLooks, UsableInodes DEF Removing, Leaf, TreeIInv
<1>2. \A k \in Inodes : EntriesIn(g, k) = DirEntries(inodes[k])'
  BY DEF SameRow, EntriesIn, DirEntries
<1>3. \A k \in Inodes : \A n : LookupIn(g, k, n) = Lookup(k, n)'
  BY <1>2 DEF LookupIn, Lookup
<1>4. \A k, n : WalkIn(g, k, n) = Walk(k, n)'
  BY <1>3 DEF WalkIn, Walk, IsDirIn, IsDir, SameRow
<1>5. ConsistentIn(g)
  <2>1. Usable' \subseteq Inodes /\ inodeBitmap' \subseteq Inodes
    BY ReachedMarkedAfter DEF AllMarked
  <2>2. Resembles(g)'
    BY <2>1 DEF Resembles, SameRows
  <2>. QED
    BY <2>2, ResemblingAfter DEF ResemblesWell
<1>6. ASSUME NEW i, LedIn(g, path, i), IsDirIn(g, i) PROVE LookupIn(g, i, name) = NoInode
  <2>1. PICK h : h = Goal
    OBVIOUS
  <2>2. Describes(h)
    BY <2>1 DEF Describes, Goal
  <2>3. LedIn(h, path, d)
    BY <2>2, OpenPathLed, PathsAreFull DEF PathsLed
  <2>4. \A k, n : WalkIn(h, k, n) = Walk(k, n)
    BY <2>2, VariablesAre DEF Describes, WalkIn, Walk
  <2>5. \A k, n : n \in PathNames => WalkIn(g, k, n) \in {NoInode, WalkIn(h, k, n)}
    BY <1>1, <1>4, <2>4
  <2>6. path \in FullPaths
    BY PathsAreFull
  <2>7. i \in {NoInode, d}
    BY <1>6, <2>3, <2>5, <2>6, LedAlong
  <2>8. i = d
    BY <1>6, <2>7, Constants DEF IsDirIn, NoInode
  <2>. QED
    BY <1>1, <1>3, <2>8
<1>. QED
  BY <1>5, <1>6 DEF RemovalDone

LEMMA RemoveMends ==
  ASSUME NoDotsInPaths, TreeIInv, TreeIInv', NEW path \in Paths, NEW name \in PathNames,
         NEW op, NEW d, d = OpenPath(path), NEW t, Removing(op, d, name, t),
         RemoveEdited(d, t)
  PROVE  \A g \in RemoveImages(t) :
           RemovalLeft(g, op, path, name) \/ RemovalDone(g, path, name)
<1>0. /\ Whole(inodes, dirBlocks) /\ DOMAIN inodes = Inodes /\ inodes = OnInodes(inodes)
      /\ inodes \in [Inodes -> InodeType]
  BY WholeDomains DEF RemoveEdited, Edits, Whole, TreeIInv, IInv, TypeOK
<1>1. /\ d \in Inodes /\ t \in Inodes /\ t # d /\ FreesInode(t)
      /\ inodes' = RowsWithout(inodes, op, d, t)
  BY UsableInodes DEF Removing, Leaf, TreeIInv
<1>2. /\ inodes'[t] = Deleted(inodes[t]) /\ inodes' \in [Inodes -> InodeType]
      /\ \A k \in Inodes \ {t, d} : inodes'[k] = inodes[k]
      /\ inodes'[d].links > 0 => inodes[d].links > 0
  <2>0. inodes' \in [Inodes -> InodeType]
    BY <1>1 DEF FreesInode
  <2>1. CASE op = "rmdir"
    <3>1. PICK p : p = [inodes[d] EXCEPT !.links = SatSub(@, 1)]
      OBVIOUS
    <3>2. inodes' = [inodes EXCEPT ![t] = Deleted(@), ![d] = p]
      BY <1>1, <2>1, <3>1 DEF RowsWithout
    <3>3. /\ inodes'[t] = Deleted(inodes[t]) /\ inodes'[d] = p
          /\ \A k \in Inodes \ {t, d} : inodes'[k] = inodes[k]
      BY <1>0, <1>1, <3>2
    <3>4. PICK r \in InodeType : r = inodes[d]
      BY <1>0, <1>1
    <3>5. p.links > 0 => r.links > 0
      BY <3>1, <3>4 DEF SatSub, InodeType
    <3>. QED
      BY <2>0, <3>3, <3>4, <3>5
  <2>2. CASE op # "rmdir"
    <3>1. inodes' = [inodes EXCEPT ![t] = Deleted(@)]
      BY <1>1, <2>2 DEF RowsWithout
    <3>2. inodes'[t] = Deleted(inodes[t]) /\ \A k \in Inodes \ {t} : inodes'[k] = inodes[k]
      BY <1>0, <1>1, <3>1
    <3>. QED
      BY <1>1, <2>0, <3>2
  <2>. QED
    BY <2>1, <2>2
<1>. DEFINE ino == Set(inodes, inodes', {t})
<1>3. /\ ino[t] = inodes'[t] /\ \A k \in Inodes \ {t} : ino[k] = inodes[k]
      /\ ino = OnInodes(ino)
  BY <1>0, <1>1 DEF Set, OnInodes
<1>. HIDE DEF ino
<1>4. \A r : SameRow(r, r)
  BY DEF SameRow
<1>5. \A k \in Inodes : SameRow(ino[k], inodes'[k])
  <2>1. ASSUME NEW k \in Inodes \ {t} PROVE SameRow(ino[k], inodes'[k])
    BY <1>1, <1>3, <2>1 DEF FreesInode, SameRow
  <2>. QED
    BY <1>3, <1>4, <2>1
<1>6. \A k \in Inodes : inodes'[k].links > 0 => ino[k].links > 0
  BY <1>1, <1>2, <1>3
<1>7. ASSUME NEW g, g.dirBlocks = dirBlocks, g.inodeBitmap \in {inodeBitmap, inodeBitmap'},
             \/ g.inodes = inodes /\ g.blockBitmap \in {blockBitmap, blockBitmap'}
             \/ g.inodes = ino /\ g.blockBitmap = blockBitmap'
      PROVE  RemovalLeft(g, op, path, name)
  <2>1. /\ g.inodes = OnInodes(g.inodes)
        /\ \A k \in Inodes \ {t} : g.inodes[k] = inodes[k]
        /\ \/ g.inodes[t] = inodes[t] /\ g.blockBitmap \in {blockBitmap, blockBitmap'}
           \/ g.inodes[t] = Deleted(inodes[t]) /\ g.blockBitmap = blockBitmap'
    BY <1>0, <1>2, <1>3, <1>7
  <2>. QED
    BY <1>7, <2>1, RemoveIsLeft
<1>8. ASSUME NEW g, g.dirBlocks = dirBlocks', g.inodeBitmap = inodeBitmap',
             g.blockBitmap = blockBitmap', g.inodes \in {ino, inodes'}
      PROVE  RemovalDone(g, path, name)
  <2>1. \A k \in Inodes : /\ SameRow(g.inodes[k], inodes'[k])
                          /\ inodes'[k].links > 0 => g.inodes[k].links > 0
    BY <1>4, <1>5, <1>6, <1>8
  <2>. QED
    BY <1>8, <2>1, RemoveIsDone
<1>9. ASSUME NEW g \in RemoveImages(t)
      PROVE  \/ /\ g.dirBlocks = dirBlocks /\ g.inodeBitmap \in {inodeBitmap, inodeBitmap'}
                /\ \/ g.inodes = inodes /\ g.blockBitmap \in {blockBitmap, blockBitmap'}
                   \/ g.inodes = ino /\ g.blockBitmap = blockBitmap'
             \/ /\ g.dirBlocks = dirBlocks' /\ g.inodeBitmap = inodeBitmap'
                /\ g.blockBitmap = blockBitmap' /\ g.inodes \in {ino, inodes'}
  BY DEF RemoveImages, Device, ino
<1>. QED
  BY <1>7, <1>8, <1>9

-----------------------------------------------------------------------------
(* truncate made again.                                                    *)
ResizedFrom(g, h, i, size) ==
  LET rec == g.inodes[i]
      kept == CeilDiv(size, BlockSize)
  IN
  /\ h.inodeBitmap = g.inodeBitmap /\ h.dirBlocks = g.dirBlocks
  /\ \/ /\ size > rec.size
        /\ size <= IF rec.size > 0 THEN rec.len * BlockSize ELSE 0
        /\ h.inodes = [g.inodes EXCEPT ![i].size = size]
        /\ h.blockBitmap = g.blockBitmap
     \/ /\ size < rec.size
        /\ h.inodes = [g.inodes EXCEPT ![i].size = size, ![i].len = kept,
                                       ![i].start = IF kept = 0 THEN 0 ELSE @]
        /\ h.blockBitmap = g.blockBitmap \
             (RunBits(rec.start, rec.len) \ RunBits(rec.start, kept))

ResizeLeft(g, path, size) ==
  \E i, h : /\ LedIn(g, path, i) /\ i \in Inodes /\ g.inodes[i].kind = "reg"
            /\ ResizedFrom(g, h, i, size) /\ ConsistentIn(h)

ResizeDone(g, path, size) ==
  /\ ConsistentIn(g)
  /\ \A i : LedIn(g, path, i) /\ i \in Inodes => g.inodes[i].size = size

LEMMA SameDirsLed ==
  ASSUME NoDotsInPaths, NEW path \in FullPaths, NEW g,
         g.inodes = inodes, g.dirBlocks = dirBlocks
  PROVE  LedIn(g, path, OpenPath(path))
<1>1. \A k : EntriesIn(g, k) = DirEntries(inodes[k])
  BY DEF EntriesIn, DirEntries
<1>2. \A k, n : WalkIn(g, k, n) = Walk(k, n)
  BY <1>1 DEF WalkIn, Walk, IsDirIn, IsDir, LookupIn, Lookup
<1>. QED
  BY <1>2, SameLed

LEMMA TruncateMends ==
  ASSUME NoDotsInPaths, TreeIInv, TreeIInv', NEW path \in FullPaths, NEW size,
         Truncate(path, size), NEW i, i = OpenPath(path), OpenPath(path)' = i
  PROVE  \/ Goal' = Goal
         \/ \A g \in ResizeImages : ResizeLeft(g, path, size) \/ ResizeDone(g, path, size)
<1>1. CASE Refuse \/ (outcome' = "same" /\ UNCHANGED <<disk, diskCounts, counts>>)
  BY <1>1, StillGoal DEF Refuse
<1>2. CASE ~ (Refuse \/ (outcome' = "same" /\ UNCHANGED <<disk, diskCounts, counts>>))
  <2>1. i \in Inodes /\ inodes[i].kind = "reg" /\ (Grow(i, size) \/ Shrink(i, size))
    BY <1>2 DEF Truncate
  <2>2. PICK h : h = Goal'
    OBVIOUS
  <2>3. /\ h.blockBitmap = blockBitmap' /\ h.inodeBitmap = inodeBitmap'
        /\ h.inodes = inodes' /\ h.dirBlocks = dirBlocks' /\ ConsistentIn(h)
    BY <2>2, GoalConsistent DEF Goal
  <2>4. ASSUME NEW g, g.inodes = inodes, g.dirBlocks = dirBlocks,
               g.inodeBitmap = inodeBitmap, g.blockBitmap \in {blockBitmap, blockBitmap'}
        PROVE  ResizeLeft(g, path, size)
    <3>1. LedIn(g, path, i)
      BY <2>4, SameDirsLed
    <3>2. ResizedFrom(g, h, i, size)
      <4>1. CASE Grow(i, size)
        <5>1. /\ size > inodes[i].size
              /\ size <= IF inodes[i].size > 0 THEN inodes[i].len * BlockSize ELSE 0
              /\ inodes' = [inodes EXCEPT ![i].size = size]
              /\ UNCHANGED <<blockBitmap, inodeBitmap, dirBlocks>>
          BY <1>2, <4>1 DEF Grow
        <5>. QED
          BY <2>3, <2>4, <5>1 DEF ResizedFrom
      <4>2. CASE Shrink(i, size)
        <5>1. PICK kept : kept = CeilDiv(size, BlockSize)
          OBVIOUS
        <5>2. PICK tail : tail = RunBits(inodes[i].start, inodes[i].len)
                                   \ RunBits(inodes[i].start, kept)
          OBVIOUS
        <5>3. /\ size < inodes[i].size
              /\ inodes' = [inodes EXCEPT ![i].size = size, ![i].len = kept,
                                          ![i].start = IF kept = 0 THEN 0 ELSE @]
              /\ blockBitmap' = blockBitmap \ tail
              /\ UNCHANGED <<inodeBitmap, dirBlocks>>
          BY <4>2, <5>1, <5>2 DEF Shrink
        <5>4. h.blockBitmap = g.blockBitmap \ tail
          BY <2>3, <2>4, <5>3
        <5>. QED
          BY <2>3, <2>4, <5>1, <5>2, <5>3, <5>4 DEF ResizedFrom
      <4>. QED
        BY <2>1, <4>1, <4>2
    <3>. QED
      BY <2>1, <2>3, <2>4, <3>1, <3>2 DEF ResizeLeft
  <2>5. ASSUME NEW g, g.inodes = inodes', g.dirBlocks = dirBlocks',
               g.inodeBitmap = inodeBitmap', g.blockBitmap = blockBitmap'
        PROVE  ResizeDone(g, path, size)
    <3>1. Describes(g)'
      BY <2>5 DEF Describes
    <3>2. ConsistentIn(g)
      <4>1. (NoDotsInPaths /\ TreeIInv => Consistent /\ Closed(Usable))'
        BY TreeConsistent, PTL
      <4>. QED
        BY <3>1, <4>1, ConsistentAfter DEF NoDotsInPaths, DescribedAlike
    <3>3. \A j : LedIn(g, path, j) => j = i
      BY <3>1, OpenPathLedAfter DEF PathsLed
    <3>4. inodes'[i].size = size
      <4>1. inodes[i] \in InodeType /\ inodes \in [Inodes -> InodeType]
        BY <2>1 DEF TreeIInv, IInv, TypeOK
      <4>2. CASE Grow(i, size)
        <5>1. inodes' = [inodes EXCEPT ![i].size = size]
          BY <1>2, <4>2 DEF Grow
        <5>. QED
          BY <2>1, <4>1, <5>1 DEF InodeType
      <4>3. CASE Shrink(i, size)
        <5>1. PICK kept : kept = CeilDiv(size, BlockSize)
          OBVIOUS
        <5>2. inodes' = [inodes EXCEPT ![i].size = size, ![i].len = kept,
                                       ![i].start = IF kept = 0 THEN 0 ELSE @]
          BY <4>3, <5>1 DEF Shrink
        <5>. QED
          BY <2>1, <4>1, <5>2 DEF InodeType
      <4>. QED
        BY <2>1, <4>2, <4>3
    <3>. QED
      BY <2>5, <3>2, <3>3, <3>4 DEF ResizeDone
  <2>6. ASSUME NEW g \in ResizeImages
        PROVE  \/ /\ g.inodes = inodes /\ g.dirBlocks = dirBlocks /\ g.inodeBitmap = inodeBitmap
                  /\ g.blockBitmap \in {blockBitmap, blockBitmap'}
               \/ /\ g.inodes = inodes' /\ g.dirBlocks = dirBlocks'
                  /\ g.inodeBitmap = inodeBitmap' /\ g.blockBitmap = blockBitmap'
    BY DEF ResizeImages, Device
  <2>. QED
    BY <2>4, <2>5, <2>6
<1>. QED
  BY <1>1, <1>2

-----------------------------------------------------------------------------
(* An image that the call c, made again, mends; after create_file, mkdir   *)
(* and symlink no call is made again.                                      *)
Removals == {"unlink", "rmdir"}

MendedBy(g, c) ==
  /\ c.op \in {"insert", "unlink", "rmdir", "truncate", "rename"}
  /\ c.op = "insert" => ConsistentIn(g)
  /\ c.op \in Removals =>
       RemovalLeft(g, c.op, c.path, c.name) \/ RemovalDone(g, c.path, c.name)
  /\ c.op = "truncate" =>
       /\ g.inodes \in [Inodes -> InodeType]
       /\ ResizeLeft(g, c.path, c.size) \/ ResizeDone(g, c.path, c.size)

CourseMends == \E G : Passes(image, todo, G, Goal) /\ \A g \in G : MendedBy(g, call)

LEMMA CallMends ==
  ASSUME CourseHolds, Idle, NEW c, Calls(c), NEW course, Issue(course), NEW G,
         \/ Goal' = Goal
         \/ Passes(Goal, course, G, Goal') /\ \A g \in G : MendedBy(g, c)
  PROVE  (Idle \/ CourseMends)'
<1>1. image = Goal /\ image' = image
  BY IdleHolds DEF Calls
<1>2. CASE Goal' = Goal \/ todo' = <<>>
  BY <1>2 DEF Issue, Idle
<1>3. CASE ~ (Goal' = Goal \/ todo' = <<>>)
  <2>1. todo' = Pending(image, course)
    BY <1>3 DEF Issue
  <2>2. Passes(image, Pending(image, course), G, Goal')
    BY <1>1, <1>3, PassesPending
  <2>3. call' = c
    BY <1>3 DEF Calls
  <2>4. Passes(image', todo', G, Goal') /\ \A g \in G : MendedBy(g, call')
    BY <1>1, <1>3, <2>1, <2>2, <2>3
  <2>. QED
    BY <2>4 DEF CourseMends
<1>. QED
  BY <1>2, <1>3

LEMMA InsertCallIsFresh ==
  ASSUME NoDotsInPaths, TreeIInv, NEW path \in Paths, NEW name, InsertStep(path, name),
         NEW d, d = OpenPath(path)
  PROVE  /\ Goal' = Goal \/ (d \in DirRecs /\ InsertFresh)
         /\ \E kind, links, size, n : Insert(d, name, kind, links, size, n) \/ Refuse
<1>1. \A size \in FileSizes : CeilDiv(size, BlockSize) \in Nat
  BY FilesystemAssumption, DirBlockAssumption DEF CeilDiv
<1>2. Refuse \/ \E kind, links, size : \E n \in Nat : Insert(d, name, kind, links, size, n)
  BY <1>1 DEF InsertStep, Mkdir, CreateFile, Symlink
<1>3. CASE Refuse
  BY <1>3, StillGoal DEF Refuse
<1>4. ASSUME NEW kind, NEW links, NEW size, NEW n \in Nat,
             Insert(d, name, kind, links, size, n)
      PROVE  Goal' = Goal \/ (d \in DirRecs /\ InsertFresh)
  BY <1>4, InsertIsFresh
<1>. QED
  BY <1>2, <1>3, <1>4

LEMMA InsertStepMends ==
  ASSUME NoDotsInPaths, TreeIInv, TreeIInv', OnlyDirsName, CourseHolds, Idle,
         NEW path \in Paths, NEW name, InsertStep(path, name)
  PROVE  (Idle \/ CourseMends)' /\ OnlyDirsName'
<1>1. PICK d : d = OpenPath(path)
  OBVIOUS
<1>2. PICK c : c = [op |-> "insert"]
  OBVIOUS
<1>3. Issue(InsertCourse(d)) /\ Calls(c) /\ Whole(inodes, dirBlocks)
  BY <1>1, <1>2, IdleHolds DEF InsertStep
<1>4. /\ Goal' = Goal \/ (d \in DirRecs /\ InsertFresh)
      /\ \E kind, links, size, n : Insert(d, name, kind, links, size, n) \/ Refuse
  BY <1>1, InsertCallIsFresh
<1>5. Goal' = Goal \/ (InsertEdited(d) /\ InsertKept)
  BY <1>3, <1>4, InsertEdits, InsertKeeps, StillGoal DEF Refuse
<1>6. PICK G : G = InsertImages(d, NewInodes, NewBlocks)
  OBVIOUS
<1>7. \A g : ConsistentIn(g) => MendedBy(g, c)
  BY <1>2 DEF MendedBy, Removals
<1>8. \/ Goal' = Goal
      \/ Passes(Goal, InsertCourse(d), G, Goal') /\ \A g \in G : MendedBy(g, c)
  BY <1>4, <1>5, <1>6, <1>7, InsertDevices, InsertIsConsistent
<1>9. OnlyDirsName'
  BY <1>4, <1>5, InsertNames, GoalStays, StillNames
<1>. QED
  BY <1>3, <1>8, <1>9, CallMends

LEMMA RemoveStepMends ==
  ASSUME NoDotsInPaths, TreeIInv, TreeIInv', OnlyDirsName, CourseHolds, Idle,
         NEW path \in Paths, NEW name \in PathNames, RemoveStep(path, name)
  PROVE  (Idle \/ CourseMends)' /\ OnlyDirsName'
<1>1. PICK d : d = OpenPath(path)
  OBVIOUS
<1>2. PICK t : t = Found(d, name)
  OBVIOUS
<1>3. t = IF IsDir(d) THEN Lookup(d, name) ELSE NoInode
  BY <1>2 DEF Found
<1>4. PICK op : /\ \/ op = "unlink" /\ Unlink(path, name)
                   \/ op = "rmdir" /\ Rmdir(path, name)
                /\ Calls([op |-> op, path |-> path, name |-> name])
                /\ Issue(RemoveCourse(d, t))
  BY <1>1, <1>3 DEF RemoveStep
<1>5. PICK c : c = [op |-> op, path |-> path, name |-> name]
  OBVIOUS
<1>6. Whole(inodes, dirBlocks)
  BY IdleHolds
<1>7. Goal' = Goal \/ RemoveEdited(d, t)
  BY <1>1, <1>3, <1>4, <1>6, UnlinkEdits, RmdirEdits
<1>8. Goal' = Goal \/ Removing(op, d, name, t)
  BY <1>1, <1>2, <1>4, CallRemoves
<1>9. \A g : RemovalLeft(g, op, path, name) \/ RemovalDone(g, path, name) => MendedBy(g, c)
  BY <1>4, <1>5 DEF MendedBy, Removals
<1>10. PICK G : G = RemoveImages(t)
  OBVIOUS
<1>11. \/ Goal' = Goal
       \/ Passes(Goal, RemoveCourse(d, t), G, Goal') /\ \A g \in G : MendedBy(g, c)
  BY <1>1, <1>7, <1>8, <1>9, <1>10, RemoveDevices, RemoveMends
<1>12. OnlyDirsName'
  <2>1. CASE Goal' = Goal
    BY <2>1, GoalStays, StillNames
  <2>2. CASE Goal' # Goal
    <3>1. Leaf(d, name, t) /\ t # Root /\ RemoveEdited(d, t)
      BY <1>7, <1>8, <2>2, LeafNotRoot DEF Removing
    <3>. QED
      BY <3>1, RemoveNames
  <2>. QED
    BY <2>1, <2>2
<1>. QED
  BY <1>4, <1>5, <1>11, <1>12, CallMends

LEMMA MoveStepMends ==
  ASSUME NoDotsInPaths, ~ SubtreeMoves, TreeIInv, TreeIInv', OnlyDirsName, CourseHolds, Idle,
         NEW oldPath \in Paths, NEW oldName \in PathNames,
         NEW newPath \in Paths, NEW newName \in PathNames,
         MoveStep(oldPath, oldName, newPath, newName)
  PROVE  (Idle \/ CourseMends)' /\ OnlyDirsName'
<1>1. PICK d1, d2 : d1 = OpenPath(oldPath) /\ d2 = OpenPath(newPath)
  OBVIOUS
<1>2. PICK s, t : s = Found(d1, oldName) /\ t = Found(d2, newName)
  OBVIOUS
<1>3. /\ s = IF IsDir(d1) THEN Lookup(d1, oldName) ELSE NoInode
      /\ t = IF IsDir(d2) THEN Lookup(d2, newName) ELSE NoInode
  BY <1>2 DEF Found
<1>4. PICK c : c = [op |-> "rename"]
  OBVIOUS
<1>5. /\ Rename(oldPath, oldName, newPath, newName)
      /\ Calls(c) /\ Issue(MoveCourse(s, d1, oldName, d2, t, newName))
      /\ Whole(inodes, dirBlocks)
  BY <1>1, <1>3, <1>4, IdleHolds DEF MoveStep
<1>6. PICK u : u = AfterUnlink(d2, t, newName)
  OBVIOUS
<1>7. PICK a : a = AddedBlocks(u, s, d2, newName)
  OBVIOUS
<1>8. PICK r : r = RemovedBlocks(u, a, s, d1, oldName)
  OBVIOUS
<1>9. Goal' = Goal \/ MoveEdited(s, d1, d2, t, u, a, r)
  BY <1>1, <1>3, <1>5, <1>6, <1>7, <1>8, MoveEdits
<1>10. \A g : MendedBy(g, c)
  BY <1>4 DEF MendedBy, Removals
<1>11. PICK G : G = MoveImages(d1, t, u, a, r)
  OBVIOUS
<1>12. \/ Goal' = Goal
       \/ /\ Passes(Goal, MoveCourse(s, d1, oldName, d2, t, newName), G, Goal')
          /\ \A g \in G : MendedBy(g, c)
  BY <1>6, <1>7, <1>8, <1>9, <1>10, <1>11, MoveDevices
<1>13. OnlyDirsName'
  <2>1. \/ Refuse \/ (outcome' = "same" /\ UNCHANGED <<disk, diskCounts, counts>>)
        \/ Renames(d1, s, oldName, d2, t, newName) /\ MoveFull(s, d2, t, newName)
        \/ Moving(s, d1, oldName, d2, t, newName)
    BY <1>1, <1>2, <1>5, RenameMoves
  <2>2. CASE Refuse \/ (outcome' = "same" /\ UNCHANGED <<disk, diskCounts, counts>>)
    BY <2>2, StillNames DEF Refuse
  <2>3. CASE Renames(d1, s, oldName, d2, t, newName) /\ MoveFull(s, d2, t, newName)
    BY <2>3, MoveNames
  <2>4. CASE Moving(s, d1, oldName, d2, t, newName)
    BY <2>4, MoveNames DEF Moving
  <2>. QED
    BY <2>1, <2>2, <2>3, <2>4
<1>. QED
  BY <1>5, <1>12, <1>13, CallMends

LEMMA ResizeStepMends ==
  ASSUME NoDotsInPaths, TreeIInv, TreeIInv', OnlyDirsName, CourseHolds, Idle,
         NEW path \in FullPaths, NEW size, ResizeStep(path, size)
  PROVE  (Idle \/ CourseMends)' /\ OnlyDirsName'
<1>1. PICK i : i = OpenPath(path)
  OBVIOUS
<1>2. PICK c : c = [op |-> "truncate", path |-> path, size |-> size]
  OBVIOUS
<1>3. /\ Truncate(path, size) /\ Calls(c) /\ Issue(ResizeCourse(i))
      /\ Whole(inodes, dirBlocks)
  BY <1>1, <1>2, IdleHolds DEF ResizeStep
<1>4. \/ Goal' = Goal
      \/ inodeBitmap' = inodeBitmap /\ Edits(inodes, inodes', {i}, dirBlocks, dirBlocks', {})
  BY <1>1, <1>3, TruncateEdits
<1>5. Goal' = Goal \/ OpenPath(path)' = i
  BY <1>1, <1>3, TruncateResizes
<1>6. PICK G : G = ResizeImages
  OBVIOUS
<1>7. \A g \in G : ResizeLeft(g, path, size) \/ ResizeDone(g, path, size) => MendedBy(g, c)
  <2>1. inodes \in [Inodes -> InodeType] /\ inodes' \in [Inodes -> InodeType]
    BY DEF TreeIInv, IInv, TypeOK
  <2>2. \A g \in G : g.inodes \in [Inodes -> InodeType]
    BY <1>6, <2>1 DEF ResizeImages, Device
  <2>. QED
    BY <1>2, <2>2 DEF MendedBy, Removals
<1>8. \/ Goal' = Goal
      \/ Passes(Goal, ResizeCourse(i), G, Goal') /\ \A g \in G : MendedBy(g, c)
  BY <1>1, <1>3, <1>4, <1>5, <1>6, <1>7, ResizeDevices, TruncateMends
<1>9. OnlyDirsName'
  <2>1. CASE Goal' = Goal
    BY <2>1, GoalStays, StillNames
  <2>2. CASE Goal' # Goal
    <3>1. i \in Inodes /\ inodes[i].kind = "reg"
      BY <1>1, <1>3, <2>2, StillGoal DEF Truncate, Refuse
    <3>. QED
      BY <1>4, <2>2, <3>1, ResizeNames
  <2>. QED
    BY <2>1, <2>2
<1>. QED
  BY <1>3, <1>8, <1>9, CallMends

LEMMA WriteNextMends ==
  ASSUME CourseMends, WriteNext PROVE (Idle \/ CourseMends)'
<1>1. PICK G : Passes(image, todo, G, Goal) /\ \A g \in G : MendedBy(g, call)
  BY DEF CourseMends
<1>2. /\ todo # <<>> /\ image' = Put(image, Head(todo)) /\ todo' = Pending(image', Tail(todo))
      /\ todo' # <<>> => call' = call
      /\ UNCHANGED <<disk, diskCounts>>
  BY DEF WriteNext, Idle, vars
<1>3. Goal' = Goal
  BY <1>2, StillGoal
<1>4. Passes(image', todo', G, Goal')
  <2>1. Passes(image', Tail(todo), G, Goal)
    BY <1>1, <1>2, PassesStep
  <2>. QED
    BY <1>2, <1>3, <2>1, PassesPending
<1>5. CASE todo' = <<>>
  BY <1>5 DEF Idle
<1>6. CASE todo' # <<>>
  BY <1>1, <1>2, <1>4, <1>6 DEF CourseMends
<1>. QED
  BY <1>5, <1>6

(* The interrupted call, made again. *)
LEMMA RemovedAgain ==
  ASSUME NoDotsInPaths, NEW path \in Paths, NEW name \in PathNames,
         NEW op, \/ op = "unlink" /\ Unlink(path, name)
                 \/ op = "rmdir" /\ Rmdir(path, name),
         RemovalLeft(Goal, op, path, name) \/ RemovalDone(Goal, path, name)
  PROVE  Consistent'
<1>1. PICK g : g = Goal
  OBVIOUS
<1>2. /\ Describes(g) /\ g.blockBitmap = blockBitmap /\ g.inodeBitmap = inodeBitmap
      /\ g.inodes = inodes /\ g.dirBlocks = dirBlocks
  BY <1>1 DEF Describes, Goal
<1>3. PICK d : d = OpenPath(path)
  OBVIOUS
<1>4. LedIn(g, path, d) /\ \A i : LedIn(g, path, i) => i = d
  BY <1>2, <1>3, OpenPathLed, PathsAreFull DEF PathsLed
<1>5. PICK t : t = IF IsDir(d) THEN Lookup(d, name) ELSE NoInode
  OBVIOUS
<1>6. /\ \A i : IsDirIn(g, i) <=> IsDir(i)
      /\ \A i : EntriesIn(g, i) = DirEntries(inodes[i])
      /\ LookupIn(g, d, name) = Lookup(d, name)
  BY <1>2, VariablesAre
<1>7. \A h : Describes(h)' /\ ConsistentIn(h) => Consistent'
  BY ConsistentAfter DEF DescribedAlike
<1>8. CASE RemovalDone(Goal, path, name)
  <2>1. ConsistentIn(g) /\ (IsDir(d) => Lookup(d, name) = NoInode)
    BY <1>1, <1>4, <1>6, <1>8 DEF RemovalDone
  <2>2. t \notin Inodes
    BY <1>5, <2>1, Constants DEF NoInode
  <2>3. ~ IsDir(t)
    BY <2>2 DEF IsDir
  <2>4. Refuse
    <3>1. CASE Unlink(path, name)
      BY <1>3, <1>5, <2>2, <3>1 DEF Unlink
    <3>2. CASE Rmdir(path, name)
      BY <1>3, <1>5, <2>3, <3>2 DEF Rmdir
    <3>. QED
      BY <3>1, <3>2
  <2>5. Describes(g)'
    BY <1>2, <2>4 DEF Refuse, disk, Describes
  <2>. QED
    BY <1>7, <2>1, <2>5
<1>9. CASE RemovalLeft(Goal, op, path, name)
  <2>1. PICK d0, t0, h : /\ LedIn(g, path, d0) /\ IsDirIn(g, d0) /\ t0 = LookupIn(g, d0, name)
                         /\ MayRemove(g, op, t0) /\ RemovedFrom(g, h, op, d0, t0, name)
                         /\ ConsistentIn(h)
    BY <1>1, <1>9 DEF RemovalLeft
  <2>2. IsDir(d) /\ d0 = d /\ t0 = t
    BY <1>4, <1>5, <1>6, <2>1
  <2>3. /\ t \in Inodes
        /\ op = "rmdir" => t # Root /\ IsDir(t) /\ IsEmptyDir(t)
        /\ op # "rmdir" => ~ IsDir(t)
    BY <1>6, <2>1, <2>2 DEF MayRemove, IsEmptyDir
  <2>4. /\ h.blockBitmap = blockBitmap \ OwnRun(inodes[t])
        /\ h.inodeBitmap = inodeBitmap \ {t}
        /\ h.inodes = RowsWithout(inodes, op, d, t)
        /\ h.dirBlocks = WithoutEntry(d, t, name)
    BY <1>2, <2>1, <2>2 DEF RemovedFrom, WithoutEntry
  <2>5. CASE op = "unlink" /\ Unlink(path, name)
    <3>1. /\ blockBitmap' = blockBitmap \ OwnRun(inodes[t])
          /\ inodeBitmap' = inodeBitmap \ {t}
          /\ inodes' = [inodes EXCEPT ![t] = Deleted(@)]
          /\ dirBlocks' = WithoutEntry(d, t, name)
      BY <1>3, <1>5, <2>3, <2>5 DEF Unlink
    <3>2. h.inodes = inodes'
      BY <2>4, <2>5, <3>1 DEF RowsWithout
    <3>3. Describes(h)'
      BY <2>4, <3>1, <3>2 DEF Describes
    <3>. QED
      BY <1>7, <2>1, <3>3
  <2>6. CASE op = "rmdir" /\ Rmdir(path, name)
    <3>1. /\ blockBitmap' = blockBitmap \ OwnRun(inodes[t])
          /\ inodeBitmap' = inodeBitmap \ {t}
          /\ inodes' = [inodes EXCEPT ![t] = Deleted(@),
                                      ![d] = [inodes[d] EXCEPT !.links = SatSub(@, 1)]]
          /\ dirBlocks' = WithoutEntry(d, t, name)
      BY <1>3, <1>5, <2>3, <2>6 DEF Rmdir
    <3>2. h.inodes = inodes'
      BY <2>4, <2>6, <3>1 DEF RowsWithout
    <3>3. Describes(h)'
      BY <2>4, <3>1, <3>2 DEF Describes
    <3>. QED
      BY <1>7, <2>1, <3>3
  <2>. QED
    BY <2>5, <2>6
<1>. QED
  BY <1>8, <1>9

LEMMA ResizedAgain ==
  ASSUME NoDotsInPaths, NEW path \in FullPaths, NEW size \in Nat, Truncate(path, size),
         ResizeLeft(Goal, path, size) \/ ResizeDone(Goal, path, size),
         inodes \in [Inodes -> InodeType]
  PROVE  Consistent'
<1>1. PICK g : g = Goal
  OBVIOUS
<1>2. /\ Describes(g) /\ g.blockBitmap = blockBitmap /\ g.inodeBitmap = inodeBitmap
      /\ g.inodes = inodes /\ g.dirBlocks = dirBlocks
  BY <1>1 DEF Describes, Goal
<1>3. PICK i : i = OpenPath(path)
  OBVIOUS
<1>4. LedIn(g, path, i) /\ \A j : LedIn(g, path, j) => j = i
  BY <1>2, <1>3, OpenPathLed DEF PathsLed
<1>5. \A h : Describes(h)' /\ ConsistentIn(h) => Consistent'
  BY ConsistentAfter DEF DescribedAlike
<1>6. i \in Inodes => inodes[i].size \in Nat
  BY DEF InodeType
<1>7. CASE ResizeDone(Goal, path, size)
  <2>1. ConsistentIn(g) /\ (i \in Inodes => inodes[i].size = size)
    BY <1>1, <1>2, <1>4, <1>7 DEF ResizeDone
  <2>2. UNCHANGED disk
    BY <1>3, <1>6, <2>1 DEF Truncate, Refuse, Grow, Shrink
  <2>3. Describes(g)'
    BY <1>2, <2>2 DEF disk, Describes
  <2>. QED
    BY <1>5, <2>1, <2>3
<1>8. CASE ResizeLeft(Goal, path, size)
  <2>1. PICK j, h : /\ LedIn(g, path, j) /\ j \in Inodes /\ g.inodes[j].kind = "reg"
                    /\ ResizedFrom(g, h, j, size) /\ ConsistentIn(h)
    BY <1>1, <1>8 DEF ResizeLeft
  <2>2. j = i /\ i \in Inodes /\ inodes[i].kind = "reg"
    BY <1>2, <1>4, <2>1
  <2>3. PICK kept : kept = CeilDiv(size, BlockSize)
    OBVIOUS
  <2>4. PICK tail : tail = RunBits(inodes[i].start, inodes[i].len)
                             \ RunBits(inodes[i].start, kept)
    OBVIOUS
  <2>5. /\ h.inodeBitmap = inodeBitmap /\ h.dirBlocks = dirBlocks
        /\ \/ /\ size > inodes[i].size
              /\ size <= IF inodes[i].size > 0 THEN inodes[i].len * BlockSize ELSE 0
              /\ h.inodes = [inodes EXCEPT ![i].size = size]
              /\ h.blockBitmap = blockBitmap
           \/ /\ size < inodes[i].size
              /\ h.inodes = [inodes EXCEPT ![i].size = size, ![i].len = kept,
                                           ![i].start = IF kept = 0 THEN 0 ELSE @]
              /\ h.blockBitmap = blockBitmap \ tail
    BY <1>2, <2>1, <2>2, <2>3, <2>4 DEF ResizedFrom
  <2>6. inodes[i].len \in Nat /\ inodes[i].len * BlockSize \in Nat
    BY <2>2, FilesystemAssumption, DirBlockAssumption DEF InodeType
  <2>7. CASE size > inodes[i].size
    <3>1. Grow(i, size)
      BY <1>3, <1>6, <2>2, <2>7 DEF Truncate, Shrink
    <3>2. /\ inodes' = [inodes EXCEPT ![i].size = size]
          /\ UNCHANGED <<blockBitmap, inodeBitmap, dirBlocks>>
      <4>1. ~ (size > IF inodes[i].size > 0 THEN inodes[i].len * BlockSize ELSE 0)
        BY <1>6, <2>2, <2>5, <2>6, <2>7
      <4>. QED
        BY <3>1, <4>1 DEF Grow
    <3>3. Describes(h)'
      BY <1>6, <2>2, <2>5, <2>7, <3>2 DEF Describes
    <3>. QED
      BY <1>5, <2>1, <3>3
  <2>8. CASE size < inodes[i].size
    <3>1. Shrink(i, size)
      BY <1>3, <1>6, <2>2, <2>8 DEF Truncate, Grow
    <3>2. /\ inodes' = [inodes EXCEPT ![i].size = size, ![i].len = kept,
                                      ![i].start = IF kept = 0 THEN 0 ELSE @]
          /\ blockBitmap' = blockBitmap \ tail
          /\ UNCHANGED <<inodeBitmap, dirBlocks>>
      BY <2>3, <2>4, <3>1 DEF Shrink
    <3>3. Describes(h)'
      BY <1>6, <2>2, <2>5, <2>8, <3>2 DEF Describes
    <3>. QED
      BY <1>5, <2>1, <3>3
  <2>. QED
    BY <1>6, <2>2, <2>5, <2>7, <2>8
<1>. QED
  BY <1>7, <1>8

(* Up to the first crash every image is mended by the call under way; the  *)
(* first crash leaves one, and if it owes a call, none is made before it.  *)
MendIInv ==
  /\ FirstIInv
  /\ crashes = 0 => owed = NoCall /\ OnlyDirsName /\ (Idle \/ CourseMends)
  /\ crashes = 1 /\ owed # NoCall =>
       Idle /\ MendedBy(Goal, owed) /\ owed.op \in Removals \cup {"truncate"}

LEMMA MendStarts ==
  ASSUME NoDotsInPaths, CrashInit PROVE MendIInv
<1>1. OnlyDirsName
  <2>1. \A b \in Blocks : NoNames(dirBlocks[b])
    <3>1. \A e \in FreshBlock(Root, Root) : e.name \in Dots
      BY DEF FreshBlock, Entry, Dots
    <3>2. \A b \in Blocks : dirBlocks[b] \in {FreshBlock(Root, Root), {}}
      BY DEF CrashInit, Init
    <3>. QED
      BY <3>1, <3>2 DEF NoNames, Live
  <2>. QED
    BY <2>1 DEF OnlyDirsName
<1>. QED
  BY <1>1, FirstStarts DEF MendIInv, CrashInit, Idle

(* The first crash. *)
LEMMA CrashMends ==
  ASSUME CourseHolds, CourseHolds', CourseMends, Crash
  PROVE  /\ owed' # NoCall =>
              Idle' /\ MendedBy(Goal', owed') /\ owed'.op \in Removals \cup {"truncate"}
         /\ owed' = NoCall => Consistent'
<1>1. PICK G : Passes(image, todo, G, Goal) /\ \A g \in G : MendedBy(g, call)
  BY DEF CourseMends
<1>2. MendedBy(image, call)
  BY <1>1, PassesEnd, PassesStep DEF Crash, Idle
<1>3. Idle' /\ image' = image
  BY DEF Crash, Idle
<1>4. (CourseHolds /\ Idle => image = Goal /\ IsDevice(Goal) /\ Whole(inodes, dirBlocks))'
  BY IdleHolds, PTL
<1>5. Goal' = image
  BY <1>3, <1>4
<1>6. /\ call.op # "rename" /\ owed' = IF call.op = "insert" THEN NoCall ELSE call
      /\ call.op \in {"insert", "unlink", "rmdir", "truncate", "rename"}
  BY <1>2 DEF Crash, MendedBy
<1>7. CASE call.op = "insert"
  <2>1. ConsistentIn(image) /\ owed' = NoCall
    BY <1>2, <1>6, <1>7 DEF MendedBy
  <2>2. PICK g : g = image
    OBVIOUS
  <2>3. (Describes(g))' /\ ConsistentIn(g)
    BY <2>1, <2>2 DEF Crash, Describes
  <2>. QED
    BY <2>1, <2>3, ConsistentAfter DEF DescribedAlike
<1>8. CASE call.op # "insert"
  <2>1. owed' = call /\ call.op # NoCall.op
    BY <1>6, <1>8 DEF NoCall
  <2>2. owed' # NoCall
    BY <2>1
  <2>. QED
    BY <1>2, <1>3, <1>5, <1>6, <1>8, <2>1, <2>2 DEF Removals
<1>. QED
  BY <1>7, <1>8

(* The call that is owed is the next one. *)
LEMMA OwedIsMade ==
  ASSUME NoDotsInPaths, owed # NoCall, MendedBy(Goal, owed),
         owed.op \in Removals \cup {"truncate"}, CallNext
  PROVE  owed' = NoCall /\ Consistent' /\ crashes' = crashes
<1>1. ASSUME NEW path, NEW name, InsertStep(path, name) PROVE FALSE
  <2>1. owed = [op |-> "insert"]
    BY <1>1 DEF InsertStep, Admits
  <2>. QED
    BY <2>1 DEF Removals
<1>2. ASSUME NEW path, NEW name, NEW newPath, NEW newName,
             MoveStep(path, name, newPath, newName)
      PROVE  FALSE
  <2>1. owed = [op |-> "rename"]
    BY <1>2 DEF MoveStep, Admits
  <2>. QED
    BY <2>1 DEF Removals
<1>3. ~ OpenAgain
  BY DEF OpenAgain, Admits
<1>4. ASSUME NEW path \in Paths, NEW name \in PathNames, RemoveStep(path, name)
      PROVE  owed' = NoCall /\ Consistent' /\ crashes' = crashes
  <2>1. PICK op : /\ \/ op = "unlink" /\ Unlink(path, name)
                     \/ op = "rmdir" /\ Rmdir(path, name)
                  /\ owed = [op |-> op, path |-> path, name |-> name]
                  /\ owed' = NoCall /\ crashes' = crashes
    BY <1>4 DEF RemoveStep, Admits, Calls
  <2>2. owed.op = op /\ owed.path = path /\ owed.name = name /\ op \in Removals
    BY <2>1 DEF Removals
  <2>3. RemovalLeft(Goal, op, path, name) \/ RemovalDone(Goal, path, name)
    BY <2>2 DEF MendedBy
  <2>. QED
    BY <2>1, <2>3, RemovedAgain
<1>5. ASSUME NEW path \in FullPaths, NEW size \in FileSizes, ResizeStep(path, size)
      PROVE  owed' = NoCall /\ Consistent' /\ crashes' = crashes
  <2>1. /\ Truncate(path, size) /\ owed' = NoCall /\ crashes' = crashes
        /\ owed = [op |-> "truncate", path |-> path, size |-> size]
    BY <1>5 DEF ResizeStep, Admits, Calls
  <2>2. owed.op = "truncate" /\ owed.path = path /\ owed.size = size
    BY <2>1
  <2>3. /\ inodes \in [Inodes -> InodeType]
        /\ ResizeLeft(Goal, path, size) \/ ResizeDone(Goal, path, size)
    BY <2>2 DEF MendedBy, Goal
  <2>4. size \in Nat
    BY FilesystemAssumption
  <2>. QED
    BY <2>1, <2>3, <2>4, ResizedAgain
<1>6. DirPaths \subseteq Paths
  BY DEF DirPaths
<1>. QED
  BY <1>1, <1>2, <1>3, <1>4, <1>5, <1>6 DEF CallNext

LEMMA MendStep ==
  ASSUME NoDotsInPaths, ~ SubtreeMoves, MendIInv, [CrashNext]_crashVars
  PROVE  /\ MendIInv'
         /\ crashes = 0 /\ crashes' = 1 /\ owed' = NoCall => Consistent'
         /\ crashes = 1 /\ owed # NoCall /\ owed' = NoCall => Consistent'
<1>0. FirstIInv /\ FirstIInv' /\ CourseHolds /\ CourseHolds' /\ crashes \in Nat
  BY FirstStep DEF MendIInv, FirstIInv
<1>1. CASE UNCHANGED crashVars
  <2>1. /\ UNCHANGED <<disk, diskCounts, image, todo, call, owed, crashes>> /\ UNCHANGED disk
    BY <1>1 DEF crashVars, vars
  <2>2. Goal' = Goal
    BY <2>1, StillGoal
  <2>3. (Idle' <=> Idle) /\ (CourseMends => CourseMends') /\ (OnlyDirsName => OnlyDirsName')
    BY <2>1, <2>2, StillNames DEF Idle, CourseMends
  <2>. QED
    BY <1>0, <2>1, <2>2, <2>3 DEF MendIInv
<1>2. CASE crashes = 0 /\ Idle /\ CallNext
  <2>1. TreeIInv /\ OnlyDirsName /\ owed = NoCall
    BY <1>2 DEF MendIInv, FirstIInv
  <2>2. TreeIInv'
    BY <1>2, <2>1, CallIsNext, NextTree
  <2>3. crashes' = crashes /\ owed' = NoCall
    BY <1>2, CallsSettle
  <2>4. (Idle \/ CourseMends)' /\ OnlyDirsName'
    <3>. USE <1>0, <1>2, <2>1, <2>2
    <3>0. DirPaths \subseteq Paths
      BY DEF DirPaths
    <3>1. ASSUME NEW path \in DirPaths, NEW name \in PathNames, InsertStep(path, name)
          PROVE  (Idle \/ CourseMends)' /\ OnlyDirsName'
      BY <3>0, <3>1, InsertStepMends
    <3>2. ASSUME NEW path \in DirPaths, NEW name \in PathNames, RemoveStep(path, name)
          PROVE  (Idle \/ CourseMends)' /\ OnlyDirsName'
      BY <3>0, <3>2, RemoveStepMends
    <3>3. ASSUME NEW path \in DirPaths, NEW name \in PathNames,
                 NEW newPath \in DirPaths, NEW newName \in PathNames,
                 MoveStep(path, name, newPath, newName)
          PROVE  (Idle \/ CourseMends)' /\ OnlyDirsName'
      BY <3>0, <3>3, MoveStepMends
    <3>4. ASSUME NEW path \in FullPaths, NEW size \in FileSizes, ResizeStep(path, size)
          PROVE  (Idle \/ CourseMends)' /\ OnlyDirsName'
      BY <3>4, ResizeStepMends
    <3>5. CASE OpenAgain
      BY <3>5, StillNames DEF OpenAgain, Reopen, Idle
    <3>. QED
      BY <3>1, <3>2, <3>3, <3>4, <3>5 DEF CallNext
  <2>. QED
    BY <1>0, <1>2, <2>3, <2>4 DEF MendIInv
<1>3. CASE crashes = 0 /\ WriteNext
  <2>1. UNCHANGED disk /\ crashes' = crashes /\ owed' = owed /\ ~ Idle
    BY <1>3 DEF WriteNext, vars
  <2>2. OnlyDirsName /\ CourseMends /\ owed = NoCall
    BY <1>3, <2>1 DEF MendIInv
  <2>3. (Idle \/ CourseMends)' /\ OnlyDirsName'
    BY <1>3, <2>1, <2>2, WriteNextMends, StillNames
  <2>. QED
    BY <1>0, <1>3, <2>1, <2>2, <2>3 DEF MendIInv
<1>4. CASE crashes = 0 /\ Crash
  <2>1. CourseMends /\ crashes' = 1
    BY <1>4 DEF MendIInv, Crash
  <2>2. /\ owed' # NoCall =>
             Idle' /\ MendedBy(Goal', owed') /\ owed'.op \in Removals \cup {"truncate"}
        /\ owed' = NoCall => Consistent'
    BY <1>0, <1>4, <2>1, CrashMends
  <2>. QED
    BY <1>0, <1>4, <2>1, <2>2 DEF MendIInv
<1>5. CASE crashes = 1 /\ owed # NoCall /\ CrashNext
  <2>1. /\ Idle /\ MendedBy(Goal, owed) /\ owed.op \in Removals \cup {"truncate"}
    BY <1>5 DEF MendIInv
  <2>2. CallNext
    BY <1>5, <2>1 DEF CrashNext, WriteNext, Crash
  <2>3. owed' = NoCall /\ Consistent' /\ crashes' = crashes
    BY <1>5, <2>1, <2>2, OwedIsMade
  <2>. QED
    BY <1>0, <1>5, <2>3 DEF MendIInv
<1>6. CASE crashes = 1 /\ owed = NoCall /\ CrashNext
  <2>1. CASE CallNext
    <3>1. crashes' = crashes /\ owed' = NoCall
      BY <2>1, CallsSettle
    <3>. QED
      BY <1>0, <1>6, <3>1 DEF MendIInv
  <2>2. CASE WriteNext
    <3>1. crashes' = crashes /\ owed' = NoCall
      BY <1>6, <2>2 DEF WriteNext
    <3>. QED
      BY <1>0, <1>6, <3>1 DEF MendIInv
  <2>3. CASE Crash
    <3>1. crashes' = 2
      BY <1>6, <2>3 DEF Crash
    <3>. QED
      BY <1>0, <1>6, <3>1 DEF MendIInv
  <2>. QED
    BY <1>6, <2>1, <2>2, <2>3 DEF CrashNext
<1>7. CASE crashes \notin {0, 1} /\ CrashNext
  <2>1. crashes' \notin {0, 1}
    <3>1. crashes' \in {crashes, crashes + 1}
      BY <1>7, CallsSettle DEF CrashNext, WriteNext, Crash
    <3>. QED
      BY <1>0, <1>7, <3>1
  <2>. QED
    BY <1>0, <1>7, <2>1 DEF MendIInv
<1>. QED
  BY <1>1, <1>2, <1>3, <1>4, <1>5, <1>6, <1>7 DEF CrashNext

LEMMA MendInvariant ==
  ASSUME NoDotsInPaths, ~ SubtreeMoves
  PROVE  CrashSpec =>
           /\ []MendIInv
           /\ [][crashes = 0 /\ crashes' = 1 /\ owed' = NoCall => Consistent']_crashVars
           /\ [][crashes = 1 /\ owed # NoCall /\ owed' = NoCall => Consistent']_crashVars
<1>1. CrashInit => MendIInv
  BY MendStarts
<1>2. MendIInv /\ [CrashNext]_crashVars =>
        /\ MendIInv'
        /\ [crashes = 0 /\ crashes' = 1 /\ owed' = NoCall => Consistent']_crashVars
        /\ [crashes = 1 /\ owed # NoCall /\ owed' = NoCall => Consistent']_crashVars
  BY MendStep
<1>. QED
  BY <1>1, <1>2, PTL DEF CrashSpec

(* What the first crash leaves: nothing has two owners, no entry leads     *)
(* nowhere, and the names are a tree whose dots agree with it.  So it is   *)
(* while nothing has crashed; so it is at once after a crash in            *)
(* create_file, mkdir or symlink, after whichever of the writes that       *)
(* filesystem.rs issues; and so it is after a crash in unlink, rmdir or    *)
(* truncate as soon as the caller has made that call again, whether it     *)
(* then does anything or is refused because it was nearly done.            *)
THEOREM FirstCrashIsMended ==
  ASSUME NoDotsInPaths, ~ SubtreeMoves
  PROVE  CrashSpec =>
           /\ [](crashes = 0 => SoundOnceRepeated)
           /\ [][crashes = 0 /\ crashes' = 1 => SoundOnceRepeated']_crashVars
           /\ [][crashes = 1 /\ owed # NoCall /\ owed' = NoCall => Consistent']_crashVars
<1>1. MendIInv => (crashes = 0 => SoundOnceRepeated)
  BY TreeConsistent DEF MendIInv, FirstIInv, SoundOnceRepeated
<1>2. [crashes = 0 /\ crashes' = 1 /\ owed' = NoCall => Consistent']_crashVars
        => [crashes = 0 /\ crashes' = 1 => SoundOnceRepeated']_crashVars
  BY DEF SoundOnceRepeated
<1>. QED
  BY <1>1, <1>2, MendInvariant, PTL
=============================================================================
