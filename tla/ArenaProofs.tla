---------------------------- MODULE ArenaProofs ----------------------------
(***************************************************************************)
(* What the operations of a free list keep, for every list: the order of   *)
(* its holes, which addresses are free and the epoch each one waits for,   *)
(* and that no two holes could be one.                                     *)
(***************************************************************************)
EXTENDS Arena, Facts

Holes == [start : Nat, end : Nat, ready : Nat]

\* The fields of hole i of a free list, and a hole that has given ones.
Lo(hs, i) == hs[i].start
Hi(hs, i) == hs[i].end
Ep(hs, i) == hs[i].ready
Is(hs, i, s, e, r) == Lo(hs, i) = s /\ Hi(hs, i) = e /\ Ep(hs, i) = r
Same(gs, j, hs, i) == Is(gs, j, Lo(hs, i), Hi(hs, i), Ep(hs, i))

\* Holes are not empty, apart from each other and in order.
Ordered(hs) ==
  /\ \A i \in 1 .. Len(hs) : Lo(hs, i) < Hi(hs, i)
  /\ \A i, j \in 1 .. Len(hs) : i < j => Hi(hs, i) <= Lo(hs, j)

\* Address a lies in hole i; a is free and waits for epoch q.
Over(hs, i, a) == Lo(hs, i) <= a /\ a < Hi(hs, i)
Waits(hs, a, q) == \E i \in 1 .. Len(hs) : Over(hs, i, a) /\ Ep(hs, i) = q

\* No two neighbours could be one at epoch r.
Apart(hs, r) ==
  \A i \in 2 .. Len(hs) :
    ~ (Hi(hs, i - 1) = Lo(hs, i) /\ Ep(hs, i - 1) <= r /\ Ep(hs, i) <= r)

-----------------------------------------------------------------------------
(* Sequences of holes. *)

\* The fields of a list's holes are numbers.
LEMMA Listed ==
  ASSUME NEW hs \in Seq(Holes)
  PROVE  /\ Len(hs) \in Nat
         /\ \A i \in 1 .. Len(hs) : Lo(hs, i) \in Nat /\ Hi(hs, i) \in Nat /\ Ep(hs, i) \in Nat
<1>1. \A h \in Holes : h.start \in Nat /\ h.end \in Nat /\ h.ready \in Nat
  BY DEF Holes
<1> QED
  BY <1>1 DEF Lo, Hi, Ep

\* Arena::remove, hole by hole.
LEMMA RemovedHole ==
  ASSUME NEW hs \in Seq(Holes), NEW i \in 1 .. Len(hs)
  PROVE  /\ Remove(hs, i) \in Seq(Holes)
         /\ Len(Remove(hs, i)) = Len(hs) - 1
         /\ \A j \in 1 .. i - 1 : Same(Remove(hs, i), j, hs, j)
         /\ \A j \in i .. Len(hs) - 1 : Same(Remove(hs, i), j, hs, j + 1)
<1> DEFINE gs == Remove(hs, i)
<1>1. /\ gs \in Seq(Holes) /\ Len(gs) = Len(hs) - 1
      /\ \A j \in 1 .. Len(hs) - 1 : gs[j] = IF j < i THEN hs[j] ELSE hs[j + 1]
  BY DEF Remove
<1> HIDE DEF gs
<1>2. Len(hs) \in Nat /\ i \in Nat
  OBVIOUS
<1>3. ASSUME NEW j \in 1 .. i - 1 PROVE Same(gs, j, hs, j)
  <2>1. j \in 1 .. Len(hs) - 1 /\ j < i
    BY <1>2
  <2>2. gs[j] = hs[j]
    BY <1>1, <2>1
  <2> QED
    BY <2>2, Zenon DEF Same, Is, Lo, Hi, Ep
<1>4. ASSUME NEW j \in i .. Len(hs) - 1 PROVE Same(gs, j, hs, j + 1)
  <2>1. j \in 1 .. Len(hs) - 1 /\ ~ (j < i)
    BY <1>2
  <2>2. gs[j] = hs[j + 1]
    BY <1>1, <2>1
  <2> QED
    BY <2>2, Zenon DEF Same, Is, Lo, Hi, Ep
<1> QED
  BY <1>1, <1>3, <1>4 DEF gs

\* A hole overwritten in its place.
Put(hs, i, h) == [hs EXCEPT ![i] = h]

Overwritten(gs, hs, i, s, e, r) ==
  /\ gs \in Seq(Holes) /\ Len(gs) = Len(hs) /\ Is(gs, i, s, e, r)
  /\ \A j \in 1 .. Len(hs) : j # i => Same(gs, j, hs, j)

\* What overwriting leaves.
LEMMA ReplacedHole ==
  ASSUME NEW hs \in Seq(Holes), NEW i \in 1 .. Len(hs),
         NEW s \in Nat, NEW e \in Nat, NEW r \in Nat,
         NEW gs, gs = Put(hs, i, Hole(s, e, r))
  PROVE  Overwritten(gs, hs, i, s, e, r)
<1> DEFINE h == Hole(s, e, r)
<1>0. gs = [hs EXCEPT ![i] = h]
  BY DEF Put
<1>1. h \in Holes /\ h.start = s /\ h.end = e /\ h.ready = r
  BY DEF Hole, Holes
<1> HIDE DEF h
<1>2. /\ gs \in Seq(Holes) /\ Len(gs) = Len(hs) /\ gs[i] = h
      /\ \A j \in 1 .. Len(hs) : j # i => gs[j] = hs[j]
  BY <1>0, <1>1
<1>3. Is(gs, i, s, e, r)
  BY <1>1, <1>2, Zenon DEF Is, Lo, Hi, Ep
<1>4. ASSUME NEW j \in 1 .. Len(hs), j # i PROVE Same(gs, j, hs, j)
  <2>1. gs[j] = hs[j]
    BY <1>2, <1>4
  <2> QED
    BY <2>1, Zenon DEF Same, Is, Lo, Hi, Ep
<1> QED
  BY <1>2, <1>3, <1>4 DEF Overwritten

\* A hole inserted between its neighbours.
Inserted(gs, hs, i, s, e, r) ==
  /\ gs \in Seq(Holes) /\ Len(gs) = Len(hs) + 1 /\ Is(gs, i, s, e, r)
  /\ \A j \in 1 .. i - 1 : Same(gs, j, hs, j)
  /\ \A j \in i + 1 .. Len(hs) + 1 : Same(gs, j, hs, j - 1)

\* The gap Arena::release makes, and the hole it puts there.
LEMMA InsertedHole ==
  ASSUME NEW hs \in Seq(Holes), NEW i \in 1 .. Len(hs) + 1,
         NEW s \in Nat, NEW e \in Nat, NEW r \in Nat
  PROVE  Inserted(Insert(hs, i, Hole(s, e, r)), hs, i, s, e, r)
<1> DEFINE h == Hole(s, e, r)
           gs == Insert(hs, i, h)
<1>1. h \in Holes /\ h.start = s /\ h.end = e /\ h.ready = r
  BY DEF Hole, Holes
<1> HIDE DEF h
<1>2. /\ gs \in Seq(Holes) /\ Len(gs) = Len(hs) + 1
      /\ \A j \in 1 .. Len(hs) + 1 :
           gs[j] = IF j < i THEN hs[j] ELSE IF j = i THEN h ELSE hs[j - 1]
  BY <1>1 DEF Insert
<1> HIDE DEF gs
<1>0. Len(hs) \in Nat /\ i \in Nat
  OBVIOUS
<1>3. Is(gs, i, s, e, r)
  <2>1. gs[i] = h
    BY <1>0, <1>2
  <2> QED
    BY <1>1, <2>1, Zenon DEF Is, Lo, Hi, Ep
<1>4. ASSUME NEW j \in 1 .. i - 1 PROVE Same(gs, j, hs, j)
  <2>1. j \in 1 .. Len(hs) + 1 /\ j < i
    BY <1>0
  <2>2. gs[j] = hs[j]
    BY <1>2, <2>1
  <2> QED
    BY <2>2, Zenon DEF Same, Is, Lo, Hi, Ep
<1>5. ASSUME NEW j \in i + 1 .. Len(hs) + 1 PROVE Same(gs, j, hs, j - 1)
  <2>1. j \in 1 .. Len(hs) + 1 /\ ~ (j < i) /\ j # i
    BY <1>0
  <2>2. gs[j] = hs[j - 1]
    BY <1>2, <2>1
  <2> QED
    BY <2>2, Zenon DEF Same, Is, Lo, Hi, Ep
<1>6. Inserted(gs, hs, i, s, e, r)
  BY <1>2, <1>3, <1>4, <1>5 DEF Inserted
<1> QED
  BY <1>6 DEF gs, h

-----------------------------------------------------------------------------
(* What stays ordered, and which addresses wait for what. *)

\* In an ordered list an address lies in one hole.
LEMMA OneHole ==
  ASSUME NEW hs \in Seq(Holes), Ordered(hs), NEW a \in Nat,
         NEW i \in 1 .. Len(hs), NEW j \in 1 .. Len(hs), Over(hs, i, a), Over(hs, j, a)
  PROVE  i = j
<1>1. /\ Len(hs) \in Nat
      /\ Lo(hs, i) \in Nat /\ Hi(hs, i) \in Nat /\ Lo(hs, j) \in Nat /\ Hi(hs, j) \in Nat
  BY Listed
<1> QED
  BY <1>1 DEF Ordered, Over

\* A list without one of its holes.
LEMMA Cut ==
  ASSUME NEW hs \in Seq(Holes), Ordered(hs), NEW i \in 1 .. Len(hs)
  PROVE  /\ Ordered(Remove(hs, i))
         /\ \A a, q \in Nat : Waits(Remove(hs, i), a, q)
                                <=> Waits(hs, a, q) /\ ~ Over(hs, i, a)
         /\ \A r \in Nat : Apart(hs, r) => Apart(Remove(hs, i), r)
<1> DEFINE gs == Remove(hs, i)
           n == Len(hs)
<1>1. /\ gs \in Seq(Holes) /\ Len(gs) = n - 1
      /\ \A j \in 1 .. i - 1 : Same(gs, j, hs, j)
      /\ \A j \in i .. n - 1 : Same(gs, j, hs, j + 1)
  BY RemovedHole
<1>2. /\ n \in Nat /\ i \in Nat /\ i \in 1 .. n
      /\ \A j \in 1 .. n : Lo(hs, j) \in Nat /\ Hi(hs, j) \in Nat /\ Ep(hs, j) \in Nat
  BY Listed
<1> HIDE DEF gs, n
<1>3. ASSUME NEW j \in 1 .. n - 1 PROVE \E k \in 1 .. n : /\ k = (IF j < i THEN j ELSE j + 1)
                                                         /\ Same(gs, j, hs, k)
  <2>1. CASE j < i
    <3>1. j \in 1 .. i - 1 /\ j \in 1 .. n
      BY <1>2, <2>1
    <3> QED
      BY <1>1, <2>1, <3>1
  <2>2. CASE ~ (j < i)
    <3>1. j \in i .. n - 1 /\ j + 1 \in 1 .. n
      BY <1>2, <2>2
    <3> QED
      BY <1>1, <2>2, <3>1
  <2> QED
    BY <2>1, <2>2
<1>4. Ordered(gs)
  <2>1. ASSUME NEW j \in 1 .. Len(gs) PROVE Lo(gs, j) < Hi(gs, j)
    <3>1. PICK k \in 1 .. n : Same(gs, j, hs, k)
      BY <1>1, <1>3
    <3> QED
      BY <3>1 DEF Ordered, Same, Is, n
  <2>2. ASSUME NEW j \in 1 .. Len(gs), NEW l \in 1 .. Len(gs), j < l
        PROVE  Hi(gs, j) <= Lo(gs, l)
    <3>1. PICK k \in 1 .. n : k = (IF j < i THEN j ELSE j + 1) /\ Same(gs, j, hs, k)
      BY <1>1, <1>3
    <3>2. PICK m \in 1 .. n : m = (IF l < i THEN l ELSE l + 1) /\ Same(gs, l, hs, m)
      BY <1>1, <1>3
    <3>3. k < m
      <4>1. j \in Nat /\ l \in Nat /\ i \in Nat
        BY <1>1, <1>2
      <4>2. k = IF j < i THEN j ELSE j + 1
        BY <3>1
      <4>3. m = IF l < i THEN l ELSE l + 1
        BY <3>2
      <4> QED
        BY <2>2, <4>1, <4>2, <4>3
    <3> QED
      BY <3>1, <3>2, <3>3 DEF Ordered, Same, Is, n
  <2> QED
    BY <2>1, <2>2 DEF Ordered
<1>5. ASSUME NEW a \in Nat, NEW q \in Nat
      PROVE  Waits(gs, a, q) <=> Waits(hs, a, q) /\ ~ Over(hs, i, a)
  <2>1. ASSUME Waits(gs, a, q) PROVE Waits(hs, a, q) /\ ~ Over(hs, i, a)
    <3>1. PICK j \in 1 .. n - 1 : Over(gs, j, a) /\ Ep(gs, j) = q
      BY <1>1, <2>1 DEF Waits
    <3>2. PICK k \in 1 .. n : k = (IF j < i THEN j ELSE j + 1) /\ Same(gs, j, hs, k)
      BY <1>3
    <3>3. Over(hs, k, a) /\ Ep(hs, k) = q /\ k # i
      BY <1>2, <3>1, <3>2 DEF Over, Same, Is
    <3> QED
      BY <3>3, OneHole DEF Waits, n
  <2>2. ASSUME Waits(hs, a, q), ~ Over(hs, i, a) PROVE Waits(gs, a, q)
    <3>1. PICK k \in 1 .. n : Over(hs, k, a) /\ Ep(hs, k) = q
      BY <2>2 DEF Waits, n
    <3>2. PICK j \in 1 .. n - 1 : Same(gs, j, hs, k)
      <4>1. k # i
        BY <2>2, <3>1
      <4>2. CASE k < i
        BY <1>1, <1>2, <4>2
      <4>3. CASE k > i
        <5>1. k - 1 \in i .. n - 1 /\ k - 1 \in 1 .. n - 1 /\ (k - 1) + 1 = k
          BY <1>2, <4>3
        <5> QED
          BY <1>1, <5>1
      <4> QED
        BY <1>2, <4>1, <4>2, <4>3
    <3> QED
      BY <1>1, <3>1, <3>2 DEF Waits, Over, Same, Is
  <2> QED
    BY <2>1, <2>2
<1>6. ASSUME NEW r \in Nat, Apart(hs, r) PROVE Apart(gs, r)
  <2> SUFFICES ASSUME NEW j \in 2 .. Len(gs), Hi(gs, j - 1) = Lo(gs, j),
                      Ep(gs, j - 1) <= r, Ep(gs, j) <= r
               PROVE  FALSE
    BY DEF Apart
  <2>1. j \in Nat /\ j <= n - 1
    BY <1>1, <1>2
  <2>2. CASE j = i
    <3>1. /\ Same(gs, i - 1, hs, i - 1) /\ Same(gs, i, hs, i + 1)
          /\ i - 1 \in 1 .. n /\ i \in 1 .. n /\ i + 1 \in 1 .. n
      BY <1>1, <1>2, <2>1, <2>2
    <3>2. /\ Hi(hs, i - 1) <= Lo(hs, i) /\ Lo(hs, i) < Hi(hs, i) /\ Hi(hs, i) <= Lo(hs, i + 1)
      <4>1. i - 1 < i /\ i < i + 1
        BY <1>2
      <4> QED
        BY <3>1, <4>1, Zenon DEF Ordered, n
    <3> QED
      BY <1>2, <2>2, <3>1, <3>2 DEF Same, Is
  <2>3. CASE j < i
    <3>1. Same(gs, j - 1, hs, j - 1) /\ Same(gs, j, hs, j) /\ j \in 2 .. n
      BY <1>1, <1>2, <2>1, <2>3
    <3> QED
      BY <1>6, <3>1 DEF Apart, Same, Is, n
  <2>4. CASE j > i
    <3>1. /\ j - 1 \in i .. n - 1 /\ j \in i .. n - 1 /\ (j - 1) + 1 = j
          /\ j + 1 \in 2 .. n /\ (j + 1) - 1 = j
      BY <1>2, <2>1, <2>4
    <3>2. Same(gs, j - 1, hs, j) /\ Same(gs, j, hs, j + 1)
      BY <1>1, <3>1
    <3> QED
      BY <1>6, <3>1, <3>2 DEF Apart, Same, Is, n
  <2> QED
    BY <1>2, <2>1, <2>2, <2>3, <2>4
<1> QED
  BY <1>4, <1>5, <1>6 DEF gs

\* gs is hs with one hole, from s to e and waiting for r, in the place of the holes
\* strictly between b and c.
Splice(gs, hs, b, c, s, e, r) ==
  /\ hs \in Seq(Holes) /\ Ordered(hs) /\ gs \in Seq(Holes)
  /\ b \in 0 .. Len(hs) /\ c \in b + 1 .. Len(hs) + 1
  /\ s \in Nat /\ e \in Nat /\ r \in Nat /\ s < e
  /\ b > 0 => Hi(hs, b) <= s
  /\ c <= Len(hs) => e <= Lo(hs, c)
  /\ Len(gs) = Len(hs) + b + 2 - c
  /\ \A j \in 1 .. b : Same(gs, j, hs, j)
  /\ Is(gs, b + 1, s, e, r)
  /\ \A j \in b + 2 .. Len(gs) : Same(gs, j, hs, j + c - b - 2)

\* Which hole of hs, if any, hole j of gs is.
LEMMA Places ==
  ASSUME NEW gs, NEW hs, NEW b, NEW c, NEW s, NEW e, NEW r, Splice(gs, hs, b, c, s, e, r),
         NEW j \in 1 .. Len(gs)
  PROVE  \/ j <= b /\ j \in 1 .. Len(hs) /\ Same(gs, j, hs, j)
         \/ j = b + 1 /\ Is(gs, j, s, e, r)
         \/ \E k \in 1 .. Len(hs) : j > b + 1 /\ c <= k /\ k = j + c - b - 2 /\ Same(gs, j, hs, k)
<1>1. /\ Len(hs) \in Nat /\ Len(gs) \in Nat /\ b \in Nat /\ c \in Nat /\ j \in Nat /\ b <= Len(hs)
      /\ Len(gs) = Len(hs) + b + 2 - c /\ b < c /\ c <= Len(hs) + 1
  BY DEF Splice
<1>2. CASE j <= b
  BY <1>1, <1>2 DEF Splice
<1>3. CASE j = b + 1
  BY <1>3 DEF Splice
<1>4. CASE j > b + 1
  <2>1. /\ j + c - b - 2 \in 1 .. Len(hs) /\ c <= j + c - b - 2 /\ j \in b + 2 .. Len(gs)
    BY <1>1, <1>4
  <2>2. Same(gs, j, hs, j + c - b - 2)
    BY <2>1 DEF Splice
  <2> QED
    BY <1>4, <2>1, <2>2
<1> QED
  BY <1>1, <1>2, <1>3, <1>4

\* A hole after the new one was one of those from c on.
LEMMA Beyond ==
  ASSUME NEW gs, NEW hs, NEW b, NEW c, NEW s, NEW e, NEW r, Splice(gs, hs, b, c, s, e, r),
         NEW j \in 1 .. Len(gs), j > b + 1
  PROVE  \E k \in 1 .. Len(hs) : c <= k /\ k = j + c - b - 2 /\ Same(gs, j, hs, k)
<1>1. b \in Nat /\ j \in Nat
  BY DEF Splice
<1>2. ~ (j <= b) /\ j # b + 1
  BY <1>1
<1> QED
  BY <1>2, Places

\* The holes kept lie on either side of the new one.
LEMMA Sides ==
  ASSUME NEW gs, NEW hs, NEW b, NEW c, NEW s, NEW e, NEW r, Splice(gs, hs, b, c, s, e, r),
         NEW k \in 1 .. Len(hs)
  PROVE  /\ Lo(hs, k) \in Nat /\ Hi(hs, k) \in Nat /\ Ep(hs, k) \in Nat /\ Lo(hs, k) < Hi(hs, k)
         /\ k <= b => Hi(hs, k) <= s
         /\ c <= k => e <= Lo(hs, k)
<1>1. /\ Len(hs) \in Nat /\ b \in Nat /\ c \in Nat /\ b <= Len(hs) /\ s \in Nat /\ e \in Nat
      /\ hs \in Seq(Holes) /\ Ordered(hs) /\ b < c
      /\ (b > 0 => Hi(hs, b) <= s) /\ (c <= Len(hs) => e <= Lo(hs, c))
  BY DEF Splice
<1>2. \A i \in 1 .. Len(hs) : Lo(hs, i) \in Nat /\ Hi(hs, i) \in Nat /\ Ep(hs, i) \in Nat
  BY <1>1, Listed
<1>3. Lo(hs, k) < Hi(hs, k)
  BY <1>1 DEF Ordered
<1>4. ASSUME k <= b PROVE Hi(hs, k) <= s
  <2>1. CASE k = b
    BY <1>1, <2>1
  <2>2. CASE k < b
    <3>1. b \in 1 .. Len(hs) /\ Hi(hs, k) <= Lo(hs, b) /\ Lo(hs, b) < Hi(hs, b)
      BY <1>1, <2>2 DEF Ordered
    <3> QED
      BY <1>1, <1>2, <3>1
  <2> QED
    BY <1>1, <1>4, <2>1, <2>2
<1>5. ASSUME c <= k PROVE e <= Lo(hs, k)
  <2>1. CASE k = c
    BY <1>1, <2>1
  <2>2. CASE k > c
    <3>1. c \in 1 .. Len(hs) /\ Hi(hs, c) <= Lo(hs, k) /\ Lo(hs, c) < Hi(hs, c)
      BY <1>1, <2>2 DEF Ordered
    <3> QED
      BY <1>1, <1>2, <3>1
  <2> QED
    BY <1>1, <1>5, <2>1, <2>2
<1> QED
  BY <1>2, <1>3, <1>4, <1>5

\* The new list is ordered.
LEMMA SpliceOrdered ==
  ASSUME NEW gs, NEW hs, NEW b, NEW c, NEW s, NEW e, NEW r, Splice(gs, hs, b, c, s, e, r)
  PROVE  Ordered(gs)
<1>1. /\ b \in Nat /\ c \in Nat /\ s \in Nat /\ e \in Nat /\ s < e /\ b < c
      /\ Ordered(hs) /\ Len(gs) \in Nat
  BY DEF Splice
<1>2. ASSUME NEW j \in 1 .. Len(gs) PROVE Lo(gs, j) < Hi(gs, j)
  <2>1. CASE \E k \in 1 .. Len(hs) : Same(gs, j, hs, k)
    BY <1>1, <2>1, Sides DEF Same, Is
  <2>2. CASE Is(gs, j, s, e, r)
    BY <1>1, <2>2 DEF Is
  <2> QED
    BY <2>1, <2>2, Places
<1>3. ASSUME NEW j \in 1 .. Len(gs), NEW l \in 1 .. Len(gs), j < l PROVE Hi(gs, j) <= Lo(gs, l)
  <2>0. j \in Nat /\ l \in Nat
    OBVIOUS
  <2>1. CASE l <= b
    <3>1. j \in 1 .. Len(hs) /\ l \in 1 .. Len(hs) /\ Same(gs, j, hs, j) /\ Same(gs, l, hs, l)
      BY <1>1, <1>3, <2>0, <2>1, Places
    <3> QED
      BY <1>1, <1>3, <3>1 DEF Ordered, Same, Is
  <2>2. CASE l = b + 1
    <3>1. j \in 1 .. Len(hs) /\ j <= b /\ Same(gs, j, hs, j) /\ Is(gs, l, s, e, r)
      BY <1>1, <1>3, <2>0, <2>2, Places
    <3> QED
      BY <3>1, Sides DEF Same, Is
  <2>3. CASE l > b + 1
    <3>1. PICK m \in 1 .. Len(hs) : c <= m /\ m = l + c - b - 2 /\ Same(gs, l, hs, m)
      BY <2>3, Beyond
    <3>2. CASE j <= b
      <4>1. j \in 1 .. Len(hs) /\ Same(gs, j, hs, j) /\ j < m
        BY <1>1, <2>0, <3>1, <3>2, Places
      <4> QED
        BY <1>1, <3>1, <4>1 DEF Ordered, Same, Is
    <3>3. CASE j = b + 1
      <4>1. Is(gs, j, s, e, r)
        BY <3>3 DEF Splice
      <4> QED
        BY <3>1, <4>1, Sides DEF Same, Is
    <3>4. CASE j > b + 1
      <4>1. PICK k \in 1 .. Len(hs) : k = j + c - b - 2 /\ Same(gs, j, hs, k)
        BY <3>4, Beyond
      <4>2. k < m
        BY <1>1, <1>3, <2>0, <3>1, <4>1
      <4> QED
        BY <1>1, <3>1, <4>1, <4>2 DEF Ordered, Same, Is
    <3> QED
      BY <1>1, <2>0, <3>2, <3>3, <3>4
  <2> QED
    BY <1>1, <2>0, <2>1, <2>2, <2>3
<1> QED
  BY <1>2, <1>3 DEF Ordered

\* An address waits as before, unless the new hole took its place.
LEMMA SpliceWaits ==
  ASSUME NEW gs, NEW hs, NEW b, NEW c, NEW s, NEW e, NEW r, Splice(gs, hs, b, c, s, e, r),
         NEW a \in Nat, NEW q \in Nat
  PROVE  Waits(gs, a, q)
           <=> \/ s <= a /\ a < e /\ q = r
               \/ \E k \in 1 .. Len(hs) : (k <= b \/ c <= k) /\ Over(hs, k, a) /\ Ep(hs, k) = q
<1>1. /\ b \in Nat /\ c \in Nat /\ Len(gs) \in Nat /\ Len(hs) \in Nat /\ b < c /\ b <= Len(hs)
      /\ c <= Len(hs) + 1 /\ Len(gs) = Len(hs) + b + 2 - c
  BY DEF Splice
<1>2. ASSUME NEW j \in 1 .. Len(gs), Over(gs, j, a), Ep(gs, j) = q
      PROVE  \/ s <= a /\ a < e /\ q = r
             \/ \E k \in 1 .. Len(hs) : (k <= b \/ c <= k) /\ Over(hs, k, a) /\ Ep(hs, k) = q
  <2>1. CASE \E k \in 1 .. Len(hs) : (k <= b \/ c <= k) /\ Same(gs, j, hs, k)
    BY <1>2, <2>1 DEF Same, Is, Over
  <2>2. CASE Is(gs, j, s, e, r)
    BY <1>2, <2>2 DEF Is, Over
  <2> QED
    BY <2>1, <2>2, Places
<1>3. ASSUME s <= a, a < e, q = r PROVE Waits(gs, a, q)
  <2>1. b + 1 \in 1 .. Len(gs) /\ Is(gs, b + 1, s, e, r)
    BY <1>1 DEF Splice
  <2> QED
    BY <1>3, <2>1 DEF Waits, Over, Is
<1>4. ASSUME NEW k \in 1 .. Len(hs), k <= b \/ c <= k, Over(hs, k, a), Ep(hs, k) = q
      PROVE  Waits(gs, a, q)
  <2>1. PICK j \in 1 .. Len(gs) : Same(gs, j, hs, k)
    <3>1. CASE k <= b
      <4>1. k \in 1 .. b /\ k \in 1 .. Len(gs)
        BY <1>1, <3>1
      <4> QED
        BY <4>1 DEF Splice
    <3>2. CASE c <= k
      <4> DEFINE j == k - c + b + 2
      <4>1. j \in 1 .. Len(gs) /\ j \in b + 2 .. Len(gs) /\ j + c - b - 2 = k
        BY <1>1, <3>2
      <4>2. Same(gs, j, hs, j + c - b - 2)
        <5> HIDE DEF j
        <5> QED BY <4>1 DEF Splice
      <4> HIDE DEF j
      <4> QED
        BY <4>1, <4>2
    <3> QED
      BY <1>4, <3>1, <3>2
  <2> QED
    BY <1>4, <2>1 DEF Waits, Over, Same, Is
<1> QED
  BY <1>2, <1>3, <1>4 DEF Waits

\* No neighbours become interchangeable but the new hole with one next to it.
LEMMA SpliceApart ==
  ASSUME NEW gs, NEW hs, NEW b, NEW c, NEW s, NEW e, NEW r, Splice(gs, hs, b, c, s, e, r),
         NEW x \in Nat, Apart(hs, x),
         r <= x => /\ b > 0 /\ Ep(hs, b) <= x => Hi(hs, b) # s
                   /\ c <= Len(hs) /\ Ep(hs, c) <= x => e # Lo(hs, c)
  PROVE  Apart(gs, x)
<1>1. /\ b \in Nat /\ c \in Nat /\ Len(gs) \in Nat /\ Len(hs) \in Nat /\ b < c /\ b <= Len(hs)
      /\ c <= Len(hs) + 1 /\ Len(gs) = Len(hs) + b + 2 - c
  BY DEF Splice
<1> SUFFICES ASSUME NEW j \in 2 .. Len(gs), Hi(gs, j - 1) = Lo(gs, j),
                    Ep(gs, j - 1) <= x, Ep(gs, j) <= x
             PROVE  FALSE
  BY DEF Apart
<1>2. j \in Nat /\ j - 1 \in 1 .. Len(gs) /\ j \in 1 .. Len(gs) /\ 2 <= j
  BY <1>1
<1>3. CASE j <= b
  <2>1. Same(gs, j - 1, hs, j - 1) /\ Same(gs, j, hs, j) /\ j \in 2 .. Len(hs)
    BY <1>1, <1>2, <1>3, Places
  <2> QED
    BY <2>1 DEF Apart, Same, Is
<1>4. CASE j = b + 1
  <2>1. Same(gs, j - 1, hs, j - 1) /\ Is(gs, j, s, e, r) /\ j - 1 = b /\ b > 0
    BY <1>1, <1>2, <1>4, Places
  <2> QED
    BY <2>1 DEF Same, Is
<1>5. CASE j = b + 2
  <2>1. j \in b + 2 .. Len(gs) /\ j + c - b - 2 = c /\ j - 1 = b + 1 /\ c <= Len(hs)
    BY <1>1, <1>2, <1>5
  <2>2. Same(gs, j, hs, j + c - b - 2) /\ Is(gs, b + 1, s, e, r)
    BY <2>1 DEF Splice
  <2> QED
    BY <2>1, <2>2 DEF Same, Is
<1>6. CASE j > b + 2
  <2>1. j \in b + 2 .. Len(gs) /\ j - 1 \in b + 2 .. Len(gs)
    BY <1>1, <1>2, <1>6
  <2>2. Same(gs, j, hs, j + c - b - 2) /\ Same(gs, j - 1, hs, (j - 1) + c - b - 2)
    BY <2>1 DEF Splice
  <2>3. PICK k \in 2 .. Len(hs) : k = j + c - b - 2 /\ k - 1 = (j - 1) + c - b - 2
    BY <1>1, <1>2, <1>6
  <2>4. Same(gs, j, hs, k) /\ Same(gs, j - 1, hs, k - 1)
    BY <2>2, <2>3
  <2> QED
    BY <2>3, <2>4 DEF Apart, Same, Is
<1> QED
  BY <1>1, <1>2, <1>3, <1>4, <1>5, <1>6

-----------------------------------------------------------------------------
(* Arena::allocate. *)

Free(hs, a) == \E i \in 1 .. Len(hs) : Over(hs, i, a)

\* One hole takes the place of another.
LEMMA PutSplice ==
  ASSUME NEW hs \in Seq(Holes), Ordered(hs), NEW i \in 1 .. Len(hs),
         NEW s \in Nat, NEW e \in Nat, NEW r \in Nat, s < e,
         i - 1 > 0 => Hi(hs, i - 1) <= s, i + 1 <= Len(hs) => e <= Lo(hs, i + 1),
         NEW gs, gs = Put(hs, i, Hole(s, e, r))
  PROVE  Splice(gs, hs, i - 1, i + 1, s, e, r)
<1> DEFINE b == i - 1
           c == i + 1
<1>0. Len(hs) \in Nat /\ i \in Nat
  BY Listed
<1>1. Overwritten(gs, hs, i, s, e, r)
  BY ReplacedHole, Zenon
<1>2. /\ gs \in Seq(Holes) /\ Len(gs) = Len(hs) /\ Is(gs, i, s, e, r)
      /\ \A j \in 1 .. Len(hs) : j # i => Same(gs, j, hs, j)
  BY <1>1 DEF Overwritten
<1>3. /\ b \in 0 .. Len(hs) /\ c \in b + 1 .. Len(hs) + 1
      /\ Len(gs) = Len(hs) + b + 2 - c /\ b + 1 = i
  BY <1>0, <1>2
<1>4. \A j \in 1 .. b : Same(gs, j, hs, j)
  BY <1>0, <1>2
<1>5. ASSUME NEW j \in b + 2 .. Len(gs) PROVE Same(gs, j, hs, j + c - b - 2)
  <2>1. j \in 1 .. Len(hs) /\ j # i /\ j + c - b - 2 = j
    BY <1>0, <1>2
  <2> QED
    BY <1>2, <2>1
<1>6. (b > 0 => Hi(hs, b) <= s) /\ (c <= Len(hs) => e <= Lo(hs, c))
  OBVIOUS
<1> HIDE DEF b, c
<1>7. Splice(gs, hs, b, c, s, e, r)
  BY <1>2, <1>3, <1>4, <1>5, <1>6, Zenon DEF Splice
<1> QED
  BY <1>7 DEF b, c

\* Two holes and what lies between them become one.
LEMMA JoinSplice ==
  ASSUME NEW hs \in Seq(Holes), Ordered(hs), NEW i \in 1 .. Len(hs), i + 1 <= Len(hs),
         NEW s \in Nat, NEW e \in Nat, NEW r \in Nat, s < e,
         i - 1 > 0 => Hi(hs, i - 1) <= s, i + 2 <= Len(hs) => e <= Lo(hs, i + 2),
         NEW gs, gs = Remove(Put(hs, i, Hole(s, e, r)), i + 1)
  PROVE  Splice(gs, hs, i - 1, i + 2, s, e, r)
<1> DEFINE b == i - 1
           c == i + 2
           fs == Put(hs, i, Hole(s, e, r))
<1>0. Len(hs) \in Nat /\ i \in Nat
  BY Listed
<1> HIDE DEF fs
<1>1. Overwritten(fs, hs, i, s, e, r)
  BY ReplacedHole, Zenon DEF fs
<1>2. /\ fs \in Seq(Holes) /\ Len(fs) = Len(hs) /\ Is(fs, i, s, e, r)
      /\ \A j \in 1 .. Len(hs) : j # i => Same(fs, j, hs, j)
  BY <1>1 DEF Overwritten
<1>3. i + 1 \in 1 .. Len(fs) /\ gs = Remove(fs, i + 1)
  BY <1>0, <1>2 DEF fs
<1>4. /\ gs \in Seq(Holes) /\ Len(gs) = Len(fs) - 1
      /\ \A j \in 1 .. (i + 1) - 1 : Same(gs, j, fs, j)
      /\ \A j \in i + 1 .. Len(fs) - 1 : Same(gs, j, fs, j + 1)
  BY <1>2, <1>3, RemovedHole, Zenon
<1>5. /\ b \in 0 .. Len(hs) /\ c \in b + 1 .. Len(hs) + 1
      /\ Len(gs) = Len(hs) + b + 2 - c /\ b + 1 = i
  <2>1. Len(gs) = Len(hs) - 1
    BY <1>2, <1>4, Zenon
  <2> QED
    BY <1>0, <2>1
<1>6. ASSUME NEW j \in 1 .. b PROVE Same(gs, j, hs, j)
  <2>1. j \in 1 .. (i + 1) - 1 /\ j \in 1 .. Len(hs) /\ j # i
    BY <1>0
  <2> QED
    BY <1>2, <1>4, <2>1 DEF Same, Is
<1>7. ASSUME NEW j \in b + 2 .. Len(gs) PROVE Same(gs, j, hs, j + c - b - 2)
  <2>1. /\ j \in i + 1 .. Len(fs) - 1 /\ j + 1 \in 1 .. Len(hs) /\ j + 1 # i
        /\ j + c - b - 2 = j + 1
    BY <1>0, <1>2, <1>4
  <2> QED
    BY <1>2, <1>4, <2>1 DEF Same, Is
<1>8. (b > 0 => Hi(hs, b) <= s) /\ (c <= Len(hs) => e <= Lo(hs, c))
  OBVIOUS
<1>9. Is(gs, i, s, e, r)
  <2>1. i \in 1 .. (i + 1) - 1
    BY <1>0
  <2> QED
    BY <1>2, <1>4, <2>1 DEF Same, Is
<1> HIDE DEF b, c
<1>10. Splice(gs, hs, b, c, s, e, r)
  BY <1>4, <1>5, <1>6, <1>7, <1>8, <1>9 DEF Splice
<1> QED
  BY <1>10 DEF b, c

\* A hole of its own.
LEMMA InsertSplice ==
  ASSUME NEW hs \in Seq(Holes), Ordered(hs), NEW i \in 1 .. Len(hs) + 1,
         NEW s \in Nat, NEW e \in Nat, NEW r \in Nat, s < e,
         i - 1 > 0 => Hi(hs, i - 1) <= s, i <= Len(hs) => e <= Lo(hs, i),
         NEW gs, gs = Insert(hs, i, Hole(s, e, r))
  PROVE  Splice(gs, hs, i - 1, i, s, e, r)
<1> DEFINE b == i - 1
<1>0. Len(hs) \in Nat /\ i \in Nat
  BY Listed
<1>1. /\ gs \in Seq(Holes) /\ Len(gs) = Len(hs) + 1 /\ Is(gs, i, s, e, r)
      /\ \A j \in 1 .. i - 1 : Same(gs, j, hs, j)
      /\ \A j \in i + 1 .. Len(hs) + 1 : Same(gs, j, hs, j - 1)
  <2>1. Inserted(gs, hs, i, s, e, r)
    BY InsertedHole, Zenon
  <2> QED
    BY <2>1 DEF Inserted
<1>2. /\ b \in 0 .. Len(hs) /\ i \in b + 1 .. Len(hs) + 1
      /\ Len(gs) = Len(hs) + b + 2 - i /\ b + 1 = i
  BY <1>0, <1>1
<1>3. \A j \in 1 .. b : Same(gs, j, hs, j)
  BY <1>1
<1>4. ASSUME NEW j \in b + 2 .. Len(gs) PROVE Same(gs, j, hs, j + i - b - 2)
  <2>1. j \in i + 1 .. Len(hs) + 1 /\ j + i - b - 2 = j - 1
    BY <1>0, <1>1
  <2> QED
    BY <1>1, <2>1
<1>5. (b > 0 => Hi(hs, b) <= s)
  OBVIOUS
<1> HIDE DEF b
<1>6. Splice(gs, hs, b, i, s, e, r)
  BY <1>1, <1>2, <1>3, <1>4, <1>5 DEF Splice
<1> QED
  BY <1>6 DEF b

\* Carving takes the front of one hole and leaves every other address as it was.
LEMMA CarveKeeps ==
  ASSUME NEW hs \in Seq(Holes), Ordered(hs), NEW i \in 1 .. Len(hs), NEW n \in Nat \ {0},
         Lo(hs, i) + n <= Hi(hs, i)
  PROVE  /\ Carve(hs, i, n) \in Seq(Holes)
         /\ Ordered(Carve(hs, i, n))
         /\ Len(Carve(hs, i, n)) <= Len(hs)
         /\ \A a, q \in Nat : Waits(Carve(hs, i, n), a, q)
              <=> Waits(hs, a, q) /\ ~ (Lo(hs, i) <= a /\ a < Lo(hs, i) + n)
         /\ \A r \in Nat : Apart(hs, r) => Apart(Carve(hs, i, n), r)
<1>0. /\ Len(hs) \in Nat /\ i \in Nat
      /\ \A j \in 1 .. Len(hs) : Lo(hs, j) \in Nat /\ Hi(hs, j) \in Nat /\ Ep(hs, j) \in Nat
  BY Listed
<1>1. CASE Lo(hs, i) + n = Hi(hs, i)
  <2>1. Carve(hs, i, n) = Remove(hs, i)
    BY <1>1 DEF Carve, Lo, Hi
  <2>2. \A a \in Nat : Over(hs, i, a) <=> Lo(hs, i) <= a /\ a < Lo(hs, i) + n
    BY <1>0, <1>1 DEF Over
  <2>3. Remove(hs, i) \in Seq(Holes) /\ Len(Remove(hs, i)) = Len(hs) - 1
    BY RemovedHole
  <2> QED
    BY <1>0, <2>1, <2>2, <2>3, Cut
<1>2. CASE Lo(hs, i) + n # Hi(hs, i)
  <2> DEFINE s == Lo(hs, i) + n
             e == Hi(hs, i)
             r == Ep(hs, i)
             gs == Carve(hs, i, n)
             b == i - 1
             c == i + 1
  <2>1. s \in Nat /\ e \in Nat /\ r \in Nat /\ s < e /\ Lo(hs, i) < s
    BY <1>0, <1>2
  <2>2. gs = Put(hs, i, Hole(s, e, r))
    BY <1>2 DEF Carve, Lo, Hi, Ep, Put
  <2> HIDE DEF s, e, r, gs
  <2>4. Splice(gs, hs, b, c, s, e, r)
    <3>1. b > 0 => Hi(hs, b) <= s
      <4>1. b > 0 => b \in 1 .. Len(hs) /\ b < i
        BY <1>0
      <4> QED
        BY <1>0, <2>1, <4>1 DEF Ordered
    <3>2. c <= Len(hs) => e <= Lo(hs, c)
      BY <1>0 DEF Ordered, e
    <3> QED
      BY <2>1, <2>2, <3>1, <3>2, PutSplice, Zenon
  <2>3. gs \in Seq(Holes) /\ Len(gs) = Len(hs)
    <3>1. gs \in Seq(Holes) /\ Len(gs) = Len(hs) + b + 2 - c
      <4> HIDE DEF b, c
      <4> QED BY <2>4 DEF Splice
    <3> QED
      BY <1>0, <3>1
  <2>5. Ordered(gs)
    BY <2>4, SpliceOrdered
  <2>6. ASSUME NEW a \in Nat, NEW q \in Nat
        PROVE  Waits(gs, a, q) <=> Waits(hs, a, q) /\ ~ (Lo(hs, i) <= a /\ a < s)
    <3>1. Waits(gs, a, q)
            <=> \/ s <= a /\ a < e /\ q = r
                \/ \E k \in 1 .. Len(hs) : (k <= b \/ c <= k) /\ Over(hs, k, a) /\ Ep(hs, k) = q
      BY <2>4, SpliceWaits
    <3>2. \A k \in 1 .. Len(hs) : (k <= b \/ c <= k) <=> k # i
      BY <1>0
    <3>3. ASSUME NEW k \in 1 .. Len(hs), Over(hs, k, a), Over(hs, i, a) PROVE k = i
      BY <3>3, OneHole
    <3>4. (Lo(hs, i) <= a /\ a < s) => Over(hs, i, a)
      BY <1>0, <2>1 DEF Over, e
    <3>5. (s <= a /\ a < e) <=> Over(hs, i, a) /\ ~ (Lo(hs, i) <= a /\ a < s)
      BY <1>0, <2>1 DEF Over, e
    <3> HIDE DEF b, c
    <3> QED
      BY <3>1, <3>2, <3>3, <3>4, <3>5 DEF Waits, r
  <2>7. ASSUME NEW x \in Nat, Apart(hs, x) PROVE Apart(gs, x)
    <3>1. r <= x => /\ b > 0 /\ Ep(hs, b) <= x => Hi(hs, b) # s
                    /\ c <= Len(hs) /\ Ep(hs, c) <= x => e # Lo(hs, c)
      <4>1. b > 0 => Hi(hs, b) <= Lo(hs, i) /\ Hi(hs, b) \in Nat
        <5>1. b > 0 => b \in 1 .. Len(hs) /\ b < i
          BY <1>0
        <5> QED
          BY <1>0, <5>1 DEF Ordered
      <4>2. c <= Len(hs) => c \in 2 .. Len(hs) /\ c - 1 = i
        BY <1>0
      <4>3. c <= Len(hs) /\ Ep(hs, c) <= x /\ r <= x => e # Lo(hs, c)
        <5> HIDE DEF c
        <5> QED BY <2>7, <4>2 DEF Apart, e, r
      <4> QED
        BY <1>0, <2>1, <4>1, <4>3
    <3> HIDE DEF b, c
    <3> QED
      BY <2>4, <2>7, <3>1, SpliceApart
  <2> QED
    BY <1>0, <2>3, <2>5, <2>6, <2>7 DEF gs, s
<1> QED
  BY <1>1, <1>2

-----------------------------------------------------------------------------
(* Arena::release. *)

\* The addresses from lo to hi joined the list and wait for epoch r; a free address
\* waits as before or for r.
Returned(gs, hs, lo, hi, r) ==
  /\ gs \in Seq(Holes) /\ Ordered(gs)
  /\ \A a \in Nat : Free(gs, a) <=> Free(hs, a) \/ (lo <= a /\ a < hi)
  /\ \A a, q \in Nat : Waits(gs, a, q) => q = r \/ Waits(hs, a, q)
  /\ \A a \in Nat : lo <= a /\ a < hi => Waits(gs, a, r)
  /\ \A x \in Nat : x < r /\ Apart(hs, x) => Apart(gs, x)

\* A hole over the range and over the holes it replaced returns the range.
LEMMA SpliceReturns ==
  ASSUME NEW gs, NEW hs, NEW b, NEW c, NEW s, NEW e, NEW r, Splice(gs, hs, b, c, s, e, r),
         NEW lo \in Nat, NEW hi \in Nat, s <= lo, hi <= e,
         \A k \in 1 .. Len(hs) : b < k /\ k < c => s <= Lo(hs, k) /\ Hi(hs, k) <= e,
         \A a \in Nat : s <= a /\ a < e =>
           (lo <= a /\ a < hi) \/ \E k \in 1 .. Len(hs) : b < k /\ k < c /\ Over(hs, k, a)
  PROVE  Returned(gs, hs, lo, hi, r)
<1>1. /\ hs \in Seq(Holes) /\ gs \in Seq(Holes) /\ r \in Nat /\ s \in Nat /\ e \in Nat
      /\ b \in Nat /\ c \in Nat /\ Len(hs) \in Nat
  BY DEF Splice
<1>2. /\ \A i \in 1 .. Len(hs) : Lo(hs, i) \in Nat /\ Hi(hs, i) \in Nat /\ Ep(hs, i) \in Nat
      /\ \A i \in 1 .. Len(gs) : Ep(gs, i) \in Nat
  BY <1>1, Listed
<1>3. ASSUME NEW a \in Nat, NEW q \in Nat
      PROVE  Waits(gs, a, q)
               <=> \/ s <= a /\ a < e /\ q = r
                   \/ \E k \in 1 .. Len(hs) : (k <= b \/ c <= k) /\ Over(hs, k, a) /\ Ep(hs, k) = q
  BY SpliceWaits
<1>4. ASSUME NEW a \in Nat PROVE Free(gs, a) <=> \E q \in Nat : Waits(gs, a, q)
  BY <1>2 DEF Free, Waits
<1>5. ASSUME NEW a \in Nat, Free(gs, a) PROVE Free(hs, a) \/ (lo <= a /\ a < hi)
  <2>1. PICK q \in Nat : Waits(gs, a, q)
    BY <1>4, <1>5
  <2>2. CASE s <= a /\ a < e
    BY <2>2 DEF Free
  <2>3. CASE \E k \in 1 .. Len(hs) : Over(hs, k, a)
    BY <2>3 DEF Free
  <2> QED
    BY <1>3, <2>1, <2>2, <2>3
<1>6. ASSUME NEW a \in Nat, lo <= a, a < hi PROVE Waits(gs, a, r) /\ Free(gs, a)
  <2>1. s <= a /\ a < e
    BY <1>1, <1>6
  <2> QED
    BY <1>1, <1>3, <1>4, <2>1
<1>7. ASSUME NEW a \in Nat, Free(hs, a) PROVE Free(gs, a)
  <2>1. PICK k \in 1 .. Len(hs) : Over(hs, k, a)
    BY <1>7 DEF Free
  <2>2. CASE b < k /\ k < c
    <3>1. s <= a /\ a < e
      BY <1>1, <1>2, <2>1, <2>2 DEF Over
    <3> QED
      BY <1>1, <1>3, <1>4, <3>1
  <2>3. CASE k <= b \/ c <= k
    BY <1>2, <1>3, <1>4, <2>1, <2>3
  <2> QED
    BY <1>1, <2>2, <2>3
<1>8. ASSUME NEW a \in Nat, NEW q \in Nat, Waits(gs, a, q) PROVE q = r \/ Waits(hs, a, q)
  BY <1>3, <1>8, Zenon DEF Waits
<1>9. ASSUME NEW x \in Nat, x < r, Apart(hs, x) PROVE Apart(gs, x)
  BY <1>1, <1>9, SpliceApart
<1>10. Ordered(gs)
  BY SpliceOrdered
<1> QED
  BY <1>1, <1>5, <1>6, <1>7, <1>8, <1>9, <1>10 DEF Returned

\* The partition point of an ordered list exists.
LEMMA Partition ==
  ASSUME NEW hs \in Seq(Holes), Ordered(hs), NEW hi \in Nat
  PROVE  \E at \in 0 .. Len(hs) : /\ \A i \in 1 .. at : Lo(hs, i) < hi
                                 /\ \A i \in at + 1 .. Len(hs) : Lo(hs, i) >= hi
<1> DEFINE Z == {i \in 1 .. Len(hs) : Lo(hs, i) >= hi}
<1>1. /\ Len(hs) \in Nat
      /\ \A i \in 1 .. Len(hs) : Lo(hs, i) \in Nat /\ Hi(hs, i) \in Nat
  BY Listed
<1>2. CASE Z = {}
  <2>1. \A i \in 1 .. Len(hs) : Lo(hs, i) < hi
    BY <1>1, <1>2
  <2>2. \A i \in Len(hs) + 1 .. Len(hs) : Lo(hs, i) >= hi
    BY <1>1
  <2>3. Len(hs) \in 0 .. Len(hs)
    BY <1>1
  <2> QED
    BY <2>1, <2>2, <2>3
<1>3. CASE Z # {}
  <2>1. Z \in SUBSET Nat
    BY <1>1
  <2>2. PICK m \in Z : \A j \in Z : m <= j
    <3> HIDE DEF Z
    <3> QED BY <1>3, <2>1, LeastElement
  <2>3. m \in 1 .. Len(hs) /\ m \in Nat /\ Lo(hs, m) >= hi
    BY <1>1
  <2>4. ASSUME NEW i \in 1 .. m - 1 PROVE Lo(hs, i) < hi
    <3>1. i \in 1 .. Len(hs) /\ ~ (m <= i)
      BY <1>1, <2>3
    <3> QED
      BY <1>1, <2>2, <3>1
  <2>5. ASSUME NEW i \in m .. Len(hs) PROVE Lo(hs, i) >= hi
    <3>1. i \in 1 .. Len(hs) /\ (i = m \/ m < i)
      BY <1>1, <2>3
    <3>2. CASE m < i
      <4>1. Hi(hs, m) <= Lo(hs, i) /\ Lo(hs, m) < Hi(hs, m)
        BY <2>3, <3>1, <3>2 DEF Ordered
      <4> QED
        BY <1>1, <2>3, <3>1, <4>1
    <3> QED
      BY <2>3, <3>1, <3>2
  <2>6. m - 1 \in 0 .. Len(hs) /\ (m - 1) + 1 = m
    BY <1>1, <2>3
  <2> QED
    BY <2>4, <2>5, <2>6
<1> QED
  BY <1>2, <1>3

\* The tests of Arena::release on the holes around the range.
JoinsBelow(hs, e, limit, r) ==
  LET at == Below(hs, e)
  IN at > 0 /\ Hi(hs, at) = e.start /\ Joins(NoSlot(hs, limit), hs[at], r)
JoinsAbove(hs, e, limit, r) ==
  LET at == Below(hs, e)
  IN at < Len(hs) /\ Lo(hs, at + 1) = e.end /\ Joins(NoSlot(hs, limit), hs[at + 1], r)

\* The four ways a range is put back.
Cases(gs, hs, e, limit, r, at) ==
  /\ JoinsBelow(hs, e, limit, r) /\ JoinsAbove(hs, e, limit, r) =>
       gs = Remove(Put(hs, at, Hole(Lo(hs, at), Hi(hs, at + 1), r)), at + 1)
  /\ JoinsBelow(hs, e, limit, r) /\ ~ JoinsAbove(hs, e, limit, r) =>
       gs = Put(hs, at, Hole(Lo(hs, at), e.end, r))
  /\ ~ JoinsBelow(hs, e, limit, r) /\ JoinsAbove(hs, e, limit, r) =>
       gs = Put(hs, at + 1, Hole(e.start, Hi(hs, at + 1), r))
  /\ ~ JoinsBelow(hs, e, limit, r) /\ ~ JoinsAbove(hs, e, limit, r) =>
       gs = IF NoSlot(hs, limit) THEN hs ELSE Insert(hs, at + 1, Hole(e.start, e.end, r))

\* They are the cases of Arena::release.
LEMMA ReturnCases ==
  ASSUME NEW hs, NEW e, NEW limit, NEW r
  PROVE  Cases(Return(hs, e, limit, r), hs, e, limit, r, Below(hs, e))
<1> USE DEF Cases, Return, JoinsBelow, JoinsAbove, Put, Merged, Lo, Hi
<1>1. CASE JoinsBelow(hs, e, limit, r) /\ JoinsAbove(hs, e, limit, r)
  BY <1>1, Zenon
<1>2. CASE JoinsBelow(hs, e, limit, r) /\ ~ JoinsAbove(hs, e, limit, r)
  BY <1>2, Zenon
<1>3. CASE ~ JoinsBelow(hs, e, limit, r) /\ JoinsAbove(hs, e, limit, r)
  BY <1>3, Zenon
<1>4. CASE ~ JoinsBelow(hs, e, limit, r) /\ ~ JoinsAbove(hs, e, limit, r)
  BY <1>4, Zenon
<1> QED
  BY <1>1, <1>2, <1>3, <1>4, Zenon

\* Where the range goes: above every hole that ends below it, below the others.
LEMMA BelowIs ==
  ASSUME NEW hs \in Seq(Holes), Ordered(hs), NEW e, e.start \in Nat, e.end \in Nat,
         ~ Overlaps(hs, e)
  PROVE  /\ Below(hs, e) \in 0 .. Len(hs)
         /\ \A i \in 1 .. Below(hs, e) : Lo(hs, i) < e.end
         /\ \A i \in Below(hs, e) + 1 .. Len(hs) : Lo(hs, i) >= e.end
         /\ Below(hs, e) > 0 => Hi(hs, Below(hs, e)) <= e.start
<1> DEFINE at == Below(hs, e)
           P(x) == /\ \A i \in 1 .. x : Lo(hs, i) < e.end
                   /\ \A i \in x + 1 .. Len(hs) : Lo(hs, i) >= e.end
<1>1. \E x \in 0 .. Len(hs) : P(x)
  BY Partition, Zenon
<1>2. at = CHOOSE x \in 0 .. Len(hs) : P(x)
  BY Zenon DEF Below, Lo
<1>3. at \in 0 .. Len(hs) /\ P(at)
  <2> HIDE DEF P, at
  <2> QED BY <1>1, <1>2, Zenon
<1>4. /\ Len(hs) \in Nat
      /\ \A i \in 1 .. Len(hs) : Lo(hs, i) \in Nat /\ Hi(hs, i) \in Nat
  BY Listed
<1>5. ASSUME at > 0 PROVE Hi(hs, at) <= e.start
  <2>1. ~ (Hi(hs, at) > e.start)
    BY <1>5, Zenon DEF Overlaps, Hi
  <2>2. at \in 1 .. Len(hs)
    <3> HIDE DEF at, P
    <3> QED BY <1>3, <1>4, <1>5
  <2>3. Hi(hs, at) \in Nat
    BY <1>4, <2>2
  <2> HIDE DEF at, P
  <2> QED
    BY <2>1, <2>3
<1> QED
  BY <1>3, <1>5, Zenon

\* A range the list has a place for is put back: its addresses and no others join
\* the list, and nothing waits for an epoch it did not wait for, but the open one.
LEMMA ReturnKeeps ==
  ASSUME NEW hs \in Seq(Holes), Ordered(hs), NEW limit \in Nat, Len(hs) <= limit,
         NEW e, e.start \in Nat, e.end \in Nat, e.start < e.end, ~ Overlaps(hs, e),
         NEW r \in Nat, Return(hs, e, limit, r) # hs
  PROVE  /\ Returned(Return(hs, e, limit, r), hs, e.start, e.end, r)
         /\ Len(Return(hs, e, limit, r)) <= limit
<1> DEFINE at == Below(hs, e)
           lo == e.start
           hi == e.end
           gs == Return(hs, e, limit, r)
           down == JoinsBelow(hs, e, limit, r)
           up == JoinsAbove(hs, e, limit, r)
<1>1. /\ at \in 0 .. Len(hs)
      /\ \A i \in 1 .. at : Lo(hs, i) < hi
      /\ \A i \in at + 1 .. Len(hs) : Lo(hs, i) >= hi
      /\ at > 0 => Hi(hs, at) <= lo
  BY BelowIs
<1>2. lo \in Nat /\ hi \in Nat /\ lo < hi
  OBVIOUS
<1>3. down => at > 0 /\ Hi(hs, at) = lo
  BY DEF JoinsBelow
<1>4. up => at < Len(hs) /\ Lo(hs, at + 1) = hi
  BY DEF JoinsAbove
<1>5. /\ down /\ up => gs = Remove(Put(hs, at, Hole(Lo(hs, at), Hi(hs, at + 1), r)), at + 1)
      /\ down /\ ~ up => gs = Put(hs, at, Hole(Lo(hs, at), hi, r))
      /\ ~ down /\ up => gs = Put(hs, at + 1, Hole(lo, Hi(hs, at + 1), r))
      /\ ~ down /\ ~ up =>
           gs = IF NoSlot(hs, limit) THEN hs ELSE Insert(hs, at + 1, Hole(lo, hi, r))
  BY ReturnCases, Zenon DEF Cases
<1>6. gs # hs
  OBVIOUS
<1>7. /\ Len(hs) \in Nat
      /\ \A i \in 1 .. Len(hs) : Lo(hs, i) \in Nat /\ Hi(hs, i) \in Nat /\ Ep(hs, i) \in Nat
      /\ \A i \in 1 .. Len(hs) : Lo(hs, i) < Hi(hs, i)
  BY Listed DEF Ordered
<1> HIDE DEF at, lo, hi, gs, down, up
<1>8. at \in Nat /\ at <= Len(hs)
  BY <1>1, <1>7
<1>9. /\ at > 0 => /\ at \in 1 .. Len(hs) /\ Lo(hs, at) \in Nat /\ Hi(hs, at) \in Nat
                   /\ Lo(hs, at) < Hi(hs, at)
      /\ at < Len(hs) => /\ at + 1 \in 1 .. Len(hs) /\ Lo(hs, at + 1) \in Nat
                         /\ Hi(hs, at + 1) \in Nat /\ Lo(hs, at + 1) < Hi(hs, at + 1)
                         /\ hi <= Lo(hs, at + 1)
  <2>1. at > 0 => at \in 1 .. Len(hs)
    BY <1>7, <1>8
  <2>2. at < Len(hs) => at + 1 \in 1 .. Len(hs) /\ at + 1 \in at + 1 .. Len(hs)
    BY <1>7, <1>8
  <2>3. at < Len(hs) => Lo(hs, at + 1) >= hi
    BY <1>1, <2>2
  <2> QED
    BY <1>2, <1>7, <2>1, <2>2, <2>3
<1>10. /\ at - 1 > 0 => Hi(hs, at - 1) <= Lo(hs, at)
       /\ at + 2 <= Len(hs) => Hi(hs, at + 1) <= Lo(hs, at + 2)
  <2>1. at - 1 > 0 => at - 1 \in 1 .. Len(hs) /\ at \in 1 .. Len(hs) /\ at - 1 < at
    BY <1>7, <1>8
  <2>2. at + 2 <= Len(hs) => at + 1 \in 1 .. Len(hs) /\ at + 2 \in 1 .. Len(hs) /\ at + 1 < at + 2
    BY <1>7, <1>8
  <2> QED
    BY <2>1, <2>2 DEF Ordered
<1>11. CASE down /\ up
  <2> DEFINE b == at - 1
             c == at + 2
             s == Lo(hs, at)
             t == Hi(hs, at + 1)
  <2>1. /\ s \in Nat /\ t \in Nat /\ s < t /\ s <= lo /\ hi <= t
        /\ at \in 1 .. Len(hs) /\ at + 1 <= Len(hs)
    BY <1>2, <1>3, <1>4, <1>7, <1>8, <1>9, <1>11
  <2>2. Splice(gs, hs, b, c, s, t, r)
    <3>1. gs = Remove(Put(hs, at, Hole(s, t, r)), at + 1)
      BY <1>5, <1>11
    <3> QED
      BY <1>10, <2>1, <3>1, JoinSplice, Zenon
  <2>3. \A k \in 1 .. Len(hs) : b < k /\ k < c <=> k = at \/ k = at + 1
    BY <1>7, <1>8
  <2>4. \A k \in 1 .. Len(hs) : b < k /\ k < c => s <= Lo(hs, k) /\ Hi(hs, k) <= t
    <3>1. s <= Lo(hs, at) /\ Hi(hs, at) <= t /\ s <= Lo(hs, at + 1) /\ Hi(hs, at + 1) <= t
      BY <1>2, <1>3, <1>4, <1>9, <1>11, <2>1
    <3> HIDE DEF b, c, s, t
    <3> QED
      BY <2>3, <3>1
  <2>5. ASSUME NEW a \in Nat, s <= a, a < t
        PROVE  (lo <= a /\ a < hi) \/ \E k \in 1 .. Len(hs) : b < k /\ k < c /\ Over(hs, k, a)
    <3>1. (lo <= a /\ a < hi) \/ Over(hs, at, a) \/ Over(hs, at + 1, a)
      BY <1>2, <1>3, <1>4, <1>9, <1>11, <2>5 DEF Over
    <3> HIDE DEF b, c, s, t
    <3> QED
      BY <1>4, <1>9, <1>11, <2>1, <2>3, <3>1
  <2>6. Len(gs) = Len(hs) + b + 2 - c
    <3> HIDE DEF b, c, s, t
    <3> QED BY <2>2 DEF Splice
  <2>7. Len(gs) <= limit
    BY <1>7, <1>8, <2>6
  <2>8. Returned(gs, hs, lo, hi, r)
    <3>1. s <= lo /\ hi <= t
      BY <2>1
    <3>2. \A a \in Nat : s <= a /\ a < t =>
            (lo <= a /\ a < hi) \/ \E k \in 1 .. Len(hs) : b < k /\ k < c /\ Over(hs, k, a)
      <4> HIDE DEF b, c, s, t
      <4> QED BY <2>5
    <3> HIDE DEF b, c, s, t
    <3> QED BY <1>2, <2>2, <2>4, <3>1, <3>2, SpliceReturns
  <2> QED
    BY <2>7, <2>8 DEF gs, lo, hi
<1>12. CASE down /\ ~ up
  <2> DEFINE b == at - 1
             c == at + 1
             s == Lo(hs, at)
  <2>1. s \in Nat /\ s < hi /\ s <= lo /\ at \in 1 .. Len(hs)
    BY <1>2, <1>3, <1>7, <1>8, <1>9, <1>12
  <2>2. Splice(gs, hs, b, c, s, hi, r)
    <3>1. gs = Put(hs, at, Hole(s, hi, r))
      BY <1>5, <1>12
    <3>2. c <= Len(hs) => hi <= Lo(hs, c)
      BY <1>7, <1>8, <1>9
    <3> QED
      BY <1>2, <1>10, <2>1, <3>1, <3>2, PutSplice, Zenon
  <2>3. \A k \in 1 .. Len(hs) : b < k /\ k < c <=> k = at
    BY <1>7, <1>8
  <2>4. \A k \in 1 .. Len(hs) : b < k /\ k < c => s <= Lo(hs, k) /\ Hi(hs, k) <= hi
    <3>1. s <= Lo(hs, at) /\ Hi(hs, at) <= hi
      BY <1>2, <1>3, <1>9, <1>12, <2>1
    <3> HIDE DEF b, c, s
    <3> QED
      BY <2>3, <3>1
  <2>5. ASSUME NEW a \in Nat, s <= a, a < hi
        PROVE  (lo <= a /\ a < hi) \/ \E k \in 1 .. Len(hs) : b < k /\ k < c /\ Over(hs, k, a)
    <3>1. (lo <= a /\ a < hi) \/ Over(hs, at, a)
      BY <1>2, <1>3, <1>9, <1>12, <2>5 DEF Over
    <3> HIDE DEF b, c, s
    <3> QED
      BY <2>1, <2>3, <3>1
  <2>6. Len(gs) = Len(hs) + b + 2 - c
    <3> HIDE DEF b, c, s
    <3> QED BY <2>2 DEF Splice
  <2>7. Len(gs) <= limit
    BY <1>7, <1>8, <2>6
  <2>8. Returned(gs, hs, lo, hi, r)
    <3> HIDE DEF b, c, s
    <3>1. hi <= hi
      BY <1>2
    <3> QED BY <1>2, <2>1, <2>2, <2>4, <2>5, <3>1, SpliceReturns
  <2> QED
    BY <2>7, <2>8 DEF gs, lo, hi
<1>13. CASE ~ down /\ up
  <2> DEFINE b == at
             c == at + 2
             t == Hi(hs, at + 1)
  <2>1. t \in Nat /\ lo < t /\ hi <= t /\ at + 1 \in 1 .. Len(hs)
    BY <1>2, <1>4, <1>7, <1>8, <1>9, <1>13
  <2>2. Splice(gs, hs, b, c, lo, t, r)
    <3>1. gs = Put(hs, at + 1, Hole(lo, t, r))
      BY <1>5, <1>13
    <3>2. (at + 1) - 1 = at /\ (at + 1) + 1 = at + 2
      BY <1>8
    <3>3. /\ (at + 1) - 1 > 0 => Hi(hs, (at + 1) - 1) <= lo
          /\ (at + 1) + 1 <= Len(hs) => t <= Lo(hs, (at + 1) + 1)
      BY <1>1, <1>10, <3>2
    <3>4. Splice(gs, hs, (at + 1) - 1, (at + 1) + 1, lo, t, r)
      BY <1>2, <2>1, <3>1, <3>3, PutSplice, Zenon
    <3> QED
      BY <3>2, <3>4, Zenon
  <2>3. \A k \in 1 .. Len(hs) : b < k /\ k < c <=> k = at + 1
    BY <1>7, <1>8
  <2>4. \A k \in 1 .. Len(hs) : b < k /\ k < c => lo <= Lo(hs, k) /\ Hi(hs, k) <= t
    <3>1. lo <= Lo(hs, at + 1) /\ Hi(hs, at + 1) <= t
      BY <1>2, <1>4, <1>9, <1>13, <2>1
    <3> HIDE DEF b, c, t
    <3> QED
      BY <2>3, <3>1
  <2>5. ASSUME NEW a \in Nat, lo <= a, a < t
        PROVE  (lo <= a /\ a < hi) \/ \E k \in 1 .. Len(hs) : b < k /\ k < c /\ Over(hs, k, a)
    <3>1. (lo <= a /\ a < hi) \/ Over(hs, at + 1, a)
      BY <1>2, <1>4, <1>9, <1>13, <2>5 DEF Over
    <3> HIDE DEF b, c, t
    <3> QED
      BY <2>1, <2>3, <3>1
  <2>6. Len(gs) = Len(hs) + b + 2 - c
    <3> HIDE DEF b, c, t
    <3> QED BY <2>2 DEF Splice
  <2>7. Len(gs) <= limit
    BY <1>7, <1>8, <2>6
  <2>8. Returned(gs, hs, lo, hi, r)
    <3> HIDE DEF b, c, t
    <3>1. lo <= lo
      BY <1>2
    <3> QED BY <1>2, <2>1, <2>2, <2>4, <2>5, <3>1, SpliceReturns, Zenon
  <2> QED
    BY <2>7, <2>8 DEF gs, lo, hi
<1>14. CASE ~ down /\ ~ up
  <2> DEFINE b == at
             c == at + 1
  <2>1. gs = Insert(hs, at + 1, Hole(lo, hi, r)) /\ Len(hs) # limit
    BY <1>5, <1>6, <1>14, Zenon DEF NoSlot
  <2>2. Splice(gs, hs, b, c, lo, hi, r)
    <3>1. (at + 1) - 1 = at /\ at + 1 \in 1 .. Len(hs) + 1
      BY <1>7, <1>8
    <3>2. /\ (at + 1) - 1 > 0 => Hi(hs, (at + 1) - 1) <= lo
          /\ at + 1 <= Len(hs) => hi <= Lo(hs, at + 1)
      BY <1>1, <1>7, <1>8, <1>9, <3>1
    <3>3. Splice(gs, hs, (at + 1) - 1, at + 1, lo, hi, r)
      BY <1>2, <2>1, <3>1, <3>2, InsertSplice, Zenon
    <3> QED
      BY <3>1, <3>3, Zenon
  <2>3. \A k \in 1 .. Len(hs) : ~ (b < k /\ k < c)
    BY <1>7, <1>8
  <2>4. Len(gs) = Len(hs) + b + 2 - c
    <3> HIDE DEF b, c
    <3> QED BY <2>2 DEF Splice
  <2>5. Len(gs) <= limit
    BY <1>7, <1>8, <2>1, <2>4
  <2>6. Returned(gs, hs, lo, hi, r)
    <3> HIDE DEF b, c
    <3>1. lo <= lo /\ hi <= hi
      BY <1>2
    <3> QED BY <1>2, <2>2, <2>3, <3>1, SpliceReturns
  <2> QED
    BY <2>5, <2>6 DEF gs, lo, hi
<1> QED
  BY <1>11, <1>12, <1>13, <1>14 DEF gs, lo, hi

-----------------------------------------------------------------------------
(* Arena::settle. *)

\* Address a of the first i holes of hs waits for what q stands for at epoch r: a
\* hole that is retired may be any retired one, another waits as it did.
Stands(hs, i, a, q, r) ==
  \E k \in 1 .. i : /\ Over(hs, k, a)
                    /\ Ep(hs, k) <= r => q <= r
                    /\ Ep(hs, k) > r => q = Ep(hs, k)

\* gs is what the first i holes of hs became at epoch r.
Settled(gs, hs, i, r) ==
  /\ gs \in Seq(Holes) /\ Ordered(gs) /\ Len(gs) <= i
  /\ i > 0 => Len(gs) > 0 /\ Hi(gs, Len(gs)) = Hi(hs, i)
  /\ Apart(gs, r)
  /\ \A a \in Nat : Free(gs, a) <=> \E k \in 1 .. i : Over(hs, k, a)
  /\ \A a, q \in Nat : Waits(gs, a, q) => Stands(hs, i, a, q, r)

\* The next hole joins the last one kept, or follows it.
JoinsLast(gs, hs, i, b, s, p, r) ==
  LET n == Len(gs)
  IN /\ n > 0 /\ b = n - 1 /\ s = Lo(gs, n) /\ Hi(gs, n) = Lo(hs, i)
     /\ Ep(gs, n) <= r /\ Ep(hs, i) <= r /\ p <= r
FollowsLast(gs, hs, i, b, s, p, r) ==
  LET n == Len(gs)
  IN /\ b = n /\ s = Lo(hs, i) /\ p = Ep(hs, i)
     /\ n > 0 => ~ (Hi(gs, n) = Lo(hs, i) /\ Ep(gs, n) <= r /\ Ep(hs, i) <= r)

\* One round of the loop: the addresses and the epochs of one more hole.
LEMMA SettleAddresses ==
  ASSUME NEW hs \in Seq(Holes), Ordered(hs), NEW r \in Nat, NEW i \in Nat,
         NEW m \in 1 .. Len(hs), m = i + 1,
         NEW gs, Settled(gs, hs, i, r), NEW fs, NEW b, NEW c, NEW s, NEW p,
         c = Len(gs) + 1, Splice(fs, gs, b, c, s, Hi(hs, m), p),
         JoinsLast(gs, hs, m, b, s, p, r) \/ FollowsLast(gs, hs, m, b, s, p, r)
  PROVE  /\ \A a, q \in Nat : Waits(fs, a, q) => Stands(hs, m, a, q, r)
         /\ \A a \in Nat : Free(fs, a) <=> \E k \in 1 .. m : Over(hs, k, a)
<1> DEFINE n == Len(gs)
<1>1. /\ gs \in Seq(Holes) /\ n \in Nat /\ b \in Nat /\ s \in Nat /\ p \in Nat
      /\ fs \in Seq(Holes)
  BY DEF Splice
<1>2. /\ Lo(hs, m) \in Nat /\ Hi(hs, m) \in Nat /\ Ep(hs, m) \in Nat
      /\ \A k \in 1 .. n : Lo(gs, k) \in Nat /\ Hi(gs, k) \in Nat /\ Ep(gs, k) \in Nat
      /\ \A k \in 1 .. Len(fs) : Ep(fs, k) \in Nat
      /\ \A k \in 1 .. Len(hs) : Ep(hs, k) \in Nat
  BY <1>1, Listed
<1>3. m \in 1 .. m /\ \A k \in 1 .. i : k \in 1 .. m
  OBVIOUS
<1>3a. \A k \in 1 .. m : k \in 1 .. i \/ k = m
  OBVIOUS
<1>4. ASSUME NEW a \in Nat, NEW q \in Nat
      PROVE  Waits(fs, a, q)
               <=> \/ s <= a /\ a < Hi(hs, m) /\ q = p
                   \/ \E k \in 1 .. n : (k <= b \/ c <= k) /\ Over(gs, k, a) /\ Ep(gs, k) = q
  BY SpliceWaits
<1>5. ASSUME NEW a \in Nat, NEW q \in Nat, Stands(hs, i, a, q, r) PROVE Stands(hs, m, a, q, r)
  BY <1>3, <1>5 DEF Stands
<1>6. /\ \A a \in Nat : Free(gs, a) <=> \E k \in 1 .. i : Over(hs, k, a)
      /\ \A a, q \in Nat : Waits(gs, a, q) => Stands(hs, i, a, q, r)
  BY DEF Settled
<1> HIDE DEF n
<1>7. ASSUME NEW a \in Nat, s <= a, a < Hi(hs, m) PROVE Stands(hs, m, a, p, r)
  <2>1. CASE Over(hs, m, a)
    <3>1. /\ Ep(hs, m) <= r => p <= r
          /\ Ep(hs, m) > r => p = Ep(hs, m)
      BY <1>1, <1>2 DEF JoinsLast, FollowsLast
    <3> QED
      BY <1>3, <2>1, <3>1 DEF Stands
  <2>2. CASE ~ Over(hs, m, a)
    <3>1. ~ (Lo(hs, m) <= a)
      BY <1>7, <2>2 DEF Over
    <3>2. JoinsLast(gs, hs, m, b, s, p, r)
      BY <1>7, <3>1 DEF FollowsLast
    <3>3. /\ n > 0 /\ s = Lo(gs, n) /\ Hi(gs, n) = Lo(hs, m) /\ Ep(gs, n) <= r /\ p <= r
      BY <3>2 DEF JoinsLast, n
    <3>4. n \in 1 .. n
      BY <1>1, <3>3
    <3>5. Over(gs, n, a)
      BY <1>2, <1>7, <3>1, <3>3, <3>4 DEF Over
    <3>6. Waits(gs, a, Ep(gs, n))
      BY <3>4, <3>5 DEF Waits, n
    <3>7. Stands(hs, i, a, Ep(gs, n), r)
      BY <1>2, <1>6, <3>4, <3>6
    <3>8. PICK k \in 1 .. i : /\ Over(hs, k, a)
                              /\ Ep(hs, k) > r => Ep(gs, n) = Ep(hs, k)
      BY <3>7 DEF Stands
    <3>9. ~ (Ep(hs, k) > r)
      <4>1. Ep(gs, n) \in Nat
        BY <1>2, <3>4
      <4> QED
        BY <3>3, <3>8, <4>1
    <3> QED
      BY <1>3, <3>3, <3>8, <3>9 DEF Stands
  <2> QED
    BY <2>1, <2>2
<1>8. ASSUME NEW a \in Nat, NEW q \in Nat, Waits(fs, a, q) PROVE Stands(hs, m, a, q, r)
  <2>1. CASE s <= a /\ a < Hi(hs, m) /\ q = p
    BY <1>7, <2>1
  <2>2. CASE \E k \in 1 .. n : Over(gs, k, a) /\ Ep(gs, k) = q
    <3>1. Waits(gs, a, q)
      BY <2>2 DEF Waits, n
    <3> QED
      BY <1>5, <1>6, <3>1
  <2> QED
    BY <1>4, <1>8, <2>1, <2>2
<1>9. ASSUME NEW a \in Nat, Free(fs, a) PROVE \E k \in 1 .. m : Over(hs, k, a)
  <2>1. PICK q \in Nat : Waits(fs, a, q)
    BY <1>2, <1>9 DEF Free, Waits
  <2> QED
    BY <1>8, <2>1 DEF Stands
<1>10. ASSUME NEW a \in Nat, NEW k \in 1 .. m, Over(hs, k, a) PROVE Free(fs, a)
  <2>0. s <= Lo(hs, m)
    <3>1. CASE JoinsLast(gs, hs, m, b, s, p, r)
      <4>1. n > 0 /\ s = Lo(gs, n) /\ Hi(gs, n) = Lo(hs, m)
        BY <3>1 DEF JoinsLast, n
      <4>2. n \in 1 .. n /\ n \in 1 .. Len(gs)
        BY <1>1, <4>1 DEF n
      <4>3. Lo(gs, n) < Hi(gs, n)
        BY <4>2 DEF Settled, Ordered
      <4> QED
        BY <1>2, <4>1, <4>2, <4>3
    <3>2. CASE FollowsLast(gs, hs, m, b, s, p, r)
      BY <1>1, <3>2 DEF FollowsLast
    <3> QED
      BY <3>1, <3>2
  <2>1. ASSUME s <= a, a < Hi(hs, m) PROVE Free(fs, a)
    <3>1. Waits(fs, a, p)
      BY <1>1, <1>4, <2>1
    <3> QED
      BY <3>1 DEF Waits, Free
  <2>2. CASE k = m
    <3>1. s <= a /\ a < Hi(hs, m)
      BY <1>1, <1>2, <1>10, <2>0, <2>2 DEF Over
    <3> QED
      BY <2>1, <3>1
  <2>3. CASE k \in 1 .. i
    <3>1. Free(gs, a)
      BY <1>6, <1>10, <2>3
    <3>2. PICK j \in 1 .. n : Over(gs, j, a)
      BY <3>1 DEF Free, n
    <3>3. CASE j <= b
      BY <1>2, <1>4, <3>2, <3>3, Zenon DEF Waits, Free
    <3>4. CASE ~ (j <= b)
      <4>1. JoinsLast(gs, hs, m, b, s, p, r)
        BY <1>1, <3>4 DEF FollowsLast, n
      <4>2. b = n - 1 /\ s = Lo(gs, n) /\ Hi(gs, n) = Lo(hs, m)
        BY <4>1 DEF JoinsLast, n
      <4>3. j = n /\ j \in 1 .. Len(gs)
        BY <1>1, <3>4, <4>2 DEF n
      <4>4. Lo(hs, m) < Hi(hs, m)
        BY DEF Ordered
      <4>5. s <= a /\ a < Hi(hs, m)
        BY <1>2, <3>2, <4>2, <4>3, <4>4 DEF Over
      <4> QED
        BY <2>1, <4>5
    <3> QED
      BY <3>3, <3>4
  <2> QED
    BY <1>3a, <2>2, <2>3
<1> QED
  BY <1>8, <1>9, <1>10

\* Appending is inserting at the end.
LEMMA AppendInserts ==
  ASSUME NEW hs \in Seq(Holes), NEW h \in Holes
  PROVE  Append(hs, h) = Insert(hs, Len(hs) + 1, h)
<1> DEFINE F == Append(hs, h)
           G == Insert(hs, Len(hs) + 1, h)
<1>1. F \in Seq(Holes) /\ Len(F) = Len(hs) + 1
  OBVIOUS
<1>2. \A j \in 1 .. Len(hs) + 1 : F[j] = IF j < Len(hs) + 1 THEN hs[j] ELSE h
  OBVIOUS
<1>3. \A j \in 1 .. Len(hs) + 1 : G[j] = IF j < Len(hs) + 1 THEN hs[j] ELSE h
  BY DEF Insert
<1>4. /\ F = [j \in 1 .. Len(hs) + 1 |-> F[j]]
      /\ G = [j \in 1 .. Len(hs) + 1 |-> G[j]]
  <2>1. F = [j \in 1 .. Len(hs) + 1 |-> F[j]]
    <3> HIDE DEF F
    <3> QED BY <1>1
  <2> QED
    BY <2>1 DEF Insert
<1> HIDE DEF F, G
<1>5. F = G
  BY <1>2, <1>3, <1>4
<1> QED
  BY <1>5 DEF F, G

\* One round of the loop.
LEMMA SettleStep ==
  ASSUME NEW hs \in Seq(Holes), Ordered(hs), NEW r \in Nat, NEW i \in 0 .. Len(hs) - 1,
         NEW gs, Settled(gs, hs, i, r)
  PROVE  Settled(Kept(gs, hs[i + 1], r), hs, i + 1, r)
<1> DEFINE n == Len(gs)
           m == i + 1
           fs == Kept(gs, hs[m], r)
           c == n + 1
           lo == Lo(hs, m)
           hi == Hi(hs, m)
           ep == Ep(hs, m)
<1>1. /\ gs \in Seq(Holes) /\ Ordered(gs) /\ n <= i /\ Apart(gs, r)
      /\ i > 0 => n > 0 /\ Hi(gs, n) = Hi(hs, i)
  BY DEF Settled
<1>2. n \in Nat /\ i \in Nat /\ Len(hs) \in Nat /\ m \in 1 .. Len(hs) /\ m = i + 1
  BY <1>1, Listed
<1>3. lo \in Nat /\ hi \in Nat /\ ep \in Nat /\ lo < hi
  BY <1>2, Listed DEF Ordered
<1>4. \A k \in 1 .. n : Lo(gs, k) \in Nat /\ Hi(gs, k) \in Nat /\ Ep(gs, k) \in Nat
  BY <1>1, Listed
<1> DEFINE merges == n > 0 /\ Hi(gs, n) = lo /\ Ep(gs, n) <= r /\ ep <= r
<1>5. fs = IF merges THEN Put(gs, n, Hole(Lo(gs, n), hi, Later(Ep(gs, n), ep)))
           ELSE Append(gs, hs[m])
  BY Zenon DEF Kept, Interchangeable, Put, Lo, Hi, Ep
<1>6. n > 0 => n \in 1 .. n /\ Hi(gs, n) <= lo
  <2>1. n > 0 => i > 0 /\ i \in 1 .. Len(hs) /\ m \in 1 .. Len(hs) /\ i < m
    BY <1>1, <1>2
  <2>2. n > 0 => Hi(hs, i) <= lo
    BY <2>1 DEF Ordered
  <2> QED
    BY <1>1, <1>2, <2>1, <2>2
<1> HIDE DEF fs, lo, hi, ep
<1>7. \E b, s, p : /\ Splice(fs, gs, b, c, s, hi, p)
                   /\ JoinsLast(gs, hs, m, b, s, p, r) \/ FollowsLast(gs, hs, m, b, s, p, r)
  <2>1. CASE merges
    <3> DEFINE b == n - 1
               s == Lo(gs, n)
               p == Later(Ep(gs, n), ep)
    <3>1. n \in 1 .. n /\ s \in Nat /\ Ep(gs, n) \in Nat /\ s < Hi(gs, n) /\ Hi(gs, n) \in Nat
      BY <1>1, <1>4, <1>6, <2>1 DEF Ordered
    <3>2. p \in Nat /\ p <= r /\ s < hi
      BY <1>3, <2>1, <3>1 DEF Later
    <3>3. /\ b > 0 => Hi(gs, b) <= s
          /\ c <= n => hi <= Lo(gs, c)
      <4>1. b > 0 => b \in 1 .. Len(gs) /\ n \in 1 .. Len(gs) /\ b < n
        BY <1>2
      <4>2. ~ (c <= n)
        BY <1>2
      <4> QED
        BY <1>1, <4>1, <4>2 DEF Ordered
    <3>4. fs = Put(gs, n, Hole(s, hi, p))
      BY <1>5, <2>1
    <3> HIDE DEF p, merges
    <3>5. Splice(fs, gs, b, c, s, hi, p)
      BY <1>1, <1>3, <3>1, <3>2, <3>3, <3>4, PutSplice, Zenon
    <3>6. JoinsLast(gs, hs, m, b, s, p, r)
      BY <2>1, <3>2 DEF JoinsLast, merges, lo, ep
    <3> QED
      BY <3>5, <3>6
  <2>2. CASE ~ merges
    <3>1. fs = Append(gs, hs[m])
      BY <1>5, <2>2, Zenon
    <3>2. hs[m] = Hole(lo, hi, ep) /\ hs[m] \in Holes
      <4>1. hs[m] \in Holes
        BY <1>2
      <4>2. ASSUME NEW h \in Holes PROVE h = Hole(h.start, h.end, h.ready)
        BY DEF Holes, Hole
      <4> QED
        BY <4>1, <4>2, Zenon DEF lo, hi, ep, Lo, Hi, Ep
    <3>3. fs = Insert(gs, c, Hole(lo, hi, ep))
      <4>1. ASSUME NEW h \in Holes PROVE Append(gs, h) = Insert(gs, c, h)
        BY <1>1, AppendInserts
      <4> QED
        BY <3>1, <3>2, <4>1
    <3>4. c \in 1 .. n + 1 /\ c - 1 = n /\ ~ (c <= n)
      BY <1>2
    <3>5. Splice(fs, gs, c - 1, c, lo, hi, ep)
      <4>1. c - 1 > 0 => Hi(gs, c - 1) <= lo
        BY <1>6, <3>4
      <4> QED
        BY <1>1, <1>3, <3>3, <3>4, <4>1, InsertSplice, Zenon
    <3>6. FollowsLast(gs, hs, m, c - 1, lo, ep, r)
      BY <2>2, <3>4 DEF FollowsLast, lo, ep
    <3> QED
      BY <3>5, <3>6
  <2> QED
    BY <2>1, <2>2
<1>8. PICK b, s, p : /\ Splice(fs, gs, b, c, s, hi, p)
                     /\ JoinsLast(gs, hs, m, b, s, p, r) \/ FollowsLast(gs, hs, m, b, s, p, r)
  BY <1>7
<1>9. /\ \A a, q \in Nat : Waits(fs, a, q) => Stands(hs, m, a, q, r)
      /\ \A a \in Nat : Free(fs, a) <=> \E k \in 1 .. m : Over(hs, k, a)
  <2> HIDE DEF m
  <2> QED BY <1>2, <1>8, SettleAddresses, Zenon DEF hi
<1> HIDE DEF m, merges
<1>10. /\ fs \in Seq(Holes) /\ Len(fs) = n + b + 2 - c /\ Hi(fs, b + 1) = hi
       /\ b \in 0 .. n /\ p \in Nat
  <2> HIDE DEF c
  <2> QED BY <1>8 DEF Splice, Is
<1>11. Len(fs) > 0 /\ Len(fs) <= m /\ b + 1 = Len(fs)
  BY <1>1, <1>2, <1>10
<1>12. Apart(fs, r)
  <2>1. ASSUME p <= r, b > 0, Ep(gs, b) <= r, Hi(gs, b) = s PROVE FALSE
    <3>1. CASE FollowsLast(gs, hs, m, b, s, p, r)
      BY <2>1, <3>1 DEF FollowsLast
    <3>2. CASE JoinsLast(gs, hs, m, b, s, p, r)
      <4>1. b = n - 1 /\ s = Lo(gs, n) /\ Ep(gs, n) <= r
        BY <3>2 DEF JoinsLast
      <4>2. n \in 2 .. Len(gs) /\ n - 1 = b
        BY <1>2, <2>1, <4>1
      <4> HIDE DEF n
      <4> QED
        BY <1>1, <2>1, <4>1, <4>2 DEF Apart
    <3> QED
      BY <1>8, <3>1, <3>2
  <2>2. ~ (c <= n)
    BY <1>2
  <2> HIDE DEF c
  <2> QED
    BY <1>1, <1>8, <2>1, <2>2, SpliceApart
<1>13. Ordered(fs)
  <2> HIDE DEF c
  <2> QED BY <1>8, SpliceOrdered
<1>14. Settled(fs, hs, m, r)
  BY <1>9, <1>10, <1>11, <1>12, <1>13 DEF Settled, hi
<1> QED
  BY <1>14 DEF fs, m

\* The recursion of Settle, unfolded.
LEMMA SettleRuns ==
  ASSUME NEW hs \in Seq(Holes), NEW r \in Nat
  PROVE  \E f : /\ f[0] = <<>>
                /\ \A i \in 1 .. Len(hs) : f[i] = Kept(f[i - 1], hs[i], r)
                /\ Settle(hs, r) = f[Len(hs)]
<1> DEFINE n == Len(hs)
           Ext(i, q) == Kept(q, hs[i], r)
           Body(f) == [i \in 0 .. n |-> IF i = 0 THEN <<>> ELSE Ext(i, f[i - 1])]
           F == CHOOSE f : f = Body(f)
           g == [i \in 1 .. n |-> [q \in Seq(Holes) |-> Ext(i, q)]]
<1>0. n \in Nat
  BY Listed
<1>1. \A i \in 1 .. n, q \in Seq(Holes) : Ext(i, q) \in Seq(Holes)
  <2> SUFFICES ASSUME NEW i \in 1 .. n, NEW q \in Seq(Holes) PROVE Kept(q, hs[i], r) \in Seq(Holes)
    OBVIOUS
  <2>1. hs[i] \in Holes
    OBVIOUS
  <2>2. ASSUME NEW h \in Holes PROVE Kept(q, h, r) \in Seq(Holes)
    <3>1. /\ Len(q) \in Nat
          /\ \A j \in 1 .. Len(q) : Lo(q, j) \in Nat /\ Hi(q, j) \in Nat /\ Ep(q, j) \in Nat
      BY Listed
    <3>2. h.start \in Nat /\ h.end \in Nat /\ h.ready \in Nat
      BY DEF Holes
    <3>3. CASE Len(q) > 0
      <4> DEFINE e == Hole(Lo(q, Len(q)), h.end, Later(Ep(q, Len(q)), h.ready))
      <4>1. Len(q) \in 1 .. Len(q)
        BY <3>1, <3>3
      <4>2. e \in Holes
        <5>1. /\ Lo(q, Len(q)) \in Nat /\ Ep(q, Len(q)) \in Nat
          BY <3>1, <4>1
        <5>2. Later(Ep(q, Len(q)), h.ready) \in Nat
          BY <3>2, <5>1 DEF Later
        <5> QED
          BY <3>2, <5>1, <5>2 DEF Hole, Holes
      <4>3. Kept(q, h, r) = Put(q, Len(q), e) \/ Kept(q, h, r) = Append(q, h)
        BY Zenon DEF Kept, Put, Lo, Ep
      <4> HIDE DEF e
      <4>4. Put(q, Len(q), e) \in Seq(Holes) /\ Append(q, h) \in Seq(Holes)
        BY <4>1, <4>2 DEF Put
      <4> QED
        BY <4>3, <4>4, Zenon
    <3>4. CASE ~ (Len(q) > 0)
      <4>1. Kept(q, h, r) = Append(q, h)
        BY <3>4, Zenon DEF Kept
      <4> QED
        BY <4>1
    <3> QED
      BY <3>3, <3>4
  <2> QED
    BY <2>1, <2>2
<1>2. Settle(hs, r) = F[n]
  BY DEF Settle
<1> HIDE DEF n, Ext
<1>4. PICK f \in [0 .. n -> Seq(Holes)] :
        f[0] = <<>> /\ \A i \in 1 .. n : f[i] = g[i][f[i - 1]]
  <2> DEFINE Y == Seq(Holes)
             e == <<>>
  <2>1. e \in Y
    OBVIOUS
  <2>2. \A i \in 1 .. n : \A q \in Y : g[i][q] \in Y
    BY <1>1
  <2> HIDE DEF g, Y, e
  <2>3. Iterable(Y, n, e, g)
    BY <1>0, <2>1, <2>2, Iterates
  <2> QED
    BY <2>3, Zenon DEF Y, e, Iterable
<1>5. f = Body(f)
  <2>1. ASSUME NEW i \in 1 .. n PROVE f[i] = Ext(i, f[i - 1])
    <3>1. f[i - 1] \in Seq(Holes)
      BY <1>0
    <3>2. g[i][f[i - 1]] = Ext(i, f[i - 1])
      BY <3>1
    <3> QED
      BY <1>4, <3>2
  <2>2. ASSUME NEW i \in 0 .. n PROVE f[i] = Body(f)[i]
    BY <1>0, <1>4, <2>1
  <2> QED
    BY <2>2
<1>6. F = Body(F)
  <2> HIDE DEF Body
  <2> QED
    BY <1>5
<1> HIDE DEF F
<1>7. F[0] = <<>> /\ \A i \in 1 .. n : F[i] = Ext(i, F[i - 1])
  BY <1>0, <1>6
<1> QED
  BY <1>2, <1>7 DEF n, Ext

\* Settling moves no address: the list stays ordered and no longer than it was, what
\* could be one is one, and what waited for an epoch to come still does.
LEMMA SettleKeeps ==
  ASSUME NEW hs \in Seq(Holes), Ordered(hs), NEW r \in Nat
  PROVE  Settled(Settle(hs, r), hs, Len(hs), r)
<1>1. PICK f : /\ f[0] = <<>>
               /\ \A i \in 1 .. Len(hs) : f[i] = Kept(f[i - 1], hs[i], r)
               /\ Settle(hs, r) = f[Len(hs)]
  BY SettleRuns
<1> DEFINE B == {i \in 0 .. Len(hs) : Settled(f[i], hs, i, r)}
<1>2. Len(hs) \in Nat
  BY Listed
<1>3. 0 \in B
  <2>1. Settled(<<>>, hs, 0, r)
    <3>1. <<>> \in Seq(Holes) /\ Len(<<>>) = 0
      OBVIOUS
    <3>2. 1 .. 0 = {} /\ 2 .. 0 = {}
      OBVIOUS
    <3> DEFINE e == <<>>
    <3> HIDE DEF e
    <3>3. e \in Seq(Holes) /\ Len(e) = 0
      BY <3>1 DEF e
    <3>4. Settled(e, hs, 0, r)
      BY <3>2, <3>3 DEF Settled, Ordered, Apart, Free, Waits
    <3> QED
      BY <3>4 DEF e
  <2>2. 0 \in 0 .. Len(hs)
    BY <1>2
  <2> QED
    BY <1>1, <2>1, <2>2, Zenon
<1>4. ASSUME NEW i \in 0 .. Len(hs) - 1, i \in B PROVE i + 1 \in B
  <2>1. i + 1 \in 1 .. Len(hs) /\ i + 1 \in 0 .. Len(hs) /\ (i + 1) - 1 = i
    BY <1>2
  <2>2. Settled(f[i], hs, i, r)
    BY <1>4, Zenon
  <2>3. Settled(Kept(f[i], hs[i + 1], r), hs, i + 1, r)
    BY <2>2, SettleStep, Zenon
  <2>4. f[i + 1] = Kept(f[(i + 1) - 1], hs[i + 1], r)
    BY <1>1, <2>1, Zenon
  <2>5. f[i + 1] = Kept(f[i], hs[i + 1], r)
    BY <2>1, <2>4, Zenon
  <2> QED
    BY <2>1, <2>3, <2>5, Zenon
<1>5. \A i \in 0 .. Len(hs) : i \in B
  <2> HIDE DEF B
  <2> QED
    BY <1>2, <1>3, <1>4, Induction, Zenon
<1>6. Len(hs) \in 0 .. Len(hs)
  BY <1>2
<1> QED
  BY <1>1, <1>5, <1>6, Zenon

=============================================================================
