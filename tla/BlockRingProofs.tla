--------------------------- MODULE BlockRingProofs ---------------------------
(***************************************************************************)
(* Whatever order the device answers in and however full the ring is, the  *)
(* volume's buffers hold what the device would answer, and every request   *)
(* it waits for is in one place of the ring.  The operators take values    *)
(* rather than variables, so that a lemma about them serves both ends of a *)
(* step.                                                                   *)
(***************************************************************************)
EXTENDS BlockRing, Facts, FiniteSetTheorems

\* The reads at the device: the slots they fill, their ids and their blocks.
Fly(ss, i) == i \in DOMAIN ss /\ ss[i].at = "flight"
Sid(ss, i) == ss[i].id
Sbl(ss, i) == ss[i].block

\* What the volume is waiting for, when its slots are ss and its call is c.
Wanted(ss, c) == {ss[i].id: i \in {j \in DOMAIN ss: ss[j].at = "flight"}}
                 \cup (IF c.pc = "settle" THEN {c.id} ELSE {})

Ids(S) == {r.id: r \in S}
Only(x) == {x} \ {None}
Sole(q) == \A i, j \in DOMAIN q: q[i].id = q[j].id => i = j
SoleIn(S) == \A a, b \in S: a.id = b.id => a = b

\* Each member of A is in one of the six sets, and no other value is in any.
One(A, s, h, d, p, c, k) ==
  \A x: /\ x \in A <=> x \in s \/ x \in h \/ x \in d \/ x \in p \/ x \in c \/ x \in k
        /\ x \in s => x \notin h /\ x \notin d /\ x \notin p /\ x \notin c /\ x \notin k
        /\ x \in h => x \notin d /\ x \notin p /\ x \notin c /\ x \notin k
        /\ x \in d => x \notin p /\ x \notin c /\ x \notin k
        /\ x \in p => x \notin c /\ x \notin k
        /\ x \in c => x \notin k

-----------------------------------------------------------------------------
(* The invariant. *)

Slots == [at: {"here", "flight", "lent"}, block: Opt(Blocks), value: BOOLEAN,
          id: Opt(0..DEPTH)]

VolumeTyped(ss, h) ==
  /\ ss \in Seq(Slots) /\ Len(ss) <= SLOTS
  /\ h \in 1..SLOTS /\ (h <= Len(ss) \/ h = 1)

RingTyped(s, q, k) ==
  /\ s \in Seq(Requests) /\ Len(s) <= DEPTH
  /\ q \in Seq(Answers) /\ Len(q) <= DEPTH
  /\ k \in SUBSET Answers

Drivers == [pending: Opt(Answers), held: Opt(Requests), outstanding: Nat, barrier: BOOLEAN]

DriverTyped(d, v) ==
  /\ d \in Drivers
  /\ v \in SUBSET Requests /\ IsFiniteSet(v)
  /\ d.outstanding = Cardinality(v) /\ d.outstanding <= QueueDepth

Calls ==
  [op: {"none", "block", "prefetch", "raw", "write", "flush", "commit"},
   pc: {"idle", "spare", "start", "land", "landspare", "stale", "landstale", "submit",
        "settle"},
   block: Opt(Blocks), slot: 0..SLOTS + 1, id: Opt(0..DEPTH)]

\* Which operation is in which of its steps, and what it is about.
Stage(c) ==
  /\ c.pc \in {"spare", "start", "land", "landspare"} => c.op \in {"block", "prefetch"}
  /\ c.pc \in {"stale", "landstale"} => c.op \in {"write", "commit"}
  /\ c.pc \in {"submit", "settle"} => c.op \in {"raw", "write", "flush"}
  /\ c.op \in {"block", "prefetch", "raw", "write"} => c.block \in Blocks

\* The reads at the device are of blocks, each under an id of its own.
Flights(ss) ==
  /\ \A i \in DOMAIN ss: Fly(ss, i) => Sid(ss, i) \in 0..DEPTH /\ Sbl(ss, i) \in Blocks
  /\ \A i, j \in DOMAIN ss: Fly(ss, i) /\ Fly(ss, j) /\ Sid(ss, i) = Sid(ss, j) => i = j

\* Where the call's slot may point.
Aims(c, ss) ==
  /\ c.pc \in {"start", "land", "landspare", "landstale"} => c.slot \in DOMAIN ss
  /\ c.pc = "start" => ~Fly(ss, c.slot)
  /\ c.pc = "stale" => c.slot \in 1..Len(ss) + 1

\* A write's sweep leaves no slot behind it that holds or fetches the block.
Swept(c, ss) ==
  c.op = "write" =>
    /\ c.pc \in {"stale", "landstale"} =>
         \A i \in DOMAIN ss: i < c.slot => ~Holds(ss[i], c.block)
    /\ c.pc \in {"submit", "settle"} => \A i \in DOMAIN ss: ~Holds(ss[i], c.block)

\* The scratch buffer's request has an id of its own.
Scratch(c, ss) ==
  c.pc = "settle" =>
    c.id \in 0..DEPTH /\ \A i \in DOMAIN ss: Fly(ss, i) => Sid(ss, i) # c.id

\* A request is what the slot or the call that awaits it asked for.
Asked(r, c, ss) ==
  /\ \A i \in DOMAIN ss: Fly(ss, i) /\ Sid(ss, i) = r.id => r.kind = "read" /\ r.block = Sbl(ss, i)
  /\ c.pc = "settle" /\ c.id = r.id =>
       r.kind = (IF c.op = "raw" THEN "read" ELSE c.op) /\ r.block = c.block

Asks(s, d, v, c, ss) ==
  \A r \in ToSet(s) \cup Only(d.held) \cup v: Asked(r, c, ss)

\* An answer to a slot's read is still what the device would answer.
Told(a, ss, dk) ==
  \A i \in DOMAIN ss: Fly(ss, i) /\ Sid(ss, i) = a.id /\ a.ok => a.value = dk[Sbl(ss, i)]

Tells(d, q, k, ss, dk) ==
  \A a \in Only(d.pending) \cup ToSet(q) \cup k: Told(a, ss, dk)

\* The answer the scratch buffer waits for is never set aside.
Aside(k, c) == \A a \in k: ~(c.pc = "settle" /\ c.id = a.id)

\* Every request awaited is in one place, once.
Spread(A, s, d, v, q, k) ==
  /\ One(A, Ids(ToSet(s)), Ids(Only(d.held)), Ids(v), Ids(Only(d.pending)), Ids(ToSet(q)),
         Ids(k))
  /\ Sole(s) /\ Sole(q) /\ SoleIn(v) /\ SoleIn(k)

Fresh(ss, dk) ==
  \A i \in DOMAIN ss: ss[i].at = "here" /\ ss[i].block # None => ss[i].value = dk[ss[i].block]

Alone(d, v) == \A r \in v: r.kind = "flush" => v = {r} /\ d.barrier

Typed ==
  /\ disk \in [Blocks -> BOOLEAN] /\ VolumeTyped(slots, hand) /\ RingTyped(sq, cq, parked)
  /\ DriverTyped(driver, device) /\ call \in Calls
  /\ turn \in {"client", "drain", "feed"} /\ moved \in BOOLEAN

Calling ==
  /\ Stage(call) /\ Aims(call, slots) /\ Swept(call, slots) /\ Scratch(call, slots)
  /\ Flights(slots)

Ringing ==
  /\ Spread(Wanted(slots, call), sq, driver, device, cq, parked)
  /\ Asks(sq, driver, device, call, slots)
  /\ Tells(driver, cq, parked, slots, disk)
  /\ Aside(parked, call)

IInv == Typed /\ Calling /\ Ringing /\ Fresh(slots, disk) /\ Alone(driver, device)

-----------------------------------------------------------------------------
(* The six places. *)

\* Delivering, reaping, feeding, holding back and submitting move one id.
LEMMA Hops ==
  ASSUME NEW A, NEW s, NEW h, NEW d, NEW p, NEW c, NEW k, NEW x, One(A, s, h, d, p, c, k)
  PROVE  /\ p = {x} => One(A, s, h, d, {}, c \cup {x}, k)
         /\ p = {} /\ x \in d => One(A, s, h, d \ {x}, {x}, c, k)
         /\ h = {x} => One(A, s, {}, d \cup {x}, p, c, k)
         /\ h = {} /\ x \in s => One(A, s \ {x}, {}, d \cup {x}, p, c, k)
         /\ h = {} /\ x \in s => One(A, s \ {x}, {x}, d, p, c, k)
         /\ x \notin A => One(A \cup {x}, s \cup {x}, h, d, p, c, k)
<1>1. p = {x} => One(A, s, h, d, {}, c \cup {x}, k)
  BY DEF One
<1>2. p = {} /\ x \in d => One(A, s, h, d \ {x}, {x}, c, k)
  BY DEF One
<1>3. h = {x} => One(A, s, {}, d \cup {x}, p, c, k)
  BY DEF One
<1>4. h = {} /\ x \in s => One(A, s \ {x}, {}, d \cup {x}, p, c, k)
  BY DEF One
<1>5. h = {} /\ x \in s => One(A, s \ {x}, {x}, d, p, c, k)
  BY DEF One
<1>6. x \notin A => One(A \cup {x}, s \cup {x}, h, d, p, c, k)
  BY DEF One
<1> QED
  BY <1>1, <1>2, <1>3, <1>4, <1>5, <1>6

\* The queue and the parked answers e and l hold what c and k held, without x.
Sifted(c, k, e, l, x) ==
  \A y: /\ y \in e \/ y \in l <=> (y \in c \/ y \in k) /\ y # x
        /\ y \in e => y \notin l

\* Taking an answer moves ids from the queue to the parked ones and removes the
\* one taken, if it is there.
LEMMA Sifts ==
  ASSUME NEW A, NEW s, NEW h, NEW d, NEW p, NEW c, NEW k, NEW x, One(A, s, h, d, p, c, k),
         NEW e, NEW l, Sifted(c, k, e, l, x)
  PROVE  /\ x \in c \/ x \in k => One(A \ {x}, s, h, d, p, e, l)
         /\ x \notin c /\ x \notin k => One(A, s, h, d, p, e, l)
<1>1. x \in c \/ x \in k => One(A \ {x}, s, h, d, p, e, l)
  BY DEF One, Sifted
<1>2. x \notin c /\ x \notin k => One(A, s, h, d, p, e, l)
  BY DEF One, Sifted
<1> QED
  BY <1>1, <1>2

\* What is in the places is awaited, in one of them.
LEMMA Places ==
  ASSUME NEW A, NEW s, NEW d, NEW v, NEW q, NEW k, Spread(A, s, d, v, q, k)
  PROVE  /\ \A r \in ToSet(s) \cup Only(d.held) \cup v: r.id \in A
         /\ \A r \in Only(d.pending) \cup ToSet(q) \cup k: r.id \in A
  BY DEF Spread, One, Ids

\* Option values: none, or the one.
LEMMA Options ==
  /\ Only(None) = {} /\ Ids({}) = {}
  /\ \A r: r # None => Only(r) = {r}
  /\ \A r: Ids({r}) = {r.id}
  BY DEF Only, Ids

\* A set's ids, with one element more and one element less.
LEMMA SetIds ==
  ASSUME NEW S, NEW r, SoleIn(S)
  PROVE  /\ Ids(S \cup {r}) = Ids(S) \cup {r.id}
         /\ r.id \notin Ids(S) => SoleIn(S \cup {r})
         /\ r \in S => /\ Ids(S \ {r}) = Ids(S) \ {r.id}
                       /\ r.id \in Ids(S)
         /\ SoleIn(S \ {r})
<1>1. Ids(S \cup {r}) = Ids(S) \cup {r.id}
  BY DEF Ids
<1>2. ASSUME r.id \notin Ids(S) PROVE SoleIn(S \cup {r})
  BY <1>2 DEF Ids, SoleIn
<1>3. ASSUME r \in S PROVE Ids(S \ {r}) = Ids(S) \ {r.id} /\ r.id \in Ids(S)
  BY <1>3 DEF Ids, SoleIn
<1>4. SoleIn(S \ {r})
  BY DEF SoleIn
<1> QED
  BY <1>1, <1>2, <1>3, <1>4

\* A queue with one element more.
LEMMA Pushed ==
  ASSUME NEW T, NEW q \in Seq(T), NEW e \in T, Sole(q)
  PROVE  /\ Append(q, e) \in Seq(T) /\ Len(Append(q, e)) = Len(q) + 1
         /\ ToSet(Append(q, e)) = ToSet(q) \cup {e}
         /\ Ids(ToSet(Append(q, e))) = Ids(ToSet(q)) \cup {e.id}
         /\ e.id \notin Ids(ToSet(q)) => Sole(Append(q, e))
<1> DEFINE u == Append(q, e)
<1>1. u \in Seq(T) /\ Len(u) = Len(q) + 1 /\ Len(q) \in Nat /\ DOMAIN q = 1..Len(q)
      /\ DOMAIN u = 1..Len(q) + 1
  OBVIOUS
<1>2. \A i \in 1..Len(q): u[i] = q[i]
  OBVIOUS
<1>3. u[Len(q) + 1] = e
  OBVIOUS
<1> HIDE DEF u
<1>4. ToSet(u) = ToSet(q) \cup {e}
  <2>1. \A i \in 1..Len(q) + 1: i \in 1..Len(q) \/ i = Len(q) + 1
    BY <1>1
  <2>2. \A x \in ToSet(u): x \in ToSet(q) \cup {e}
    BY <1>1, <1>2, <1>3, <2>1 DEF ToSet
  <2>3. \A x \in ToSet(q): x \in ToSet(u)
    BY <1>1, <1>2 DEF ToSet
  <2>4. e \in ToSet(u)
    BY <1>1, <1>3 DEF ToSet
  <2> QED
    BY <2>2, <2>3, <2>4
<1>5. Ids(ToSet(u)) = Ids(ToSet(q)) \cup {e.id}
  BY <1>4 DEF Ids
<1>6. ASSUME e.id \notin Ids(ToSet(q)) PROVE Sole(u)
  <2>1. \A i \in 1..Len(q): q[i].id # e.id
    BY <1>1, <1>6 DEF Ids, ToSet
  <2>2. \A i \in DOMAIN u: i \in 1..Len(q) \/ i = Len(q) + 1
    BY <1>1
  <2> SUFFICES ASSUME NEW i \in DOMAIN u, NEW j \in DOMAIN u, u[i].id = u[j].id PROVE i = j
    BY DEF Sole
  <2>3. CASE i \in 1..Len(q) /\ j \in 1..Len(q)
    BY <1>1, <1>2, <2>3 DEF Sole
  <2>4. CASE i = Len(q) + 1 \/ j = Len(q) + 1
    BY <1>2, <1>3, <2>1, <2>2, <2>4
  <2> QED
    BY <2>2, <2>3, <2>4
<1> QED
  BY <1>1, <1>4, <1>5, <1>6, Zenon DEF u

\* u is q without its first n elements.
Behind(T, q, n, u) ==
  /\ u \in Seq(T) /\ Len(u) = Len(q) - n /\ DOMAIN u = 1..Len(q) - n
  /\ \A i \in 1..Len(q) - n: u[i] = q[i + n]
  /\ Sole(q) => Sole(u)
  /\ ToSet(u) \in SUBSET ToSet(q)

\* The rest of a queue, after its first n elements.
LEMMA Suffix ==
  ASSUME NEW T, NEW q \in Seq(T), NEW n \in 0..Len(q), NEW u, u = SubSeq(q, n + 1, Len(q))
  PROVE  Behind(T, q, n, u)
<1>1. Len(q) \in Nat /\ DOMAIN q = 1..Len(q)
  OBVIOUS
<1>2. u \in Seq(T) /\ Len(u) = Len(q) - n /\ DOMAIN u = 1..Len(q) - n
  <2>1. u \in Seq(T)
    BY <1>1
  <2>2. Len(u) = Len(q) - n
    <3>1. Len(u) = IF n + 1 <= Len(q) THEN Len(q) - (n + 1) + 1 ELSE 0
      BY <1>1
    <3>2. \A l \in Nat: \A m \in 0..l: (IF m + 1 <= l THEN l - (m + 1) + 1 ELSE 0) = l - m
      OBVIOUS
    <3> QED
      BY <1>1, <3>1, <3>2, Zenon
  <2>3. DOMAIN u = 1..Len(u)
    BY <2>1
  <2> QED
    BY <2>1, <2>2, <2>3
<1>3. \A i \in 1..Len(q) - n: u[i] = q[i + n] /\ i + n \in 1..Len(q)
  BY <1>1
<1>4. ASSUME Sole(q) PROVE Sole(u)
  <2> SUFFICES ASSUME NEW i \in 1..Len(q) - n, NEW j \in 1..Len(q) - n, u[i].id = u[j].id
               PROVE  i = j
    BY <1>2, Zenon DEF Sole
  <2>1. q[i + n].id = q[j + n].id /\ i + n \in DOMAIN q /\ j + n \in DOMAIN q
    BY <1>1, <1>3
  <2>2. i + n = j + n
    BY <1>4, <2>1 DEF Sole
  <2> QED
    BY <1>1, <2>2
<1>5. ToSet(u) \in SUBSET ToSet(q)
  BY <1>1, <1>2, <1>3, Zenon DEF ToSet
<1> QED
  BY <1>2, <1>3, <1>4, <1>5 DEF Behind

\* A queue without its first element.
LEMMA Popped ==
  ASSUME NEW T, NEW q \in Seq(T), q # <<>>, Sole(q)
  PROVE  /\ Head(q) \in T /\ Head(q) \in ToSet(q)
         /\ Tail(q) \in Seq(T) /\ Len(Tail(q)) = Len(q) - 1
         /\ ToSet(Tail(q)) \in SUBSET ToSet(q)
         /\ Ids(ToSet(Tail(q))) = Ids(ToSet(q)) \ {Head(q).id}
         /\ Sole(Tail(q))
<1> DEFINE u == Tail(q)
           h == Head(q)
<1>1. Len(q) \in Nat /\ Len(q) # 0 /\ DOMAIN q = 1..Len(q)
  OBVIOUS
<1>2. u \in Seq(T) /\ Len(u) = Len(q) - 1 /\ DOMAIN u = 1..Len(q) - 1
  BY <1>1
<1>3. \A i \in 1..Len(q) - 1: u[i] = q[i + 1] /\ i + 1 \in 1..Len(q)
  BY <1>1
<1>4. h = q[1] /\ 1 \in 1..Len(q) /\ h \in T
  BY <1>1
<1> HIDE DEF u, h
<1>5. \A i \in 1..Len(q): i = 1 \/ (i - 1 \in 1..Len(q) - 1 /\ u[i - 1] = q[i])
  <2> TAKE i \in 1..Len(q)
  <2>1. CASE i # 1
    <3>1. i - 1 \in 1..Len(q) - 1 /\ (i - 1) + 1 = i
      BY <1>1, <2>1
    <3> QED
      BY <1>3, <3>1
  <2> QED
    BY <2>1
<1>6. ToSet(u) \in SUBSET ToSet(q)
  BY <1>1, <1>2, <1>3 DEF ToSet
<1>7. Sole(u)
  <2> SUFFICES ASSUME NEW i \in 1..Len(q) - 1, NEW j \in 1..Len(q) - 1, u[i].id = u[j].id
               PROVE  i = j
    BY <1>2 DEF Sole
  <2>1. q[i + 1].id = q[j + 1].id /\ i + 1 \in DOMAIN q /\ j + 1 \in DOMAIN q
    BY <1>1, <1>3
  <2>2. i + 1 = j + 1
    BY <2>1 DEF Sole
  <2> QED
    BY <1>1, <2>2
<1>8. Ids(ToSet(u)) = Ids(ToSet(q)) \ {h.id}
  <2>1. \A i \in 1..Len(q) - 1: u[i].id # h.id
    BY <1>1, <1>3, <1>4 DEF Sole
  <2>2. ASSUME NEW x \in Ids(ToSet(u)) PROVE x \in Ids(ToSet(q)) /\ x # h.id
    BY <1>2, <1>6, <2>1, Zenon DEF Ids, ToSet
  <2>3. ASSUME NEW x \in Ids(ToSet(q)), x # h.id PROVE x \in Ids(ToSet(u))
    <3>1. PICK i \in 1..Len(q): x = q[i].id
      BY <1>1 DEF Ids, ToSet
    <3>2. i - 1 \in 1..Len(q) - 1 /\ u[i - 1] = q[i]
      BY <1>4, <1>5, <2>3, <3>1
    <3> QED
      BY <1>2, <3>1, <3>2 DEF Ids, ToSet
  <2> QED
    BY <2>2, <2>3
<1>9. h \in ToSet(q)
  BY <1>1, <1>4 DEF ToSet
<1> QED
  BY <1>2, <1>4, <1>6, <1>7, <1>8, <1>9 DEF u, h

-----------------------------------------------------------------------------
(* Counting. *)

\* Only the empty set has no element.
LEMMA CountNone ==
  /\ IsFiniteSet({}) /\ Cardinality({}) = 0
  /\ \A S : IsFiniteSet(S) /\ Cardinality(S) = 0 => S = {}
  BY FS_EmptySet

\* A finite set with a new element is one larger.
LEMMA CountMore ==
  ASSUME NEW S, NEW x, IsFiniteSet(S), x \notin S
  PROVE  /\ IsFiniteSet(S \cup {x}) /\ Cardinality(S) \in Nat
         /\ Cardinality(S \cup {x}) = Cardinality(S) + 1
  BY FS_AddElement, FS_CardinalityType

\* A finite set without one of its elements is one smaller.
LEMMA CountLess ==
  ASSUME NEW S, NEW x \in S, IsFiniteSet(S)
  PROVE  /\ IsFiniteSet(S \ {x}) /\ Cardinality(S) \in Nat
         /\ Cardinality(S \ {x}) = Cardinality(S) - 1 /\ Cardinality(S \ {x}) \in Nat
<1>1. IsFiniteSet(S \ {x}) /\ Cardinality(S \ {x}) = Cardinality(S) - 1
  BY FS_RemoveElement
<1> QED
  BY <1>1, FS_CardinalityType

\* An interval from m has as many elements as it has numbers.
LEMMA CountRange ==
  ASSUME NEW m \in {0, 1}, NEW n \in Nat
  PROVE  IsFiniteSet(m .. n) /\ Cardinality(m .. n) = n - m + 1
<1>1. IsFiniteSet(m .. n) /\ Cardinality(m .. n) = IF m > n THEN 0 ELSE n - m + 1
  BY FS_Interval
<1> QED
  BY <1>1

\* A set that maps into a finite one without clashes is no larger.
LEMMA CountInto ==
  ASSUME NEW S, NEW T, IsFiniteSet(T), NEW f \in [S -> T], \A a, b \in S : f[a] = f[b] => a = b
  PROVE  /\ IsFiniteSet(S) /\ Cardinality(S) <= Cardinality(T)
         /\ Cardinality(S) \in Nat /\ Cardinality(T) \in Nat
<1>1. f \in Injection(S, T)
  BY DEF Injection, IsInjective
<1>2. IsFiniteSet(S) /\ Cardinality(S) <= Cardinality(T)
  BY <1>1, FS_Injection
<1> QED
  BY <1>2, FS_CardinalityType

-----------------------------------------------------------------------------
(* BlockClient: fresh ids, and taking an answer. *)

\* The least element of a set of naturals is in the set.
LEMMA LeastIn ==
  ASSUME NEW S \in SUBSET Nat, S # {}
  PROVE  Least(S) \in S
<1>1. \E i \in S: \A j \in S: i <= j
  BY LeastElement
<1> QED
  BY <1>1, Zenon DEF Least

\* What is awaited: the flights' ids and the scratch buffer's.
LEMMA WantedIs ==
  ASSUME NEW ss, NEW c
  PROVE  \A x: x \in Wanted(ss, c) <=>
                 (\E i \in DOMAIN ss: Fly(ss, i) /\ x = Sid(ss, i)) \/ (c.pc = "settle" /\ x = c.id)
  BY DEF Wanted, Fly, Sid

\* The volume waits for fewer requests than there are ids, so the next one is new.
LEMMA NewId ==
  ASSUME VolumeTyped(slots, hand), call.pc # "settle"
  PROVE  NextId \in 0..DEPTH /\ NextId \notin Wanted(slots, call)
<1> DEFINE W == Wanted(slots, call)
<1>1. Awaited = W
  BY DEF Awaited, Wanted
<1>2. \A x \in W: \E i \in DOMAIN slots: Sid(slots, i) = x
  BY WantedIs
<1>3. Len(slots) \in Nat /\ DOMAIN slots = 1..Len(slots) /\ Len(slots) < DEPTH /\ DEPTH \in Nat
  BY Geometry DEF VolumeTyped
<1>4. ASSUME (0..DEPTH) \ W = {} PROVE FALSE
  <2> DEFINE f == [x \in 0..DEPTH |-> CHOOSE i \in DOMAIN slots: Sid(slots, i) = x]
  <2>1. \A x \in 0..DEPTH: f[x] \in DOMAIN slots /\ Sid(slots, f[x]) = x
    BY <1>2, <1>4
  <2>2. f \in [0..DEPTH -> 1..Len(slots)]
    BY <1>3, <2>1
  <2> HIDE DEF f
  <2>3. \A x, y \in 0..DEPTH: f[x] = f[y] => x = y
    BY <2>1
  <2>4. Cardinality(0..DEPTH) = DEPTH - 0 + 1
    BY <1>3, CountRange
  <2>5. IsFiniteSet(1..Len(slots)) /\ Cardinality(1..Len(slots)) = Len(slots) - 1 + 1
    BY <1>3, CountRange
  <2>6. Cardinality(0..DEPTH) <= Cardinality(1..Len(slots))
    BY <2>2, <2>3, <2>5, CountInto, Zenon
  <2> QED
    BY <1>3, <2>4, <2>5, <2>6
<1>5. NextId \in (0..DEPTH) \ W
  <2> DEFINE S == (0..DEPTH) \ W
  <2>1. S \in SUBSET Nat /\ S # {}
    BY <1>3, <1>4
  <2>2. NextId = Least(S)
    BY <1>1 DEF NextId
  <2> HIDE DEF S
  <2>3. NextId \in S
    BY <2>1, <2>2, LeastIn
  <2> QED
    BY <2>3 DEF S
<1> QED
  BY <1>5

\* What `take` makes of the completion queue q and the parked answers k: all but
\* the answer taken stay, each still once.
Taken(q, k, u, l, id) ==
  /\ u \in Seq(Answers) /\ Len(u) <= DEPTH /\ l \in SUBSET Answers
  /\ ToSet(u) \cup l \subseteq ToSet(q) \cup k
  /\ \A a \in l: a.id # id
  /\ Sifted(Ids(ToSet(q)), Ids(k), Ids(ToSet(u)), Ids(l), id)
  /\ Sole(u) /\ SoleIn(l)

\* `take` passes the answers before the one it looks for, and parks them.
LEMMA Taking ==
  ASSUME NEW id, RingTyped(sq, cq, parked), Sole(cq), SoleIn(parked),
         \A x \in Ids(ToSet(cq)): x \notin Ids(parked), Take(id)
  PROVE  Taken(cq, parked, cq', parked', id)
<1> DEFINE n == Passed(id)
<1>1. Len(cq) \in Nat /\ DOMAIN cq = 1..Len(cq) /\ cq \in Seq(Answers) /\ Len(cq) <= DEPTH
      /\ DEPTH \in Nat /\ parked \in SUBSET Answers
  BY Geometry DEF RingTyped
<1>2. \A i \in 1..Len(cq): \A a \in parked: cq[i].id # a.id
  BY <1>1 DEF Ids, ToSet
<1>3. n \in 0..Len(cq) /\ \A i \in 1..Len(cq): cq[i].id = id => i <= n
  <2>1. CASE \E c \in parked: c.id = id
    BY <1>1, <1>2, <2>1 DEF Passed
  <2>2. CASE ~(\E c \in parked: c.id = id) /\ \E i \in DOMAIN cq: cq[i].id = id
    <3>1. n = CHOOSE i \in DOMAIN cq: cq[i].id = id
      BY <2>2 DEF Passed
    <3>2. n \in DOMAIN cq /\ cq[n].id = id
      BY <2>2, <3>1
    <3> HIDE DEF n
    <3>3. \A i \in 1..Len(cq): cq[i].id = id => i = n
      BY <1>1, <3>2 DEF Sole
    <3> QED
      BY <1>1, <3>2, <3>3
  <2>3. CASE ~(\E c \in parked: c.id = id) /\ ~(\E i \in DOMAIN cq: cq[i].id = id)
    BY <1>1, <2>3 DEF Passed
  <2> QED
    BY <2>1, <2>2, <2>3
<1> DEFINE pre == SubSeq(cq, 1, n)
<1>4. parked' = {c \in parked \cup ToSet(pre): c.id # id} /\ cq' = SubSeq(cq, n + 1, Len(cq))
  BY DEF Take
<1> HIDE DEF n
<1>5. \A c: c \in ToSet(pre) <=> \E i \in 1..n: c = cq[i]
  <2>1. DOMAIN pre = 1..n /\ \A i \in 1..n: pre[i] = cq[i]
    BY <1>1, <1>3
  <2> QED
    BY <2>1, Zenon DEF ToSet
<1> HIDE DEF pre
<1>6. /\ cq' \in Seq(Answers) /\ Len(cq') = Len(cq) - n /\ DOMAIN cq' = 1..Len(cq) - n
      /\ \A i \in 1..Len(cq) - n: cq'[i] = cq[i + n]
      /\ Sole(cq') /\ ToSet(cq') \in SUBSET ToSet(cq)
  <2>1. Behind(Answers, cq, n, cq')
    BY <1>1, <1>3, <1>4, Suffix, Zenon
  <2> QED
    BY <2>1 DEF Behind
<1>7. \A i \in 1..n: i \in 1..Len(cq) /\ cq[i] \in ToSet(cq) /\ cq[i] \in Answers
  BY <1>1, <1>3 DEF ToSet
<1>8. \A i \in 1..Len(cq) - n: i + n \in 1..Len(cq) /\ ~(i + n <= n)
  BY <1>1, <1>3
<1>9. \A i \in 1..Len(cq): i \in 1..n \/ (i - n \in 1..Len(cq) - n /\ (i - n) + n = i)
  BY <1>1, <1>3
<1>10. parked' \in SUBSET Answers /\ ToSet(cq') \cup parked' \subseteq ToSet(cq) \cup parked
  BY <1>1, <1>4, <1>5, <1>6, <1>7
<1>11. SoleIn(parked')
  <2> SUFFICES ASSUME NEW a \in parked', NEW b \in parked', a.id = b.id PROVE a = b
    BY DEF SoleIn
  <2>1. a \in parked \/ \E i \in 1..n: a = cq[i]
    BY <1>4, <1>5
  <2>2. b \in parked \/ \E i \in 1..n: b = cq[i]
    BY <1>4, <1>5
  <2>3. CASE a \in parked /\ b \in parked
    BY <2>3 DEF SoleIn
  <2>4. CASE a \in parked /\ \E i \in 1..n: b = cq[i]
    BY <1>2, <1>7, <2>4
  <2>5. CASE b \in parked /\ \E i \in 1..n: a = cq[i]
    BY <1>2, <1>7, <2>5
  <2>6. CASE (\E i \in 1..n: a = cq[i]) /\ (\E i \in 1..n: b = cq[i])
    BY <1>1, <1>7, <2>6 DEF Sole
  <2> QED
    BY <2>1, <2>2, <2>3, <2>4, <2>5, <2>6
<1>12. ASSUME NEW y \in Ids(ToSet(cq')) PROVE y \in Ids(ToSet(cq)) /\ y # id /\ y \notin Ids(parked')
  <2>1. PICK i \in 1..Len(cq) - n: y = cq'[i].id
    BY <1>6, <1>12 DEF Ids, ToSet
  <2>2. y = cq[i + n].id /\ i + n \in 1..Len(cq) /\ ~(i + n <= n)
    BY <1>6, <1>8, <2>1
  <2>3. y # id
    BY <1>3, <2>2
  <2>4. y \in Ids(ToSet(cq))
    BY <1>1, <2>2 DEF Ids, ToSet
  <2>5. ASSUME NEW a \in parked', a.id = y PROVE FALSE
    <3>1. CASE a \in parked
      BY <1>2, <2>2, <2>5, <3>1
    <3>2. ASSUME NEW j \in 1..n, a = cq[j] PROVE FALSE
      <4>1. j = i + n
        BY <1>1, <1>7, <2>2, <2>5, <3>2 DEF Sole
      <4> QED
        BY <1>3, <2>2, <4>1
    <3> QED
      BY <1>4, <1>5, <3>1, <3>2
  <2> QED
    BY <2>3, <2>4, <2>5 DEF Ids
<1>13. ASSUME NEW y \in Ids(parked') PROVE (y \in Ids(ToSet(cq)) \/ y \in Ids(parked)) /\ y # id
  BY <1>4, <1>10, <1>13 DEF Ids
<1>14. ASSUME NEW y, y \in Ids(ToSet(cq)) \/ y \in Ids(parked), y # id
       PROVE  y \in Ids(ToSet(cq')) \/ y \in Ids(parked')
  <2>1. CASE y \in Ids(parked)
    BY <1>4, <1>14, <2>1 DEF Ids
  <2>2. CASE y \in Ids(ToSet(cq))
    <3>1. PICK i \in 1..Len(cq): y = cq[i].id
      BY <1>1, <2>2 DEF Ids, ToSet
    <3>2. CASE i \in 1..n
      <4>1. cq[i] \in parked'
        BY <1>4, <1>5, <1>14, <3>1, <3>2
      <4> QED
        BY <3>1, <4>1 DEF Ids
    <3>3. CASE i - n \in 1..Len(cq) - n /\ (i - n) + n = i
      <4>1. cq'[i - n] = cq[i]
        BY <1>6, <3>3
      <4> QED
        BY <1>6, <3>1, <3>3, <4>1 DEF Ids, ToSet
    <3> QED
      BY <1>9, <3>2, <3>3
  <2> QED
    BY <1>14, <2>1, <2>2
<1>15. Sifted(Ids(ToSet(cq)), Ids(parked), Ids(ToSet(cq')), Ids(parked'), id)
  BY <1>12, <1>13, <1>14 DEF Sifted
<1>16. Len(cq') <= DEPTH
  BY <1>1, <1>3, <1>6
<1>17. \A a \in parked': a.id # id
  BY <1>4
<1> QED
  BY <1>6, <1>10, <1>11, <1>15, <1>16, <1>17 DEF Taken

\* An answer that landed is in the queue or set aside, under the id looked for.
LEMMA Answered ==
  ASSUME NEW id
  PROVE  /\ Landed(id) # {} <=> id \in Ids(ToSet(cq)) \/ id \in Ids(parked)
         /\ Landed(id) # {} => Answer(id) \in ToSet(cq) \cup parked /\ Answer(id).id = id
<1>1. Landed(id) # {} <=> id \in Ids(ToSet(cq)) \/ id \in Ids(parked)
  BY DEF Landed, Ids
<1>2. ASSUME Landed(id) # {} PROVE Answer(id) \in Landed(id)
  BY <1>2 DEF Answer
<1> QED
  BY <1>1, <1>2 DEF Landed

-----------------------------------------------------------------------------
(* The volume's slots. *)

\* The same reads are at the device.
SameFlights(ss, tt) ==
  \A i: /\ Fly(ss, i) <=> Fly(tt, i)
        /\ Fly(ss, i) => Sid(ss, i) = Sid(tt, i) /\ Sbl(ss, i) = Sbl(tt, i)

\* Setting one slot.
LEMMA SetSlot ==
  ASSUME NEW ss \in Seq(Slots), NEW i \in DOMAIN ss, NEW t \in Slots, NEW tt,
         tt = [ss EXCEPT ![i] = t]
  PROVE  /\ tt \in Seq(Slots) /\ Len(tt) = Len(ss) /\ DOMAIN tt = DOMAIN ss
         /\ tt[i] = t /\ \A j \in DOMAIN ss: j # i => tt[j] = ss[j]
  OBVIOUS

\* The flights of tt are those of ss, without the one of slot i.
Ends(ss, tt, i) ==
  /\ \A j: Fly(tt, j) <=> Fly(ss, j) /\ j # i
  /\ \A j: Fly(tt, j) => Sid(tt, j) = Sid(ss, j) /\ Sbl(tt, j) = Sbl(ss, j)

\* Setting one slot to something that is not a flight ends the slot's flight.
LEMMA Grounded ==
  ASSUME NEW ss, NEW tt, NEW i \in DOMAIN ss, DOMAIN tt = DOMAIN ss, tt[i].at # "flight",
         \A j \in DOMAIN ss: j # i => tt[j] = ss[j]
  PROVE  Ends(ss, tt, i) /\ (~Fly(ss, i) => SameFlights(ss, tt))
<1>1. \A j: Fly(tt, j) <=> Fly(ss, j) /\ j # i
  BY DEF Fly
<1>2. \A j: Fly(tt, j) => Sid(tt, j) = Sid(ss, j) /\ Sbl(tt, j) = Sbl(ss, j)
  BY DEF Fly, Sid, Sbl
<1>3. ~Fly(ss, i) => SameFlights(ss, tt)
  BY <1>1, <1>2 DEF SameFlights
<1> QED
  BY <1>1, <1>2, <1>3 DEF Ends

\* While the scratch buffer is idle, what is asked and told depends on the
\* flights alone.
LEMMA Quiet ==
  ASSUME NEW ss, NEW tt, NEW c, NEW d, SameFlights(ss, tt), c.pc # "settle", d.pc # "settle"
  PROVE  /\ Wanted(tt, d) = Wanted(ss, c)
         /\ \A r: Asked(r, c, ss) => Asked(r, d, tt)
         /\ \A a, dk: Told(a, ss, dk) => Told(a, tt, dk)
         /\ Flights(ss) => Flights(tt)
         /\ Scratch(d, tt) /\ \A k: Aside(k, d)
<1>0. \A ww, i: Fly(ww, i) => i \in DOMAIN ww
  BY DEF Fly
<1>1. \A x: x \in Wanted(tt, d) <=> x \in Wanted(ss, c)
  <2>1. \A x: x \in Wanted(ss, c) <=> \E i \in DOMAIN ss: Fly(ss, i) /\ x = Sid(ss, i)
    BY WantedIs
  <2>2. \A x: x \in Wanted(tt, d) <=> \E i \in DOMAIN tt: Fly(tt, i) /\ x = Sid(tt, i)
    BY WantedIs
  <2> QED
    BY <1>0, <2>1, <2>2 DEF SameFlights
<1>2. \A r: Asked(r, c, ss) => Asked(r, d, tt)
  BY <1>0 DEF Asked, SameFlights
<1>3. \A a, dk: Told(a, ss, dk) => Told(a, tt, dk)
  BY <1>0 DEF Told, SameFlights
<1>4. Flights(ss) => Flights(tt)
  BY <1>0 DEF Flights, SameFlights
<1>5. Scratch(d, tt) /\ \A k: Aside(k, d)
  BY DEF Scratch, Aside
<1> QED
  BY <1>1, <1>2, <1>3, <1>4, <1>5

\* A step of the volume that touches neither the ring nor a flight.
LEMMA QuietStep ==
  ASSUME IInv, SameFlights(slots, slots'), call.pc # "settle", call'.pc # "settle",
         UNCHANGED <<ring, below>>
  PROVE  Flights(slots)' /\ Scratch(call, slots)' /\ Ringing' /\ Alone(driver, device)'
<1>1. sq' = sq /\ cq' = cq /\ parked' = parked /\ driver' = driver /\ device' = device /\ disk' = disk
  BY DEF ring, below
<1>2. Wanted(slots', call') = Wanted(slots, call)
  BY Quiet
<1>3. \A r: Asked(r, call, slots) => Asked(r, call', slots')
  BY Quiet
<1>4. \A a: Told(a, slots, disk) => Told(a, slots', disk)
  BY Quiet, Zenon
<1>5. Flights(slots') /\ Scratch(call', slots') /\ Aside(parked, call')
  BY Quiet, Zenon DEF IInv, Calling
<1>6. Spread(Wanted(slots, call), sq, driver, device, cq, parked)
  BY DEF IInv, Ringing
<1>7. Asks(sq, driver, device, call', slots')
  BY <1>3 DEF IInv, Ringing, Asks
<1>8. Tells(driver, cq, parked, slots', disk)
  BY <1>4 DEF IInv, Ringing, Tells
<1>9. Ringing'
  BY <1>1, <1>2, <1>5, <1>6, <1>7, <1>8 DEF Ringing
<1>10. Alone(driver, device)'
  BY <1>1 DEF IInv
<1> QED
  BY <1>5, <1>9, <1>10

\* The type of what the volume leaves alone.
LEMMA StillTyped ==
  ASSUME IInv, UNCHANGED <<ring, below>>, VolumeTyped(slots', hand'), call' \in Calls,
         turn' \in {"client", "drain", "feed"}, moved' \in BOOLEAN
  PROVE  Typed'
  BY DEF IInv, Typed, ring, below

\* The facts about the slots that every step of the volume uses.
LEMMA Ready ==
  ASSUME IInv
  PROVE  /\ slots \in Seq(Slots) /\ Len(slots) \in Nat /\ Len(slots) <= SLOTS
         /\ DOMAIN slots = 1..Len(slots) /\ SLOTS \in Nat /\ SLOTS >= 1
         /\ hand \in 1..SLOTS /\ (hand <= Len(slots) \/ hand = 1)
         /\ call \in Calls /\ Stage(call) /\ Aims(call, slots) /\ Swept(call, slots)
         /\ turn \in {"client", "drain", "feed"} /\ moved \in BOOLEAN
  BY Geometry DEF IInv, Typed, VolumeTyped, Calling

\* Every operation starts with the slots, the ring and the driver as they are.
LEMMA CallStep ==
  ASSUME IInv, NEW op, NEW b, Call(op, b),
         \/ op \in {"block", "prefetch", "raw", "write"} /\ b \in Blocks
         \/ op \in {"flush", "commit"} /\ b = None
  PROVE  IInv'
<1>1. UNCHANGED <<ring, below>> /\ slots' = slots /\ hand' = hand /\ turn' = turn
      /\ moved' = moved /\ disk' = disk
  BY DEF Call, below
<1>2. call.pc = "idle"
  BY DEF Call, Idle
<1> DEFINE k == call'.slot
<1>3. /\ call'.op = op /\ call'.block = b /\ call'.id = None
      /\ op = "block" => call'.pc \in {"land", "spare"}
      /\ op = "prefetch" => call'.pc = "spare"
      /\ op \in {"write", "commit"} => call'.pc = "stale"
      /\ op \in {"raw", "flush"} => call'.pc = "submit"
      /\ k = (IF op = "block" /\ Found(b) # {} THEN Least(Found(b)) ELSE 1)
      /\ call'.pc = "land" => op = "block" /\ Found(b) # {}
      /\ call' = [op |-> op, pc |-> call'.pc, block |-> b, slot |-> k, id |-> None]
  BY DEF Call
<1>4. Found(b) # {} => Least(Found(b)) \in DOMAIN slots
  <2>1. Found(b) \in SUBSET Nat /\ Found(b) \in SUBSET (DOMAIN slots)
    BY Ready DEF Found
  <2> QED
    BY <2>1, LeastIn
<1>5. k \in 0..SLOTS + 1 /\ (call'.pc = "land" => k \in DOMAIN slots) /\ (call'.pc # "land" => k \in {1} \cup DOMAIN slots)
  BY <1>3, <1>4, Ready
<1>6. call'.pc \in {"land", "spare", "stale", "submit"} /\ (call'.pc = "stale" => k = 1)
  BY <1>3
<1>7. call' \in Calls
  BY <1>3, <1>5, <1>6 DEF Calls, Opt
<1>8. Stage(call')
  BY <1>3 DEF Stage
<1>9. Aims(call', slots)
  BY <1>5, <1>6, Ready DEF Aims
<1>10. Swept(call', slots)
  <2>1. op = "write" => call'.pc = "stale" /\ k = 1
    BY <1>3
  <2>2. \A i \in DOMAIN slots: ~(i < 1)
    BY Ready
  <2> QED
    BY <1>3, <2>1, <2>2 DEF Swept
<1>11. SameFlights(slots, slots')
  BY <1>1 DEF SameFlights
<1>12. Flights(slots') /\ Scratch(call', slots') /\ Ringing' /\ Alone(driver, device)'
  BY <1>1, <1>2, <1>6, <1>11, QuietStep
<1>13. Typed'
  BY <1>1, <1>7, StillTyped DEF IInv, Typed
<1>14. Fresh(slots', disk')
  BY <1>1 DEF IInv
<1>15. Calling'
  BY <1>1, <1>8, <1>9, <1>10, <1>12 DEF Calling
<1> QED
  BY <1>12, <1>13, <1>14, <1>15 DEF IInv

\* The hand's k-th stop is a slot.
LEMMA Stops ==
  ASSUME NEW n \in Nat, n # 0, NEW h \in Nat, h >= 1, NEW k \in Nat
  PROVE  ((h - 1 + k) % n) + 1 \in 1..n
  OBVIOUS

\* A free slot is one of the slots left behind, and no read is filling it.
LEMMA FreeSlot ==
  ASSUME IInv, NEW memory \in BOOLEAN, Sweep(memory)
  PROVE  /\ VolumeTyped(slots', hand')
         /\ SameFlights(slots, slots') /\ Fresh(slots', disk)
         /\ Free(memory) # 0 => Free(memory) \in DOMAIN slots' /\ ~Fly(slots', Free(memory))
         /\ Free(memory) = 0 => slots' = slots
<1> DEFINE n == Len(slots)
<1>1. \A k \in Nat: n # 0 => Around(k) \in 1..n
  BY Ready, Stops DEF Around
<1>2. \A i \in DOMAIN slots: slots[i].at = "here" => ~Fly(slots, i)
  BY DEF Fly
<1>3. Fresh(slots, disk) /\ VolumeTyped(slots, hand)
  BY DEF IInv, Typed
<1>4. CASE Empty # {}
  <2>1. Empty \in SUBSET Nat
    BY Ready DEF Empty
  <2>2. Least(Empty) \in Empty
    BY <1>4, <2>1, LeastIn
  <2>3. Free(memory) = Least(Empty) /\ slots' = slots /\ hand' = hand
    BY <1>4, Zenon DEF Free, Sweep, Grows
  <2>4. Least(Empty) \in DOMAIN slots /\ slots[Least(Empty)].at = "here" /\ Least(Empty) # 0
    BY <2>2, Ready DEF Empty
  <2> QED
    BY <1>2, <1>3, <2>3, <2>4 DEF SameFlights
<1>5. CASE Grows(memory)
  <2> DEFINE t == Here(None, FALSE)
  <2>1. Empty = {} /\ n < SLOTS /\ Free(memory) = n + 1 /\ slots' = Append(slots, t) /\ hand' = hand
    BY <1>5, Zenon DEF Free, Sweep, Grows
  <2>2. t \in Slots /\ t.at = "here" /\ t.block = None
    BY DEF Here, Slots, Opt
  <2> HIDE DEF t
  <2>3. slots' \in Seq(Slots) /\ Len(slots') = n + 1 /\ DOMAIN slots' = 1..n + 1 /\ slots'[n + 1] = t
    BY <2>1, <2>2, Ready
  <2>4. \A i \in 1..n: slots'[i] = slots[i]
    BY <2>1, Ready
  <2>5. \A i \in 1..n + 1: i \in 1..n \/ i = n + 1
    BY Ready
  <2>6. \A i \in 1..n: i \in 1..n + 1
    BY Ready
  <2>7. VolumeTyped(slots', hand')
    BY <2>1, <2>3, Ready DEF VolumeTyped
  <2>8. \A i: Fly(slots, i) <=> Fly(slots', i)
    BY <2>2, <2>3, <2>4, <2>5, <2>6, Ready DEF Fly
  <2>9. \A i: Fly(slots, i) => Sid(slots, i) = Sid(slots', i) /\ Sbl(slots, i) = Sbl(slots', i)
    BY <2>4, Ready DEF Fly, Sid, Sbl
  <2>10. Fresh(slots', disk)
    BY <1>3, <2>2, <2>3, <2>4, <2>5, Ready DEF Fresh
  <2>11. n + 1 \in DOMAIN slots' /\ ~Fly(slots', n + 1) /\ n + 1 # 0
    BY <2>2, <2>3, Ready DEF Fly
  <2> QED
    BY <2>1, <2>7, <2>8, <2>9, <2>10, <2>11 DEF SameFlights
<1>6. CASE Empty = {} /\ ~Grows(memory) /\ Turns # {}
  <2> DEFINE k == Least(Turns)
  <2>1. Turns \in SUBSET Nat /\ n # 0
    BY <1>6, Ready DEF Turns
  <2>2. k \in Turns
    BY <1>6, <2>1, LeastIn
  <2>3. k \in Nat /\ k + 1 \in Nat /\ slots[Around(k)].at = "here"
    BY <2>1, <2>2, Ready DEF Turns
  <2>4. Free(memory) = Around(k) /\ slots' = slots /\ hand' = Around(k + 1)
    BY <1>6 DEF Free, Sweep
  <2> HIDE DEF k
  <2>5. Around(k) \in 1..n /\ Around(k + 1) \in 1..n
    BY <1>1, <2>1, <2>3
  <2>6. ~Fly(slots, Around(k)) /\ Around(k) \in DOMAIN slots
    BY <1>2, <2>3, <2>5, Ready
  <2>7. VolumeTyped(slots, hand')
    BY <2>4, <2>5, Ready DEF VolumeTyped
  <2> QED
    BY <1>3, <2>4, <2>5, <2>6, <2>7 DEF SameFlights
<1>7. CASE Empty = {} /\ ~Grows(memory) /\ Turns = {}
  <2>1. Free(memory) = 0 /\ slots' = slots /\ hand' = hand
    BY <1>7 DEF Free, Sweep
  <2> QED
    BY <1>3, <2>1 DEF SameFlights
<1> QED
  BY <1>4, <1>5, <1>6, <1>7

\* Looking for a buffer to read into.
LEMMA SpareStep ==
  ASSUME IInv, NEW memory \in BOOLEAN, Spare(memory)
  PROVE  IInv'
<1>1. UNCHANGED <<ring, below>> /\ turn' = turn /\ moved' = moved /\ disk' = disk /\ Sweep(memory)
  BY DEF Spare, below
<1>2. call.pc = "spare" /\ call.op \in {"block", "prefetch"} /\ call.block \in Blocks
  BY Ready DEF Spare, Stage
<1>3. /\ VolumeTyped(slots', hand') /\ SameFlights(slots, slots') /\ Fresh(slots', disk)
      /\ Free(memory) # 0 => Free(memory) \in DOMAIN slots' /\ ~Fly(slots', Free(memory))
      /\ Free(memory) = 0 => slots' = slots
  BY <1>1, FreeSlot
<1>4. DOMAIN slots' \in SUBSET (0..SLOTS + 1)
  BY <1>3, Ready DEF VolumeTyped
<1>5. call' \in Calls /\ Stage(call') /\ Aims(call', slots') /\ Swept(call', slots')
      /\ call'.pc # "settle"
  <2>1. CASE Free(memory) # 0
    <3>1. call' = [call EXCEPT !.pc = "start", !.slot = Free(memory)]
      BY <2>1 DEF Spare
    <3>2. Free(memory) \in 0..SLOTS + 1
      BY <1>3, <1>4, <2>1
    <3>3. call' \in Calls
      BY <3>1, <3>2, Ready, Zenon DEF Calls
    <3>4. call'.pc = "start" /\ call'.slot = Free(memory) /\ call'.op = call.op
          /\ call'.block = call.block
      BY <3>1, Ready DEF Calls
    <3>5. Stage(call')
      BY <1>2, <3>4 DEF Stage
    <3>6. Aims(call', slots')
      BY <1>3, <2>1, <3>4 DEF Aims
    <3>7. Swept(call', slots')
      BY <1>2, <3>4 DEF Swept
    <3> QED
      BY <3>3, <3>4, <3>5, <3>6, <3>7
  <2>2. CASE call' = Idle
    <3>1. call' \in Calls
      BY <2>2, Ready DEF Idle, Calls, Opt
    <3> QED
      BY <2>2, <3>1 DEF Idle, Stage, Aims, Swept
  <2>3. CASE Free(memory) = 0 /\ slots # <<>> /\ call' = [call EXCEPT !.pc = "landspare", !.slot = hand]
    <3>1. hand \in DOMAIN slots /\ hand \in 0..SLOTS + 1
      BY <2>3, Ready
    <3>2. call' \in Calls
      BY <2>3, <3>1, Ready, Zenon DEF Calls
    <3>3. call'.pc = "landspare" /\ call'.slot = hand /\ call'.op = call.op
          /\ call'.block = call.block
      BY <2>3, Ready DEF Calls
    <3>4. Stage(call')
      BY <1>2, <3>3 DEF Stage
    <3>5. Aims(call', slots')
      BY <1>3, <2>3, <3>1, <3>3 DEF Aims
    <3>6. Swept(call', slots')
      BY <1>2, <3>3 DEF Swept
    <3> QED
      BY <3>2, <3>3, <3>4, <3>5, <3>6
  <2> QED
    BY <2>1, <2>2, <2>3 DEF Spare
<1>6. Flights(slots') /\ Scratch(call', slots') /\ Ringing' /\ Alone(driver, device)'
  BY <1>1, <1>2, <1>3, <1>5, QuietStep
<1>7. Typed'
  BY <1>1, <1>3, <1>5, Ready, StillTyped
<1>8. Calling'
  BY <1>5, <1>6 DEF Calling
<1> QED
  BY <1>1, <1>3, <1>6, <1>7, <1>8 DEF IInv

\* A write's or a commit's sweep moves on, stops at a slot or ends.
LEMMA StaleStep ==
  ASSUME IInv, Stale
  PROVE  IInv'
<1>1. UNCHANGED <<ring, below>> /\ turn' = turn /\ moved' = moved /\ disk' = disk
      /\ slots' = slots /\ hand' = hand
  BY DEF Stale, below
<1>2. call.pc = "stale" /\ call.op \in {"write", "commit"} /\ (call.op = "write" => call.block \in Blocks)
      /\ call.slot \in 1..Len(slots) + 1
  BY Ready DEF Stale, Stage, Aims
<1>3. call.op = "write" => \A i \in DOMAIN slots: i < call.slot => ~Holds(slots[i], call.block)
  BY <1>2, Ready DEF Swept
<1>4. call' \in Calls /\ Stage(call') /\ Aims(call', slots) /\ Swept(call', slots)
      /\ call'.pc # "settle"
  <2>1. CASE call' = Idle
    <3>1. call' \in Calls
      BY <2>1, Ready DEF Idle, Calls, Opt
    <3> QED
      BY <2>1, <3>1 DEF Idle, Stage, Aims, Swept
  <2>2. CASE call.slot > Len(slots) /\ call.op # "commit" /\ call' = [call EXCEPT !.pc = "submit"]
    <3>1. call' \in Calls /\ call'.pc = "submit" /\ call'.op = call.op /\ call'.block = call.block
      BY <2>2, Ready DEF Calls
    <3>2. \A i \in DOMAIN slots: i < call.slot
      BY <1>2, <2>2, Ready
    <3>3. Swept(call', slots)
      BY <1>3, <3>1, <3>2 DEF Swept
    <3> QED
      BY <1>2, <2>2, <3>1, <3>3 DEF Stage, Aims
  <2>3. CASE call.slot <= Len(slots) /\ call' = [call EXCEPT !.pc = "landstale"]
    <3>1. call' \in Calls /\ call'.pc = "landstale" /\ call'.op = call.op
          /\ call'.block = call.block /\ call'.slot = call.slot
      BY <2>3, Ready DEF Calls
    <3>2. call.slot \in DOMAIN slots
      BY <1>2, <2>3, Ready
    <3>3. Swept(call', slots)
      BY <1>3, <3>1 DEF Swept
    <3> QED
      BY <1>2, <3>1, <3>2, <3>3 DEF Stage, Aims
  <2>4. CASE call.slot <= Len(slots) /\ ~Covers(slots[call.slot]) /\ call' = [call EXCEPT !.slot = @ + 1]
    <3>1. call.slot + 1 \in 1..Len(slots) + 1 /\ call.slot + 1 \in 0..SLOTS + 1
      BY <1>2, <2>4, Ready
    <3>2. call' \in Calls /\ call'.pc = "stale" /\ call'.op = call.op
          /\ call'.block = call.block /\ call'.slot = call.slot + 1
      BY <1>2, <2>4, <3>1, Ready DEF Calls
    <3>3. call.op = "write" => ~Holds(slots[call.slot], call.block)
      BY <1>2, <2>4, Geometry DEF Covers, Holds
    <3>4. \A i \in DOMAIN slots: i < call.slot + 1 => i < call.slot \/ i = call.slot
      BY <1>2, Ready
    <3>5. Swept(call', slots)
      BY <1>2, <1>3, <3>2, <3>3, <3>4 DEF Swept
    <3> QED
      BY <1>2, <3>1, <3>2, <3>5 DEF Stage, Aims
  <2>5. call.slot > Len(slots) \/ call.slot <= Len(slots)
    BY <1>2, Ready
  <2> QED
    BY <2>1, <2>2, <2>3, <2>4, <2>5 DEF Stale
<1>5. SameFlights(slots, slots')
  BY <1>1 DEF SameFlights
<1>6. Flights(slots') /\ Scratch(call', slots') /\ Ringing' /\ Alone(driver, device)'
  BY <1>1, <1>2, <1>4, <1>5, QuietStep
<1>7. Typed'
  BY <1>1, <1>4, Ready, StillTyped DEF IInv, Typed
<1>8. Calling'
  BY <1>1, <1>4, <1>6 DEF Calling
<1> QED
  BY <1>1, <1>6, <1>7, <1>8 DEF IInv

-----------------------------------------------------------------------------
(* Requests that leave the volume, and answers that reach it. *)

\* A submitted request is on the ring and nowhere else.
LEMMA Launched ==
  ASSUME IInv, Room, NEW r \in Requests, r.id \notin Wanted(slots, call)
  PROVE  /\ RingTyped(Append(sq, r), cq, parked)
         /\ Spread(Wanted(slots, call) \cup {r.id}, Append(sq, r), driver, device, cq, parked)
         /\ ToSet(Append(sq, r)) = ToSet(sq) \cup {r}
<1> DEFINE W == Wanted(slots, call)
           h == Ids(Only(driver.held))
           d == Ids(device)
           p == Ids(Only(driver.pending))
           c == Ids(ToSet(cq))
           k == Ids(parked)
           u == Append(sq, r)
<1>1. sq \in Seq(Requests) /\ Len(sq) \in Nat /\ Len(sq) < DEPTH /\ DEPTH \in Nat
      /\ RingTyped(sq, cq, parked)
  BY Geometry DEF IInv, Typed, RingTyped, Room
<1>2. Spread(W, sq, driver, device, cq, parked)
  BY DEF IInv, Ringing
<1>3. One(W, Ids(ToSet(sq)), h, d, p, c, k) /\ Sole(sq) /\ Sole(cq) /\ SoleIn(device) /\ SoleIn(parked)
  BY <1>2 DEF Spread
<1> HIDE DEF W, h, d, p, c, k
<1>4. r.id \notin Ids(ToSet(sq)) /\ r.id \notin W
  BY <1>3 DEF One, W
<1>5. /\ u \in Seq(Requests) /\ Len(u) = Len(sq) + 1
      /\ ToSet(u) = ToSet(sq) \cup {r} /\ Ids(ToSet(u)) = Ids(ToSet(sq)) \cup {r.id} /\ Sole(u)
  BY <1>1, <1>3, <1>4, Pushed
<1> HIDE DEF u
<1>6. One(W \cup {r.id}, Ids(ToSet(u)), h, d, p, c, k)
  <2>1. One(W \cup {r.id}, Ids(ToSet(sq)) \cup {r.id}, h, d, p, c, k)
    BY <1>3, <1>4, Hops, Zenon
  <2> QED
    BY <1>5, <2>1, Zenon
<1>7. RingTyped(u, cq, parked)
  BY <1>1, <1>5 DEF RingTyped
<1>8. Spread(W \cup {r.id}, u, driver, device, cq, parked)
  BY <1>3, <1>5, <1>6 DEF Spread, h, d, p, c, k
<1> QED
  BY <1>5, <1>7, <1>8 DEF W, u

\* Everything in the ring is awaited.
LEMMA Known ==
  ASSUME IInv
  PROVE  /\ \A r \in ToSet(sq) \cup Only(driver.held) \cup device: r.id \in Wanted(slots, call)
         /\ \A r \in Only(driver.pending) \cup ToSet(cq) \cup parked: r.id \in Wanted(slots, call)
<1>1. Spread(Wanted(slots, call), sq, driver, device, cq, parked)
  BY DEF IInv, Ringing
<1> QED
  BY <1>1, Places

\* A read leaves for a slot.
LEMMA StartRoom ==
  ASSUME IInv, Start, Room
  PROVE  IInv'
<1> DEFINE x == NextId
           r == [id |-> x, kind |-> "read", block |-> call.block]
           t == Flight(call.block, x)
           k == call.slot
           W == Wanted(slots, call)
<1>1. /\ sq' = Append(sq, r) /\ slots' = [slots EXCEPT ![k] = t]
      /\ call' = IF call.op = "prefetch" THEN Idle ELSE [call EXCEPT !.pc = "land"]
      /\ hand' = hand /\ cq' = cq /\ parked' = parked /\ driver' = driver /\ device' = device
      /\ disk' = disk /\ turn' = turn /\ moved' = moved
  BY DEF Start, Submit, below
<1>2. call.pc = "start" /\ call.op \in {"block", "prefetch"} /\ call.block \in Blocks
      /\ k \in DOMAIN slots /\ ~Fly(slots, k)
  BY Ready DEF Start, Stage, Aims
<1>3. x \in 0..DEPTH /\ x \notin W
  BY <1>2, NewId DEF IInv, Typed
<1>4. r \in Requests /\ r.id = x /\ r.kind = "read" /\ r.block = call.block
  BY <1>2, <1>3 DEF Requests, Opt
<1>5. t \in Slots /\ t.at = "flight" /\ t.id = x /\ t.block = call.block
  BY <1>2, <1>3 DEF Flight, Slots, Opt
<1> HIDE DEF x, t, r
<1>6. /\ slots' \in Seq(Slots) /\ Len(slots') = Len(slots) /\ DOMAIN slots' = DOMAIN slots
      /\ slots'[k] = t /\ \A j \in DOMAIN slots: j # k => slots'[j] = slots[j]
  BY <1>1, <1>2, <1>5, Ready, SetSlot
<1>7. RingTyped(sq', cq', parked') /\ Spread(W \cup {x}, sq', driver, device, cq, parked)
      /\ ToSet(sq') = ToSet(sq) \cup {r}
  BY <1>1, <1>3, <1>4, Launched, Zenon
<1>8. call' \in Calls /\ call'.pc \in {"idle", "land"} /\ Stage(call') /\ Aims(call', slots')
      /\ Swept(call', slots')
  <2>1. CASE call.op = "prefetch"
    <3>1. call' = Idle
      BY <1>1, <2>1
    <3>2. call' \in Calls
      BY <3>1, Ready DEF Idle, Calls, Opt
    <3> QED
      BY <3>1, <3>2 DEF Idle, Stage, Aims, Swept
  <2>2. CASE call.op # "prefetch"
    <3>1. call' = [call EXCEPT !.pc = "land"]
      BY <1>1, <2>2
    <3>2. call' \in Calls /\ call'.pc = "land" /\ call'.op = call.op /\ call'.slot = k
          /\ call'.block = call.block
      BY <3>1, Ready DEF Calls
    <3> QED
      BY <1>2, <1>6, <3>2 DEF Stage, Aims, Swept
  <2> QED
    BY <2>1, <2>2
<1>9. \A i: Fly(slots', i) <=> Fly(slots, i) \/ i = k
  BY <1>2, <1>5, <1>6 DEF Fly
<1>10. \A i: Fly(slots, i) => Sid(slots', i) = Sid(slots, i) /\ Sbl(slots', i) = Sbl(slots, i) /\ i # k
  BY <1>2, <1>6 DEF Fly, Sid, Sbl
<1>11. Sid(slots', k) = x /\ Sbl(slots', k) = call.block
  BY <1>5, <1>6 DEF Sid, Sbl
<1>12. \A i: Fly(slots, i) => i \in DOMAIN slots /\ Sid(slots, i) \in W
  BY WantedIs DEF Fly
<1>13. \A y: y \in Wanted(slots', call') <=> y \in W \cup {x}
  <2>1. \A y: y \in Wanted(slots', call') <=> \E i \in DOMAIN slots': Fly(slots', i) /\ y = Sid(slots', i)
    BY <1>8, WantedIs
  <2>2. \A y: y \in W <=> \E i \in DOMAIN slots: Fly(slots, i) /\ y = Sid(slots, i)
    BY <1>2, WantedIs
  <2> QED
    BY <1>2, <1>6, <1>9, <1>10, <1>11, <2>1, <2>2
<1>14. Flights(slots')
  <2>1. Flights(slots)
    BY DEF IInv, Calling
  <2> QED
    BY <1>2, <1>3, <1>6, <1>9, <1>10, <1>11, <1>12, <2>1 DEF Flights
<1>15. Asks(sq', driver', device', call', slots')
  <2>1. ASSUME NEW q \in ToSet(sq) \cup Only(driver.held) \cup device PROVE Asked(q, call', slots')
    <3>1. Asked(q, call, slots) /\ q.id # x
      BY <1>3, <2>1, Known, ZenonT(40) DEF IInv, Ringing, Asks
    <3> QED
      BY <1>6, <1>8, <1>9, <1>10, <1>11, <3>1, Zenon DEF Asked
  <2>2. Asked(r, call', slots')
    BY <1>3, <1>4, <1>8, <1>9, <1>10, <1>11, <1>12, Zenon DEF Asked
  <2> QED
    BY <1>1, <1>7, <2>1, <2>2, ZenonT(40) DEF Asks
<1>16. Tells(driver', cq', parked', slots', disk')
  <2>1. ASSUME NEW a \in Only(driver.pending) \cup ToSet(cq) \cup parked PROVE Told(a, slots', disk)
    <3>1. Told(a, slots, disk) /\ a.id # x
      BY <1>3, <2>1, Known, Zenon DEF IInv, Ringing, Tells
    <3> QED
      BY <1>6, <1>9, <1>10, <1>11, <3>1 DEF Told
  <2> QED
    BY <1>1, <2>1, ZenonT(40) DEF Tells
<1>17. Aside(parked', call') /\ Scratch(call', slots')
  BY <1>8 DEF Aside, Scratch
<1>18. Fresh(slots', disk')
  <2>1. Fresh(slots, disk)
    BY DEF IInv
  <2> QED
    BY <1>1, <1>5, <1>6, <2>1 DEF Fresh
<1>19. Spread(Wanted(slots', call'), sq', driver', device', cq', parked')
  <2>1. Wanted(slots', call') = W \cup {x}
    BY <1>13
  <2> QED
    BY <1>1, <1>7, <2>1, Zenon
<1>20. Typed'
  <2>1. VolumeTyped(slots', hand')
    BY <1>1, <1>6, Ready DEF VolumeTyped
  <2> QED
    BY <1>1, <1>7, <1>8, <2>1 DEF IInv, Typed
<1>21. Calling' /\ Ringing'
  BY <1>8, <1>14, <1>15, <1>16, <1>17, <1>19 DEF Calling, Ringing
<1> QED
  BY <1>1, <1>18, <1>20, <1>21 DEF IInv

\* A read waits for room on the ring with its slot lent.
LEMMA StartStep ==
  ASSUME IInv, Start
  PROVE  IInv'
<1>1. CASE Room
  BY <1>1, StartRoom
<1>2. CASE ~Room
  <2>1. UNCHANGED <<ring, below>> /\ call' = call /\ hand' = hand /\ disk' = disk
        /\ turn' = "drain" /\ moved' = FALSE /\ slots' = [slots EXCEPT ![call.slot] = Lent]
    BY <1>2 DEF Start, Defer, ring, below
  <2>2. call.pc = "start" /\ call.op \in {"block", "prefetch"}
        /\ call.slot \in DOMAIN slots /\ ~Fly(slots, call.slot)
    BY Ready DEF Start, Stage, Aims
  <2>3. Lent \in Slots /\ Lent.at = "lent"
    BY DEF Lent, Slots, Opt
  <2>4. /\ slots' \in Seq(Slots) /\ Len(slots') = Len(slots) /\ DOMAIN slots' = DOMAIN slots
        /\ slots'[call.slot] = Lent /\ \A j \in DOMAIN slots: j # call.slot => slots'[j] = slots[j]
    BY <2>1, <2>2, <2>3, Ready, SetSlot
  <2>5. SameFlights(slots, slots') /\ ~Fly(slots', call.slot)
    <3>1. Ends(slots, slots', call.slot) /\ SameFlights(slots, slots')
      BY <2>2, <2>3, <2>4, Grounded, ZenonT(40)
    <3> QED
      BY <3>1 DEF Ends
  <2>6. Flights(slots') /\ Scratch(call', slots') /\ Ringing' /\ Alone(driver, device)'
    BY <2>1, <2>2, <2>5, QuietStep
  <2>7. Stage(call') /\ Aims(call', slots') /\ Swept(call', slots')
    BY <2>1, <2>2, <2>4, <2>5, Ready DEF Stage, Aims, Swept
  <2>8. Fresh(slots', disk')
    <3>1. Fresh(slots, disk)
      BY DEF IInv
    <3> QED
      BY <2>1, <2>3, <2>4, <3>1 DEF Fresh
  <2>9. Typed'
    <3>1. VolumeTyped(slots', hand')
      BY <2>1, <2>4, Ready DEF VolumeTyped
    <3> QED
      BY <2>1, <3>1, Ready, StillTyped, Zenon
  <2>10. Calling'
    BY <2>6, <2>7 DEF Calling
  <2> QED
    BY <2>6, <2>8, <2>9, <2>10 DEF IInv
<1> QED
  BY <1>1, <1>2

\* The scratch buffer's request leaves, or waits for room.
LEMMA OnceStep ==
  ASSUME IInv, Once
  PROVE  IInv'
<1> DEFINE x == NextId
           kd == IF call.op = "raw" THEN "read" ELSE call.op
           r == [id |-> x, kind |-> kd, block |-> call.block]
           W == Wanted(slots, call)
<1>1. /\ hand' = hand /\ cq' = cq /\ parked' = parked /\ driver' = driver /\ device' = device
      /\ disk' = disk /\ slots' = slots
  BY DEF Once, below
<1>2. call.pc = "submit" /\ call.op \in {"raw", "write", "flush"} /\ call.block \in Opt(Blocks)
  BY Ready DEF Once, Stage, Calls
<1>3. Fresh(slots', disk') /\ Alone(driver', device') /\ Flights(slots')
  BY <1>1 DEF IInv, Calling
<1>4. CASE Room
  <2>1. sq' = Append(sq, r) /\ call' = [call EXCEPT !.pc = "settle", !.id = x]
        /\ turn' = turn /\ moved' = moved
    BY <1>4 DEF Once, Submit
  <2>2. x \in 0..DEPTH /\ x \notin W
    BY <1>2, NewId DEF IInv, Typed
  <2>3. r \in Requests /\ r.id = x /\ r.kind = kd /\ r.block = call.block
    BY <1>2, <2>2 DEF Requests
  <2> HIDE DEF x, r
  <2>4. call' \in Calls /\ call'.pc = "settle" /\ call'.id = x /\ call'.op = call.op
        /\ call'.block = call.block
    BY <2>1, <2>2, Ready, Zenon DEF Calls, Opt
  <2>5. RingTyped(sq', cq', parked') /\ Spread(W \cup {x}, sq', driver, device, cq, parked)
        /\ ToSet(sq') = ToSet(sq) \cup {r}
    BY <1>1, <1>4, <2>1, <2>2, <2>3, Launched, ZenonT(40)
  <2>6. \A i: Fly(slots, i) => i \in DOMAIN slots /\ Sid(slots, i) \in W
    BY WantedIs DEF Fly
  <2>7. Wanted(slots', call') = W \cup {x}
    <3>1. \A y: y \in Wanted(slots, call') <=>
                  (\E i \in DOMAIN slots: Fly(slots, i) /\ y = Sid(slots, i)) \/ y = x
      BY <2>4, WantedIs
    <3>2. \A y: y \in W <=> \E i \in DOMAIN slots: Fly(slots, i) /\ y = Sid(slots, i)
      BY <1>2, WantedIs
    <3> QED
      BY <1>1, <3>1, <3>2
  <2>8. Asks(sq', driver', device', call', slots')
    <3>1. ASSUME NEW q \in ToSet(sq) \cup Only(driver.held) \cup device PROVE Asked(q, call', slots)
      <4>1. Asked(q, call, slots) /\ q.id # x
        BY <2>2, <3>1, Known, ZenonT(40) DEF IInv, Ringing, Asks
      <4> QED
        BY <2>4, <4>1, ZenonT(40) DEF Asked
    <3>2. Asked(r, call', slots)
      BY <2>2, <2>3, <2>4, <2>6, Zenon DEF Asked
    <3> QED
      BY <1>1, <2>5, <3>1, <3>2 DEF Asks
  <2>9. Tells(driver', cq', parked', slots', disk')
    BY <1>1 DEF IInv, Ringing
  <2>10. Aside(parked', call')
    BY <1>1, <2>2, <2>4, Known DEF Aside
  <2>11. Scratch(call', slots')
    BY <1>1, <2>2, <2>4, <2>6 DEF Scratch
  <2>12. Stage(call') /\ Aims(call', slots')
    BY <1>2, <2>4, Ready DEF Stage, Aims
  <2>13. Swept(call', slots')
    BY <1>1, <1>2, <2>4, Ready DEF Swept
  <2>14. Typed'
    BY <1>1, <2>1, <2>4, <2>5 DEF IInv, Typed
  <2>15. Ringing'
    BY <1>1, <2>5, <2>7, <2>8, <2>9, <2>10 DEF Ringing
  <2>16. Calling'
    BY <1>3, <2>11, <2>12, <2>13 DEF Calling
  <2> QED
    BY <1>3, <2>14, <2>15, <2>16 DEF IInv
<1>5. CASE ~Room
  <2>1. sq' = sq /\ call' = call /\ turn' = "drain" /\ moved' = FALSE
    BY <1>5 DEF Once, Defer
  <2> QED
    BY <1>1, <2>1, Zenon DEF IInv, Typed, Calling, Ringing
<1> QED
  BY <1>4, <1>5

\* `take` keeps every other answer in one place.
LEMMA TakenRing ==
  ASSUME IInv, NEW id, Take(id)
  PROVE  /\ RingTyped(sq, cq', parked')
         /\ Landed(id) = {} => Spread(Wanted(slots, call), sq, driver, device, cq', parked')
         /\ Landed(id) # {} =>
              Spread(Wanted(slots, call) \ {id}, sq, driver, device, cq', parked')
         /\ ToSet(cq') \cup parked' \subseteq ToSet(cq) \cup parked
         /\ \A a \in parked': a.id # id
<1> DEFINE W == Wanted(slots, call)
           s == Ids(ToSet(sq))
           h == Ids(Only(driver.held))
           d == Ids(device)
           p == Ids(Only(driver.pending))
           c == Ids(ToSet(cq))
           k == Ids(parked)
           e == Ids(ToSet(cq'))
           l == Ids(parked')
<1>1. RingTyped(sq, cq, parked)
  BY DEF IInv, Typed
<1>2. One(W, s, h, d, p, c, k) /\ Sole(sq) /\ Sole(cq) /\ SoleIn(device) /\ SoleIn(parked)
  BY Zenon DEF IInv, Ringing, Spread
<1>3. \A x \in c: x \notin k
  <2> HIDE DEF W, s, h, d, p, c, k
  <2> QED
    BY <1>2 DEF One
<1>4. Taken(cq, parked, cq', parked', id)
  BY <1>1, <1>2, <1>3, Taking, ZenonT(40)
<1>5. Sifted(c, k, e, l, id) /\ Sole(cq') /\ SoleIn(parked')
  BY <1>4 DEF Taken
<1>6. Landed(id) # {} <=> id \in c \/ id \in k
  BY Answered
<1> HIDE DEF W, s, h, d, p, c, k, e, l
<1>7. /\ Landed(id) # {} => One(W \ {id}, s, h, d, p, e, l)
      /\ Landed(id) = {} => One(W, s, h, d, p, e, l)
  BY <1>2, <1>5, <1>6, Sifts, ZenonT(40)
<1>8. RingTyped(sq, cq', parked')
  BY <1>1, <1>4 DEF RingTyped, Taken
<1>9. Landed(id) = {} => Spread(W, sq, driver, device, cq', parked')
  BY <1>2, <1>5, <1>7, ZenonT(40) DEF Spread, s, h, d, p, e, l
<1>10. Landed(id) # {} => Spread(W \ {id}, sq, driver, device, cq', parked')
  BY <1>2, <1>5, <1>7, ZenonT(40) DEF Spread, s, h, d, p, e, l
<1>11. ToSet(cq') \cup parked' \subseteq ToSet(cq) \cup parked /\ \A a \in parked': a.id # id
  BY <1>4 DEF Taken
<1> QED
  BY <1>8, <1>9, <1>10, <1>11 DEF W

\* What follows a landing.
LEMMA Follows ==
  ASSUME IInv, call.pc \in {"land", "landspare", "landstale"}, After(call.pc),
         DOMAIN slots' = DOMAIN slots, Len(slots') = Len(slots),
         \A j \in DOMAIN slots: j # call.slot => slots'[j] = slots[j],
         slots'[call.slot].at # "flight",
         call.pc = "landstale" => slots'[call.slot].block = None
  PROVE  /\ call' \in Calls /\ Stage(call') /\ Aims(call', slots') /\ Swept(call', slots')
         /\ call'.pc # "settle"
<1>1. call.slot \in DOMAIN slots /\ ~Fly(slots', call.slot)
  BY Ready DEF Aims, Fly
<1>2. CASE call.pc = "land"
  <2>1. call' = Idle
    BY <1>2 DEF After
  <2>2. call' \in Calls
    BY <2>1, Ready DEF Idle, Calls, Opt
  <2> QED
    BY <2>1, <2>2 DEF Idle, Stage, Aims, Swept
<1>3. CASE call.pc = "landspare"
  <2>1. call' = [call EXCEPT !.pc = "start"]
    BY <1>3 DEF After
  <2>2. call' \in Calls /\ call'.pc = "start" /\ call'.op = call.op /\ call'.block = call.block
        /\ call'.slot = call.slot
    BY <2>1, Ready DEF Calls
  <2>3. Stage(call)
    BY Ready
  <2> QED
    BY <1>1, <1>3, <2>2, <2>3, Zenon DEF Stage, Aims, Swept
<1>4. CASE call.pc = "landstale"
  <2>1. call' = [call EXCEPT !.pc = "stale", !.slot = @ + 1]
    BY <1>4 DEF After
  <2>2. call.slot + 1 \in 0..SLOTS + 1 /\ call.slot + 1 \in 1..Len(slots) + 1
    BY <1>1, Ready
  <2>3. call' \in Calls /\ call'.pc = "stale" /\ call'.op = call.op /\ call'.block = call.block
        /\ call'.slot = call.slot + 1
    BY <2>1, <2>2, Ready, ZenonT(40) DEF Calls
  <2>4. Stage(call') /\ (call.op = "write" => call.block \in Blocks)
    BY <1>4, <2>3, Ready, Zenon DEF Stage
  <2>5. Aims(call', slots')
    BY <2>2, <2>3 DEF Aims
  <2>6. \A i \in DOMAIN slots: i < call.slot + 1 => (i < call.slot /\ i # call.slot) \/ i = call.slot
    <3>1. DOMAIN slots = 1..Len(slots)
      BY Ready, Zenon
    <3>2. call.slot \in 1..Len(slots)
      BY <1>1, <3>1
    <3> QED
      BY <3>1, <3>2
  <2>7. call.op = "write" => ~Holds(slots'[call.slot], call.block)
    BY <1>4, <2>4, Geometry DEF Holds
  <2>8. call.op = "write" => \A i \in DOMAIN slots: i < call.slot => ~Holds(slots[i], call.block)
    BY <1>4, Ready DEF Swept
  <2>9. Swept(call', slots')
    BY <2>3, <2>6, <2>7, <2>8, ZenonT(40) DEF Swept
  <2> QED
    BY <2>3, <2>4, <2>5, <2>9
<1> QED
  BY <1>2, <1>3, <1>4

\* A landing on a slot no read is filling.
LEMMA LandHere ==
  ASSUME IInv, Land, ~Fly(slots, call.slot)
  PROVE  IInv'
<1> DEFINE k == call.slot
           s == slots[k]
           t == Landing(s)
<1>1. call.pc \in {"land", "landspare", "landstale"} /\ k \in DOMAIN slots /\ s.at # "flight"
  BY Ready DEF Land, Aims, Fly
<1>2. slots' = [slots EXCEPT ![k] = t] /\ After(call.pc) /\ UNCHANGED <<ring, below>>
      /\ disk' = disk /\ hand' = hand /\ turn' = turn /\ moved' = moved
  BY <1>1 DEF Land, ring, below
<1>3. s \in Slots
  BY <1>1, Ready
<1>4. t \in Slots /\ t.at # "flight" /\ (call.pc = "landstale" => t.block = None)
      /\ (t = s \/ t.block = None)
  BY <1>1, <1>3 DEF Landing, Here, Slots, Opt
<1> HIDE DEF t
<1>5. /\ slots' \in Seq(Slots) /\ Len(slots') = Len(slots) /\ DOMAIN slots' = DOMAIN slots
      /\ slots'[k] = t /\ \A j \in DOMAIN slots: j # k => slots'[j] = slots[j]
  BY <1>1, <1>2, <1>4, Ready, SetSlot
<1>6. SameFlights(slots, slots')
  BY <1>1, <1>4, <1>5, Grounded, ZenonT(40)
<1>7. call' \in Calls /\ Stage(call') /\ Aims(call', slots') /\ Swept(call', slots')
      /\ call'.pc # "settle"
  BY <1>1, <1>2, <1>4, <1>5, Follows
<1>8. Flights(slots') /\ Scratch(call', slots') /\ Ringing' /\ Alone(driver, device)'
  BY <1>1, <1>2, <1>6, <1>7, QuietStep
<1>9. Fresh(slots', disk')
  <2>1. Fresh(slots, disk)
    BY DEF IInv
  <2> QED
    BY <1>1, <1>2, <1>4, <1>5, <2>1 DEF Fresh
<1>10. Typed'
  <2>1. VolumeTyped(slots', hand')
    BY <1>2, <1>5, Ready DEF VolumeTyped
  <2> QED
    BY <1>2, <1>7, <2>1, Ready, StillTyped
<1>11. Calling'
  BY <1>7, <1>8 DEF Calling
<1> QED
  BY <1>8, <1>9, <1>10, <1>11 DEF IInv

\* Waiting for an answer that did not land: others are set aside.
LEMMA LandWaits ==
  ASSUME IInv, Land, Fly(slots, call.slot), Landed(slots[call.slot].id) = {}
  PROVE  IInv'
<1> DEFINE x == slots[call.slot].id
<1>1. call.pc # "settle" /\ Take(x) /\ slots' = slots /\ call' = call /\ hand' = hand /\ sq' = sq
      /\ driver' = driver /\ device' = device /\ disk' = disk /\ turn' = "drain" /\ moved' = FALSE
  BY DEF Land, Fly, Defer, below
<1>2. /\ RingTyped(sq, cq', parked') /\ Spread(Wanted(slots, call), sq, driver, device, cq', parked')
      /\ ToSet(cq') \cup parked' \subseteq ToSet(cq) \cup parked
  BY <1>1, TakenRing, ZenonT(40)
<1>3. Tells(driver, cq', parked', slots, disk)
  BY <1>2, Zenon DEF IInv, Ringing, Tells
<1>4. Aside(parked', call)
  BY <1>1 DEF Aside
<1>5. Typed'
  BY <1>1, <1>2, ZenonT(40) DEF IInv, Typed
<1>6. Ringing'
  BY <1>1, <1>2, <1>3, <1>4, ZenonT(40) DEF IInv, Ringing
<1>7. Calling' /\ Fresh(slots, disk)' /\ Alone(driver, device)'
  BY <1>1, Zenon DEF IInv, Calling
<1> QED
  BY <1>5, <1>6, <1>7 DEF IInv

\* A read landed: its slot holds what the device answered, and the device would
\* answer the same now.
LEMMA LandTakes ==
  ASSUME IInv, Land, Fly(slots, call.slot), Landed(slots[call.slot].id) # {}
  PROVE  IInv'
<1> DEFINE k == call.slot
           s == slots[k]
           x == s.id
           a == Answer(x)
           t == Landing(LandedSlot(s))
           W == Wanted(slots, call)
<1>1. call.pc \in {"land", "landspare", "landstale"} /\ k \in DOMAIN slots /\ s.at = "flight"
  BY Ready DEF Land, Aims, Fly
<1>2. Take(x) /\ slots' = [slots EXCEPT ![k] = t] /\ After(call.pc) /\ hand' = hand /\ sq' = sq
      /\ driver' = driver /\ device' = device /\ disk' = disk /\ turn' = turn /\ moved' = moved
  BY <1>1 DEF Land, below
<1>3. a \in ToSet(cq) \cup parked /\ a.id = x
  BY Answered
<1>4. a \in Answers /\ Told(a, slots, disk)
  <2>1. cq \in Seq(Answers) /\ parked \in SUBSET Answers
    BY DEF IInv, Typed, RingTyped
  <2>2. \A y \in ToSet(cq): y \in Answers
    BY <2>1 DEF ToSet
  <2>3. Tells(driver, cq, parked, slots, disk)
    BY ZenonT(40) DEF IInv, Ringing
  <2> QED
    BY <1>3, <2>1, <2>2, <2>3 DEF Tells
<1>5. s \in Slots
  <2>1. slots \in Seq(Slots)
    BY Ready
  <2> QED
    BY <1>1, <2>1
<1>6. a.ok => a.value = disk[s.block]
  <2>1. Fly(slots, k) /\ Sid(slots, k) = a.id /\ Sbl(slots, k) = s.block
    BY <1>3 DEF Sid, Sbl
  <2> QED
    BY <1>1, <1>4, <2>1, ZenonT(40) DEF Told
<1>7. t \in Slots /\ t.at = "here" /\ (call.pc = "landstale" => t.block = None)
      /\ (t.block # None => t.value = disk[t.block])
  <2>1. a.ok \in BOOLEAN /\ a.value \in BOOLEAN
    BY <1>4 DEF Answers
  <2>2. CASE call.pc = "landstale"
    <3>1. t = Here(None, FALSE)
      BY <2>2 DEF Landing
    <3> HIDE DEF t, a, s, x
    <3>2. t \in Slots
      BY <3>1 DEF Here, Slots, Opt
    <3>3. t.at = "here" /\ t.block = None
      BY <3>1 DEF Here
    <3> QED
      BY <3>2, <3>3
  <2>3. CASE call.pc # "landstale"
    <3>1. t = Here(IF a.ok THEN s.block ELSE None, a.value)
      BY <2>3 DEF Landing, LandedSlot
    <3>2. s.block \in Opt(Blocks)
      BY <1>5 DEF Slots
    <3> HIDE DEF t, a, s, x
    <3>3. t.at = "here" /\ t.value = a.value /\ t.block = IF a.ok THEN s.block ELSE None
      BY <3>1 DEF Here
    <3>4. t \in Slots
      BY <2>1, <3>1, <3>2 DEF Here, Slots, Opt
    <3> QED
      BY <1>6, <2>1, <2>3, <3>3, <3>4
  <2> QED
    BY <2>2, <2>3, Zenon
<1> HIDE DEF t, a
<1>8. /\ slots' \in Seq(Slots) /\ Len(slots') = Len(slots) /\ DOMAIN slots' = DOMAIN slots
      /\ slots'[k] = t /\ \A j \in DOMAIN slots: j # k => slots'[j] = slots[j]
  BY <1>1, <1>2, <1>7, Ready, SetSlot
<1>9. /\ \A j: Fly(slots', j) <=> Fly(slots, j) /\ j # k
      /\ \A j: Fly(slots', j) => Sid(slots', j) = Sid(slots, j) /\ Sbl(slots', j) = Sbl(slots, j)
  <2>1. slots'[k].at # "flight"
    BY <1>7, <1>8
  <2>2. Ends(slots, slots', k)
    BY <1>1, <1>8, <2>1, Grounded
  <2> QED
    BY <2>2 DEF Ends
<1>10. call' \in Calls /\ Stage(call') /\ Aims(call', slots') /\ Swept(call', slots')
       /\ call'.pc # "settle"
  BY <1>1, <1>2, <1>7, <1>8, Follows
<1>11. /\ RingTyped(sq, cq', parked') /\ Spread(W \ {x}, sq, driver, device, cq', parked')
       /\ ToSet(cq') \cup parked' \subseteq ToSet(cq) \cup parked
  BY <1>2, TakenRing, ZenonT(40)
<1>12. Flights(slots) /\ Sid(slots, k) = x /\ Fly(slots, k)
  BY DEF IInv, Calling, Sid
<1>13. \A i: Fly(slots, i) => i \in DOMAIN slots
  BY DEF Fly
<1> HIDE DEF x
<1>14. Wanted(slots', call') = W \ {x}
  <2>1. \A y: y \in Wanted(slots', call') <=> \E i \in DOMAIN slots': Fly(slots', i) /\ y = Sid(slots', i)
    BY <1>10, WantedIs, Zenon
  <2>2. \A y: y \in W <=> \E i \in DOMAIN slots: Fly(slots, i) /\ y = Sid(slots, i)
    BY <1>1, WantedIs
  <2>3. \A i \in DOMAIN slots: Fly(slots, i) /\ i # k => Sid(slots, i) # x
    BY <1>1, <1>12 DEF Flights
  <2>4. \A y: y \in Wanted(slots', call') <=> \E i \in DOMAIN slots: Fly(slots, i) /\ i # k /\ y = Sid(slots, i)
    BY <1>8, <1>9, <2>1
  <2> HIDE DEF W
  <2>5. ASSUME NEW y \in Wanted(slots', call') PROVE y \in W /\ y # x
    BY <2>2, <2>3, <2>4, <2>5
  <2>6. ASSUME NEW y \in W, y # x PROVE y \in Wanted(slots', call')
    BY <1>12, <2>2, <2>4, <2>6
  <2> QED
    BY <2>5, <2>6
<1>15. Flights(slots') /\ Scratch(call', slots') /\ Aside(parked', call')
  BY <1>8, <1>9, <1>10, <1>12, ZenonT(40) DEF Flights, Scratch, Aside
<1>16. Asks(sq, driver, device, call', slots')
  <2>1. ASSUME NEW r, Asked(r, call, slots) PROVE Asked(r, call', slots')
    BY <1>8, <1>9, <1>10, <2>1, ZenonT(40) DEF Asked
  <2> QED
    BY <2>1, ZenonT(40) DEF IInv, Ringing, Asks
<1>17. Tells(driver, cq', parked', slots', disk)
  <2>1. ASSUME NEW b, Told(b, slots, disk) PROVE Told(b, slots', disk)
    BY <1>8, <1>9, <2>1 DEF Told
  <2> QED
    BY <1>11, <2>1, ZenonT(40) DEF IInv, Ringing, Tells
<1>18. Fresh(slots', disk')
  <2>1. Fresh(slots, disk)
    BY DEF IInv
  <2> QED
    BY <1>2, <1>7, <1>8, <2>1 DEF Fresh
<1>19. Typed'
  <2>1. VolumeTyped(slots', hand')
    BY <1>2, <1>8, Ready DEF VolumeTyped
  <2> QED
    BY <1>2, <1>10, <1>11, <2>1 DEF IInv, Typed
<1>20. Calling'
  BY <1>10, <1>15 DEF Calling
<1>21. Ringing'
  BY <1>2, <1>11, <1>14, <1>15, <1>16, <1>17, ZenonT(40) DEF Ringing
<1> QED
  BY <1>2, <1>18, <1>19, <1>20, <1>21 DEF IInv

\* The scratch buffer's answer is taken, or waited for.
LEMMA SettleStep ==
  ASSUME IInv, Settle
  PROVE  IInv'
<1> DEFINE x == call.id
           W == Wanted(slots, call)
<1>1. call.pc = "settle" /\ Take(x) /\ slots' = slots /\ hand' = hand /\ sq' = sq
      /\ driver' = driver /\ device' = device /\ disk' = disk
  BY DEF Settle, below
<1>2. /\ RingTyped(sq, cq', parked')
      /\ Landed(x) = {} => Spread(W, sq, driver, device, cq', parked')
      /\ Landed(x) # {} => Spread(W \ {x}, sq, driver, device, cq', parked')
      /\ ToSet(cq') \cup parked' \subseteq ToSet(cq) \cup parked
      /\ \A a \in parked': a.id # x
  BY <1>1, TakenRing, ZenonT(40)
<1>3. Tells(driver, cq', parked', slots, disk)
  BY <1>2, Zenon DEF IInv, Ringing, Tells
<1>4. Fresh(slots', disk') /\ Alone(driver', device') /\ Flights(slots')
  BY <1>1 DEF IInv, Calling
<1>5. CASE Landed(x) = {}
  <2>1. call' = call /\ turn' = "drain" /\ moved' = FALSE
    BY <1>5 DEF Settle, Defer
  <2>2. Aside(parked', call)
    BY <1>2, ZenonT(40) DEF Aside
  <2>3. Typed'
    BY <1>1, <1>2, <2>1, ZenonT(40) DEF IInv, Typed
  <2>4. Ringing'
    BY <1>1, <1>2, <1>3, <1>5, <2>1, <2>2, Zenon DEF IInv, Ringing
  <2>5. Calling'
    BY <1>1, <2>1 DEF IInv, Calling
  <2> QED
    BY <1>4, <2>3, <2>4, <2>5 DEF IInv
<1>6. CASE Landed(x) # {}
  <2>1. call' = Idle /\ turn' = turn /\ moved' = moved
    BY <1>6 DEF Settle
  <2>2. call'.pc = "idle" /\ call' \in Calls
    BY <2>1, Ready DEF Idle, Calls, Opt
  <2>3. Stage(call') /\ Aims(call', slots') /\ Swept(call', slots') /\ Scratch(call', slots')
        /\ Aside(parked', call')
    BY <2>1 DEF Idle, Stage, Aims, Swept, Scratch, Aside
  <2>4. Wanted(slots, call') = W \ {x}
    <3>1. \A y: y \in Wanted(slots, call') <=> \E i \in DOMAIN slots: Fly(slots, i) /\ y = Sid(slots, i)
      BY <2>2, WantedIs
    <3>2. \A y: y \in W <=> (\E i \in DOMAIN slots: Fly(slots, i) /\ y = Sid(slots, i)) \/ y = x
      BY <1>1, WantedIs
    <3>3. \A i \in DOMAIN slots: Fly(slots, i) => Sid(slots, i) # x
      BY <1>1 DEF IInv, Calling, Scratch
    <3> HIDE DEF W, x
    <3> QED
      BY <3>1, <3>2, <3>3
  <2>5. Asks(sq, driver, device, call', slots)
    <3>1. ASSUME NEW r, Asked(r, call, slots) PROVE Asked(r, call', slots)
      BY <2>2, <3>1 DEF Asked
    <3> QED
      BY <3>1 DEF IInv, Ringing, Asks
  <2>6. Typed'
    BY <1>1, <1>2, <2>1, <2>2, ZenonT(40) DEF IInv, Typed
  <2>7. Ringing'
    BY <1>1, <1>2, <1>3, <1>6, <2>3, <2>4, <2>5, Zenon DEF Ringing
  <2>8. Calling'
    BY <1>4, <2>3 DEF Calling
  <2> QED
    BY <1>4, <2>6, <2>7, <2>8 DEF IInv
<1> QED
  BY <1>5, <1>6

-----------------------------------------------------------------------------
(* The driver and the device. *)

\* A step that leaves the volume where it is.
LEMMA Below ==
  ASSUME IInv, UNCHANGED volume, disk' \in [Blocks -> BOOLEAN],
         RingTyped(sq', cq', parked'), DriverTyped(driver', device'),
         turn' \in {"client", "drain", "feed"}, moved' \in BOOLEAN,
         Spread(Wanted(slots, call), sq', driver', device', cq', parked'),
         Asks(sq', driver', device', call, slots), Tells(driver', cq', parked', slots, disk'),
         parked' = parked, Fresh(slots, disk'), Alone(driver', device')
  PROVE  IInv'
<1>1. slots' = slots /\ hand' = hand /\ call' = call
  BY DEF volume
<1>2. Typed'
  BY <1>1 DEF IInv, Typed
<1>3. Calling'
  BY <1>1 DEF IInv, Calling
<1>4. Ringing'
  BY <1>1 DEF IInv, Ringing
<1> QED
  BY <1>1, <1>2, <1>3, <1>4 DEF IInv

\* The facts about the ring that every step of the driver uses.
LEMMA Pumped ==
  ASSUME IInv
  PROVE  /\ disk \in [Blocks -> BOOLEAN] /\ RingTyped(sq, cq, parked) /\ DriverTyped(driver, device)
         /\ Spread(Wanted(slots, call), sq, driver, device, cq, parked)
         /\ Asks(sq, driver, device, call, slots) /\ Tells(driver, cq, parked, slots, disk)
         /\ Fresh(slots, disk) /\ Alone(driver, device)
         /\ turn \in {"client", "drain", "feed"} /\ moved \in BOOLEAN
  BY DEF IInv, Typed, Ringing

\* The answer in hand goes to the completion queue.
LEMMA DeliverStep ==
  ASSUME IInv, Deliver
  PROVE  IInv'
<1> DEFINE a == driver.pending
           W == Wanted(slots, call)
           s == Ids(ToSet(sq))
           h == Ids(Only(driver.held))
           d == Ids(device)
           c == Ids(ToSet(cq))
           k == Ids(parked)
<1>1. UNCHANGED volume /\ disk' = disk /\ sq' = sq /\ parked' = parked /\ device' = device
  BY DEF Deliver
<1>2. CASE Len(cq) < DEPTH
  <2>1. cq' = Append(cq, a) /\ driver' = [driver EXCEPT !.pending = None] /\ moved' = TRUE
        /\ turn' = turn /\ a # None
    BY <1>2 DEF Deliver
  <2>2. driver \in Drivers /\ driver.outstanding = Cardinality(device)
        /\ DriverTyped(driver, device)
    BY Pumped DEF DriverTyped
  <2>3. a \in Answers
    BY <2>1, <2>2 DEF Drivers, Opt
  <2>4. driver' \in Drivers /\ driver'.pending = None /\ driver'.held = driver.held
        /\ driver'.outstanding = driver.outstanding /\ driver'.barrier = driver.barrier
    BY <2>1, <2>2 DEF Drivers, Opt
  <2>5. DriverTyped(driver', device')
    BY <1>1, <2>2, <2>4 DEF DriverTyped
  <2>6. One(W, s, h, d, Ids(Only(a)), c, k) /\ Sole(sq) /\ Sole(cq) /\ SoleIn(device) /\ SoleIn(parked)
    BY Pumped, Zenon DEF Spread
  <2>7. Only(a) = {a} /\ Ids(Only(a)) = {a.id} /\ Ids(Only(driver'.pending)) = {}
        /\ Only(driver'.pending) = {}
    BY <2>1, <2>4, Options, ZenonT(40)
  <2> HIDE DEF W, s, h, d, c, k, a
  <2>8. One(W, s, h, d, {}, c \cup {a.id}, k) /\ a.id \notin c
    <3>1. One(W, s, h, d, {a.id}, c, k)
      BY <2>6, <2>7
    <3>2. One(W, s, h, d, {}, c \cup {a.id}, k)
      BY <3>1, Hops, Zenon
    <3> QED
      BY <3>1, <3>2 DEF One
  <2>9. cq \in Seq(Answers) /\ Len(cq) \in Nat
    BY Pumped DEF RingTyped
  <2>10. /\ cq' \in Seq(Answers) /\ Len(cq') = Len(cq) + 1 /\ ToSet(cq') = ToSet(cq) \cup {a}
         /\ Ids(ToSet(cq')) = c \cup {a.id} /\ Sole(cq')
    BY <2>1, <2>3, <2>6, <2>8, <2>9, Pushed DEF c
  <2>11. RingTyped(sq', cq', parked')
    BY <1>1, <1>2, <2>9, <2>10, Pumped, Geometry DEF RingTyped
  <2>12. Spread(W, sq', driver', device', cq', parked')
    BY <1>1, <2>4, <2>6, <2>7, <2>8, <2>10, ZenonT(40) DEF Spread, s, h, d, k
  <2>13. Asks(sq', driver', device', call, slots)
    BY <1>1, <2>4, Pumped, Zenon DEF Asks
  <2>14. Tells(driver', cq', parked', slots, disk')
    <3>1. Tells(driver, cq, parked, slots, disk)
      BY Pumped
    <3>2. a \in Only(driver.pending)
      BY <2>7 DEF a
    <3> QED
      BY <1>1, <2>7, <2>10, <3>1, <3>2, Zenon DEF Tells
  <2>15. Alone(driver', device')
    BY <1>1, <2>4, Pumped, Zenon DEF Alone
  <2>16. turn' \in {"client", "drain", "feed"} /\ moved' \in BOOLEAN /\ Fresh(slots, disk')
         /\ disk' \in [Blocks -> BOOLEAN]
    BY <1>1, <2>1, Pumped
  <2> QED
    BY <1>1, <2>5, <2>11, <2>12, <2>13, <2>14, <2>15, <2>16, Below DEF W
<1>3. CASE ~(Len(cq) < DEPTH)
  <2>1. cq' = cq /\ driver' = driver /\ moved' = moved /\ turn' = "feed"
    BY <1>3 DEF Deliver
  <2> QED
    BY <1>1, <2>1, Pumped, Below
<1> QED
  BY <1>2, <1>3

\* A write changes no block that a slot holds or fetches.
LEMMA Overwrites ==
  ASSUME IInv, NEW r \in device, r.kind = "write"
  PROVE  \A i \in DOMAIN slots: ~Holds(slots[i], r.block)
<1>1. Asked(r, call, slots)
  BY Pumped DEF Asks
<1>2. r.id \in Wanted(slots, call)
  BY Known
<1>3. ~(\E i \in DOMAIN slots: Fly(slots, i) /\ r.id = Sid(slots, i))
  BY <1>1 DEF Asked
<1>4. call.pc = "settle" /\ r.id = call.id
  BY <1>2, <1>3, WantedIs
<1>5. "write" = (IF call.op = "raw" THEN "read" ELSE call.op) /\ r.block = call.block
  BY <1>1, <1>4 DEF Asked
<1>6. call.op = "write"
  BY <1>5
<1> QED
  BY <1>4, <1>5, <1>6, Ready, ZenonT(40) DEF Swept

\* The device finishes a request: a read answers what the block holds, and a
\* write reaches no block that a slot holds or fetches.
LEMMA ReapStep ==
  ASSUME IInv, NEW r \in device, NEW ok \in BOOLEAN, NEW wrote \in BOOLEAN, Reap(r, ok, wrote)
  PROVE  IInv'
<1> DEFINE a == [id |-> r.id, ok |-> ok, value |-> r.kind = "read" /\ ok /\ disk[r.block]]
           W == Wanted(slots, call)
           s == Ids(ToSet(sq))
           h == Ids(Only(driver.held))
           d == Ids(device)
           c == Ids(ToSet(cq))
           k == Ids(parked)
<1>1. /\ UNCHANGED volume /\ sq' = sq /\ cq' = cq /\ parked' = parked /\ turn' = turn /\ moved' = moved
      /\ device' = device \ {r} /\ driver' = Reaped(driver, a) /\ driver.pending = None
      /\ disk' = [b \in Blocks |-> IF wrote /\ b = r.block THEN ~disk[b] ELSE disk[b]]
      /\ wrote => r.kind = "write"
  BY Zenon DEF Reap
<1>2. disk \in [Blocks -> BOOLEAN] /\ DriverTyped(driver, device) /\ RingTyped(sq, cq, parked)
  BY Pumped
<1>3. r \in Requests /\ device \in SUBSET Requests /\ driver \in Drivers /\ IsFiniteSet(device)
      /\ driver.outstanding = Cardinality(device) /\ driver.outstanding <= QueueDepth
  BY <1>2 DEF DriverTyped
<1>4. disk' \in [Blocks -> BOOLEAN]
  BY <1>1, <1>2, ZenonT(40)
<1>5. /\ ~wrote => disk' = disk
      /\ \A b \in Blocks: b # r.block => disk'[b] = disk[b]
  BY <1>1, <1>2
<1>6. a \in Answers /\ a # None /\ a.id = r.id /\ a.ok = ok
      /\ (r.kind = "read" /\ ok => a.value <=> disk[r.block])
  <2>1. (r.kind = "read" /\ ok /\ disk[r.block]) \in BOOLEAN
    OBVIOUS
  <2>2. r.id \in 0..DEPTH
    BY <1>3 DEF Requests
  <2>3. a \in Answers
    BY <2>1, <2>2 DEF Answers
  <2> QED
    BY <2>3, Nothing, Zenon
<1> HIDE DEF a
<1>7. IsFiniteSet(device') /\ Cardinality(device') = Cardinality(device) - 1
      /\ Cardinality(device) \in Nat /\ Cardinality(device') \in Nat
  BY <1>1, <1>3, CountLess, Zenon
<1>8. /\ driver' \in Drivers /\ driver'.pending = a /\ driver'.held = driver.held
      /\ driver'.outstanding = driver.outstanding - 1
  <2>1. driver.outstanding - 1 \in Nat
    BY <1>3, <1>7
  <2>2. (driver.barrier /\ driver.outstanding # 1) \in BOOLEAN
    OBVIOUS
  <2> QED
    BY <1>1, <1>3, <1>6, <2>1, <2>2, Zenon DEF Reaped, Drivers, Opt
<1>9. DriverTyped(driver', device')
  <2>1. device' \in SUBSET Requests
    BY <1>1, <1>3
  <2>2. driver'.outstanding = Cardinality(device')
    BY <1>3, <1>7, <1>8
  <2>3. driver'.outstanding <= QueueDepth
    BY <1>3, <1>7, <1>8, Geometry
  <2> QED
    BY <1>7, <1>8, <2>1, <2>2, <2>3, Zenon DEF DriverTyped
<1>10. One(W, s, h, d, Ids(Only(driver.pending)), c, k) /\ Sole(sq) /\ Sole(cq) /\ SoleIn(device)
       /\ SoleIn(parked)
  BY Pumped, ZenonT(40) DEF Spread
<1>11. Only(driver.pending) = {} /\ Ids(Only(driver.pending)) = {} /\ Only(driver'.pending) = {a}
       /\ Ids(Only(driver'.pending)) = {r.id}
  <2>1. driver.pending = None /\ driver'.pending = a /\ a # None /\ a.id = r.id
    BY <1>1, <1>6, <1>8
  <2>2. Only(driver.pending) = {} /\ Only(driver'.pending) = {a}
    BY <2>1, Options
  <2>3. Ids({}) = {} /\ Ids({a}) = {r.id}
    BY <2>1, Options
  <2> QED
    BY <2>2, <2>3, ZenonT(40)
<1>12. Ids(device') = d \ {r.id} /\ r.id \in d /\ SoleIn(device')
  BY <1>1, <1>10, SetIds, ZenonT(40)
<1> HIDE DEF W, s, h, d, c, k
<1>13. One(W, s, h, d \ {r.id}, {r.id}, c, k)
  <2>1. One(W, s, h, d, {}, c, k)
    BY <1>10, <1>11, ZenonT(40)
  <2> QED
    BY <1>12, <2>1, Hops, ZenonT(40)
<1>14. Spread(W, sq', driver', device', cq', parked')
  BY <1>1, <1>8, <1>10, <1>11, <1>12, <1>13, Zenon DEF Spread, s, h, c, k
<1>15. Asks(sq', driver', device', call, slots)
  BY <1>1, <1>8, Pumped, ZenonT(40) DEF Asks
<1>16. wrote => \A i \in DOMAIN slots: ~Holds(slots[i], r.block)
  BY <1>1, Overwrites, ZenonT(40)
<1>17. Fresh(slots, disk')
  <2> SUFFICES ASSUME NEW i \in DOMAIN slots, slots[i].at = "here", slots[i].block # None
               PROVE  slots[i].value = disk'[slots[i].block]
    BY DEF Fresh
  <2>1. slots[i].value = disk[slots[i].block]
    BY Pumped, ZenonT(40) DEF Fresh
  <2>2. CASE ~wrote
    BY <1>5, <2>1, <2>2
  <2>3. CASE wrote
    <3>1. slots[i].block # r.block
      BY <1>16, <2>3 DEF Holds
    <3>2. slots[i] \in Slots
      BY Ready
    <3>3. slots[i].block \in Blocks
      BY <3>2 DEF Slots, Opt
    <3> QED
      BY <1>5, <2>1, <3>1, <3>3
  <2> QED
    BY <2>2, <2>3
<1>18. ASSUME NEW b, Told(b, slots, disk) PROVE Told(b, slots, disk')
  <2> SUFFICES ASSUME NEW i \in DOMAIN slots, Fly(slots, i), Sid(slots, i) = b.id, b.ok
               PROVE  b.value = disk'[Sbl(slots, i)]
    BY DEF Told
  <2>1. b.value = disk[Sbl(slots, i)]
    BY <1>18 DEF Told
  <2>2. Sbl(slots, i) \in Blocks
    BY DEF IInv, Calling, Flights
  <2>3. wrote => Sbl(slots, i) # r.block
    BY <1>16 DEF Holds, Fly, Sbl
  <2> QED
    BY <1>5, <2>1, <2>2, <2>3, Zenon
<1>19. Told(a, slots, disk')
  <2> SUFFICES ASSUME NEW i \in DOMAIN slots, Fly(slots, i), Sid(slots, i) = a.id, a.ok
               PROVE  a.value = disk'[Sbl(slots, i)]
    BY DEF Told
  <2>1. Asked(r, call, slots)
    BY Pumped DEF Asks
  <2>2. r.kind = "read" /\ r.block = Sbl(slots, i)
    BY <1>6, <2>1 DEF Asked
  <2>3. disk' = disk /\ a.value \in BOOLEAN /\ Sbl(slots, i) \in Blocks
    BY <1>1, <1>5, <1>6, <2>2 DEF Answers, IInv, Calling, Flights
  <2> QED
    BY <1>2, <1>6, <2>2, <2>3, ZenonT(40)
<1>20. Tells(driver', cq', parked', slots, disk')
  <2>1. Tells(driver, cq, parked, slots, disk)
    BY Pumped
  <2> QED
    BY <1>1, <1>11, <1>18, <1>19, <2>1, Zenon DEF Tells
<1>21. Alone(driver', device')
  BY <1>1, Pumped DEF Alone
<1>22. RingTyped(sq', cq', parked') /\ turn' \in {"client", "drain", "feed"} /\ moved' \in BOOLEAN
  BY <1>1, <1>2, Pumped
<1> QED
  BY <1>1, <1>4, <1>9, <1>14, <1>15, <1>17, <1>20, <1>21, <1>22, Below, Zenon DEF W

\* The request that feed looks at: the one held back, or the first on the ring.
LEMMA Picked ==
  ASSUME IInv, Feeding
  PROVE  /\ Candidate \in Requests /\ Candidate # None
         /\ RingTyped(Rest, cq, parked) /\ Sole(Rest)
         /\ ToSet(Rest) \subseteq ToSet(sq)
         /\ Candidate \in ToSet(sq) \cup Only(driver.held)
         /\ \/ Only(driver.held) = {Candidate} /\ Rest = sq /\ Candidate = driver.held
            \/ /\ driver.held = None /\ Only(driver.held) = {}
               /\ Candidate.id \in Ids(ToSet(sq))
               /\ Ids(ToSet(Rest)) = Ids(ToSet(sq)) \ {Candidate.id}
<1>1. driver \in Drivers /\ sq \in Seq(Requests) /\ Len(sq) \in Nat /\ Len(sq) <= DEPTH /\ DEPTH \in Nat
      /\ RingTyped(sq, cq, parked)
  BY Pumped, Geometry DEF DriverTyped, RingTyped
<1>2. Sole(sq)
  BY Pumped, Zenon DEF Spread
<1>3. CASE driver.held # None
  <2>1. Candidate = driver.held /\ Rest = sq
    BY <1>3 DEF Candidate, Rest
  <2>2. driver.held \in Requests
    BY <1>1, <1>3 DEF Drivers, Opt
  <2>3. Only(driver.held) = {Candidate}
    BY <1>3, <2>1, Options
  <2> QED
    BY <1>1, <1>2, <1>3, <2>1, <2>2, <2>3
<1>4. CASE driver.held = None
  <2>1. Candidate = Head(sq) /\ Rest = Tail(sq) /\ sq # <<>>
    BY <1>4 DEF Candidate, Rest, Feeding
  <2>2. /\ Candidate \in Requests /\ Candidate \in ToSet(sq)
        /\ Rest \in Seq(Requests) /\ Len(Rest) = Len(sq) - 1
        /\ ToSet(Rest) \in SUBSET ToSet(sq)
        /\ Ids(ToSet(Rest)) = Ids(ToSet(sq)) \ {Candidate.id} /\ Sole(Rest)
    BY <1>1, <1>2, <2>1, Popped, ZenonT(40)
  <2>3. RingTyped(Rest, cq, parked)
    BY <1>1, <2>2 DEF RingTyped
  <2>4. Candidate # None /\ Candidate.id \in Ids(ToSet(sq))
    BY <2>2, Nothing DEF Ids
  <2>5. Only(driver.held) = {}
    BY <1>4, Options
  <2> QED
    BY <1>4, <2>2, <2>3, <2>4, <2>5
<1> QED
  BY <1>3, <1>4

\* A request starts on the device; a flush, on an empty one.
LEMMA FeedStep ==
  ASSUME IInv, FeedStart
  PROVE  IInv'
<1> DEFINE r == Candidate
           W == Wanted(slots, call)
           s == Ids(ToSet(sq))
           h == Ids(Only(driver.held))
           d == Ids(device)
           p == Ids(Only(driver.pending))
           c == Ids(ToSet(cq))
           k == Ids(parked)
<1>1. /\ UNCHANGED volume /\ disk' = disk /\ cq' = cq /\ parked' = parked /\ turn' = turn
      /\ moved' = TRUE /\ sq' = Rest /\ device' = device \cup {r} /\ driver' = Fed(driver, r)
      /\ Feeding /\ ~Waits(r)
  BY DEF FeedStart
<1>2. /\ r \in Requests /\ r # None /\ RingTyped(sq', cq, parked) /\ Sole(sq')
      /\ ToSet(sq') \subseteq ToSet(sq) /\ r \in ToSet(sq) \cup Only(driver.held)
      /\ \/ Only(driver.held) = {r} /\ sq' = sq /\ r = driver.held
         \/ /\ driver.held = None /\ Only(driver.held) = {}
            /\ r.id \in s /\ Ids(ToSet(sq')) = s \ {r.id}
  BY <1>1, Picked
<1> HIDE DEF r
<1>3. device \in SUBSET Requests /\ driver \in Drivers /\ IsFiniteSet(device)
      /\ driver.outstanding = Cardinality(device) /\ DriverTyped(driver, device)
  BY Pumped DEF DriverTyped
<1>4. driver.outstanding \in Nat /\ driver.outstanding < QueueDepth /\ ~driver.barrier
      /\ QueueDepth \in Nat
  BY <1>1, <1>3, Geometry DEF Feeding, Drivers
<1>5. /\ driver' \in Drivers /\ driver'.pending = driver.pending /\ driver'.held = None
      /\ driver'.outstanding = driver.outstanding + 1 /\ driver'.barrier = (r.kind = "flush")
  <2>1. (r.kind = "flush") \in BOOLEAN /\ driver.outstanding + 1 \in Nat
    BY <1>4
  <2> QED
    BY <1>1, <1>3, <2>1, Zenon DEF Fed, Drivers, Opt
<1>6. One(W, s, h, d, p, c, k) /\ Sole(cq) /\ SoleIn(device) /\ SoleIn(parked)
  BY Pumped, Zenon DEF Spread
<1>7. Only(driver'.held) = {} /\ Ids(Only(driver'.held)) = {}
  BY <1>5, Options
<1>8. Ids(device') = d \cup {r.id} /\ (r.id \notin d => SoleIn(device'))
  BY <1>1, <1>6, SetIds, ZenonT(40)
<1>9. One(W, Ids(ToSet(sq')), {}, d \cup {r.id}, p, c, k) /\ r.id \notin d
  <2>1. CASE Only(driver.held) = {r} /\ sq' = sq
    <3>1. h = {r.id} /\ Ids(ToSet(sq')) = s
      BY <2>1, Options
    <3> HIDE DEF W, s, h, d, p, c, k
    <3>2. One(W, s, {}, d \cup {r.id}, p, c, k)
      BY <1>6, <3>1, Hops, ZenonT(40)
    <3>3. r.id \notin d
      BY <1>6, <3>1 DEF One
    <3> QED
      BY <3>1, <3>2, <3>3
  <2>2. CASE Only(driver.held) = {} /\ r.id \in s /\ Ids(ToSet(sq')) = s \ {r.id}
    <3>1. h = {}
      BY <2>2, Options
    <3> HIDE DEF W, s, h, d, p, c, k
    <3>2. One(W, s \ {r.id}, {}, d \cup {r.id}, p, c, k)
      BY <1>6, <2>2, <3>1, Hops, Zenon
    <3>3. r.id \notin d
      BY <1>6, <2>2 DEF One
    <3> QED
      BY <2>2, <3>2, <3>3
  <2> QED
    BY <1>2, <2>1, <2>2, ZenonT(40)
<1>10. r \notin device
  BY <1>9, Zenon DEF Ids
<1>11. IsFiniteSet(device') /\ Cardinality(device') = driver.outstanding + 1
  BY <1>1, <1>3, <1>10, CountMore
<1>12. DriverTyped(driver', device')
  <2>1. device' \in SUBSET Requests
    BY <1>1, <1>2, <1>3
  <2>2. driver'.outstanding <= QueueDepth
    BY <1>4, <1>5
  <2> QED
    BY <1>5, <1>11, <2>1, <2>2 DEF DriverTyped
<1>13. Spread(W, sq', driver', device', cq', parked')
  BY <1>1, <1>2, <1>5, <1>6, <1>7, <1>8, <1>9, Zenon DEF Spread
<1>14. Asks(sq', driver', device', call, slots)
  <2>1. Asks(sq, driver, device, call, slots)
    BY Pumped
  <2> QED
    BY <1>1, <1>2, <1>7, <2>1, Zenon DEF Asks
<1>15. Tells(driver', cq', parked', slots, disk')
  BY <1>1, <1>5, Pumped, ZenonT(40) DEF Tells
<1>16. Alone(driver', device')
  <2>1. \A q \in device: q.kind # "flush"
    BY <1>4, Pumped DEF Alone
  <2>2. r.kind = "flush" => device = {}
    <3>1. r.kind = "flush" => ~(driver.outstanding > 0)
      BY <1>1 DEF Waits
    <3>2. r.kind = "flush" => Cardinality(device) = 0
      BY <1>3, <1>4, <3>1
    <3> QED
      BY <1>3, <3>2, CountNone
  <2> QED
    BY <1>1, <1>5, <2>1, <2>2, Zenon DEF Alone
<1>17. RingTyped(sq', cq', parked') /\ turn' \in {"client", "drain", "feed"} /\ moved' \in BOOLEAN
       /\ disk' \in [Blocks -> BOOLEAN] /\ Fresh(slots, disk')
  BY <1>1, <1>2, Pumped
<1> QED
  BY <1>1, <1>12, <1>13, <1>14, <1>15, <1>16, <1>17, Below

\* A request is held back.
LEMMA HoldStep ==
  ASSUME IInv, FeedHold
  PROVE  IInv'
<1> DEFINE r == Candidate
           W == Wanted(slots, call)
           s == Ids(ToSet(sq))
           h == Ids(Only(driver.held))
           d == Ids(device)
           p == Ids(Only(driver.pending))
           c == Ids(ToSet(cq))
           k == Ids(parked)
<1>1. /\ UNCHANGED volume /\ disk' = disk /\ cq' = cq /\ parked' = parked /\ device' = device
      /\ moved' = FALSE /\ turn' \in {"client", "drain", "feed"} /\ sq' = Rest
      /\ driver' = [driver EXCEPT !.held = r] /\ Feeding
  BY DEF FeedHold, Return
<1>2. /\ r \in Requests /\ r # None /\ RingTyped(sq', cq, parked) /\ Sole(sq')
      /\ ToSet(sq') \subseteq ToSet(sq) /\ r \in ToSet(sq) \cup Only(driver.held)
      /\ \/ Only(driver.held) = {r} /\ sq' = sq /\ r = driver.held
         \/ /\ driver.held = None /\ Only(driver.held) = {}
            /\ r.id \in s /\ Ids(ToSet(sq')) = s \ {r.id}
  BY <1>1, Picked
<1> HIDE DEF r
<1>3. driver \in Drivers /\ DriverTyped(driver, device)
  BY Pumped DEF DriverTyped
<1>4. /\ driver' \in Drivers /\ driver'.pending = driver.pending /\ driver'.held = r
      /\ driver'.outstanding = driver.outstanding /\ driver'.barrier = driver.barrier
  BY <1>1, <1>2, <1>3 DEF Drivers, Opt
<1>5. One(W, s, h, d, p, c, k) /\ Sole(cq) /\ SoleIn(device) /\ SoleIn(parked)
  BY Pumped, Zenon DEF Spread
<1>6. Only(driver'.held) = {r} /\ Ids(Only(driver'.held)) = {r.id}
  BY <1>2, <1>4, Options, ZenonT(40)
<1>7. One(W, Ids(ToSet(sq')), {r.id}, d, p, c, k)
  <2>1. CASE Only(driver.held) = {r} /\ sq' = sq
    <3>1. h = {r.id} /\ Ids(ToSet(sq')) = s
      BY <2>1, Options
    <3> QED
      BY <1>5, <3>1, ZenonT(40)
  <2>2. CASE Only(driver.held) = {} /\ r.id \in s /\ Ids(ToSet(sq')) = s \ {r.id}
    <3>1. h = {}
      BY <2>2, Options
    <3> HIDE DEF W, s, h, d, p, c, k
    <3>2. One(W, s \ {r.id}, {r.id}, d, p, c, k)
      BY <1>5, <2>2, <3>1, Hops, ZenonT(40)
    <3> QED
      BY <2>2, <3>2
  <2> QED
    BY <1>2, <2>1, <2>2, ZenonT(40)
<1>8. Spread(W, sq', driver', device', cq', parked')
  BY <1>1, <1>2, <1>4, <1>5, <1>6, <1>7 DEF Spread
<1>9. DriverTyped(driver', device')
  BY <1>1, <1>3, <1>4 DEF DriverTyped
<1>10. Asks(sq', driver', device', call, slots)
  <2>1. Asks(sq, driver, device, call, slots)
    BY Pumped
  <2> QED
    BY <1>1, <1>2, <1>6, <2>1 DEF Asks
<1>11. Tells(driver', cq', parked', slots, disk')
  BY <1>1, <1>4, Pumped DEF Tells
<1>12. Alone(driver', device')
  BY <1>1, <1>4, Pumped DEF Alone
<1>13. RingTyped(sq', cq', parked') /\ moved' \in BOOLEAN
       /\ disk' \in [Blocks -> BOOLEAN] /\ Fresh(slots, disk')
  BY <1>1, <1>2, Pumped, ZenonT(40)
<1> QED
  BY <1>1, <1>8, <1>9, <1>10, <1>11, <1>12, <1>13, Below

\* The halves of a round that find nothing to do.
LEMMA RoundStep ==
  ASSUME IInv, Drained \/ FeedStop
  PROVE  IInv'
<1>1. /\ UNCHANGED volume /\ disk' = disk /\ sq' = sq /\ cq' = cq /\ parked' = parked
      /\ device' = device /\ driver' = driver
      /\ turn' \in {"client", "drain", "feed"} /\ moved' \in BOOLEAN
  BY Pumped, Zenon DEF Drained, FeedStop, Return
<1> QED
  BY <1>1, Pumped, Below

-----------------------------------------------------------------------------
(* The theorems. *)

\* Nothing is buffered, asked or answered on a fresh mount.
LEMMA InitIInv == Init => IInv
<1> SUFFICES ASSUME Init PROVE IInv
  OBVIOUS
<1> USE DEF Init
<1>1. Ids({}) = {} /\ Only(None) = {} /\ ToSet(<<>>) = {}
  BY Options DEF ToSet
<1>2. VolumeTyped(slots, hand) /\ RingTyped(sq, cq, parked)
  BY Geometry DEF VolumeTyped, RingTyped
<1>3. DriverTyped(driver, device)
  <2>1. device = {} /\ driver = [pending |-> None, held |-> None, outstanding |-> 0, barrier |-> FALSE]
    OBVIOUS
  <2> HIDE DEF Init
  <2>2. driver \in Drivers /\ driver.outstanding = 0
    BY <2>1 DEF Drivers, Opt
  <2>3. IsFiniteSet(device) /\ Cardinality(device) = 0 /\ device \subseteq Requests
    BY <2>1, CountNone
  <2>4. 0 <= QueueDepth
    BY Geometry
  <2> QED
    BY <2>2, <2>3, <2>4 DEF DriverTyped
<1>4. call \in Calls
  <2>1. 0 \in 0..SLOTS+1
    BY Geometry
  <2>2. None \in Opt(Blocks) /\ None \in Opt(0..DEPTH)
    BY DEF Opt
  <2>3. Idle \in Calls
    BY <2>1, <2>2, ZenonT(40) DEF Calls, Idle
  <2> QED
    BY <2>3
<1>5. Typed
  BY <1>2, <1>3, <1>4, ZenonT(40) DEF Typed
<1>6. Calling
  <2>1. call.pc = "idle" /\ call.op = "none" /\ DOMAIN slots = {}
    <3>1. call = Idle /\ slots = <<>>
      OBVIOUS
    <3> HIDE DEF Init
    <3> QED
      BY <3>1 DEF Idle
  <2> HIDE DEF Init
  <2>2. Stage(call)
    BY <2>1 DEF Stage
  <2>3. Aims(call, slots) /\ Swept(call, slots) /\ Scratch(call, slots)
    BY <2>1 DEF Aims, Swept, Scratch
  <2>4. Flights(slots)
    BY <2>1 DEF Flights
  <2> QED
    BY <2>2, <2>3, <2>4 DEF Calling
<1>7. Wanted(slots, call) = {}
  <2>1. call.pc # "settle" /\ DOMAIN slots = {}
    BY DEF Idle
  <2> HIDE DEF Init
  <2> QED
    BY <2>1, WantedIs
<1>8. Spread({}, sq, driver, device, cq, parked)
  <2>1. One({}, {}, {}, {}, {}, {}, {})
    BY DEF One
  <2>2. Only(driver.held) = {} /\ Only(driver.pending) = {} /\ ToSet(sq) = {} /\ ToSet(cq) = {}
    BY <1>1
  <2>3. Sole(sq) /\ Sole(cq) /\ SoleIn(device) /\ SoleIn(parked)
    BY DEF Sole, SoleIn
  <2>4. device = {} /\ parked = {}
    OBVIOUS
  <2> QED
    BY <1>1, <2>1, <2>2, <2>3, <2>4, Zenon DEF Spread
<1>9. Asks(sq, driver, device, call, slots) /\ Tells(driver, cq, parked, slots, disk) /\ Aside(parked, call)
  BY <1>1, ZenonT(40) DEF Asks, Tells, Aside
<1>10. Fresh(slots, disk) /\ Alone(driver, device)
  BY DEF Fresh, Alone
<1> QED
  BY <1>5, <1>6, <1>7, <1>8, <1>9, <1>10, Zenon DEF IInv, Ringing

\* Every step of the volume, the driver and the device keeps the invariant.
LEMMA NextIInv == IInv /\ [Next]_vars => IInv'
<1> SUFFICES ASSUME IInv, [Next]_vars PROVE IInv'
  OBVIOUS
<1>1. ASSUME NEW op \in {"block", "prefetch", "raw"}, NEW b \in Blocks, Call(op, b) PROVE IInv'
  BY <1>1, CallStep
<1>2. ASSUME NEW b \in Written, Call("write", b) PROVE IInv'
  BY <1>2, CallStep, Geometry
<1>3. ASSUME NEW op \in {"flush", "commit"}, Call(op, None) PROVE IInv'
  BY <1>3, CallStep
<1>4. CASE VolumeStep
  <2>1. ASSUME Land PROVE IInv'
    BY <2>1, LandHere, LandWaits, LandTakes
  <2> QED
    BY <1>4, <2>1, SpareStep, StartStep, StaleStep, OnceStep, SettleStep DEF VolumeStep
<1>5. CASE Deliver
  BY <1>5, DeliverStep
<1>6. ASSUME NEW r \in device, NEW ok \in BOOLEAN, NEW wrote \in BOOLEAN, Reap(r, ok, wrote) PROVE IInv'
  BY <1>6, ReapStep
<1>7. CASE Drained \/ FeedStop
  BY <1>7, RoundStep
<1>8. CASE FeedStart
  BY <1>8, FeedStep
<1>9. CASE FeedHold
  BY <1>9, HoldStep
<1>10. CASE UNCHANGED vars
  <2>1. UNCHANGED volume /\ disk' = disk /\ sq' = sq /\ cq' = cq /\ parked' = parked
        /\ device' = device /\ driver' = driver /\ turn' = turn /\ moved' = moved
    BY <1>10 DEF vars, volume
  <2> QED
    BY <2>1, Pumped, Below
<1> QED
  BY <1>1, <1>2, <1>3, <1>4, <1>5, <1>6, <1>7, <1>8, <1>9, <1>10 DEF Next

\* The strengthened invariant holds in every reachable state: what each request
\* asks and each answer tells is tied to the slot or call that waits for it.
THEOREM Invariance == Spec => []IInv
  BY InitIInv, NextIInv, PTL DEF Spec

\* Volume::block never returns a buffer that differs from what the device would
\* answer now, whatever order it answers in (volume.rs, stale and land).
THEOREM NeverStale == Spec => []CacheFresh
<1>1. IInv => CacheFresh
  BY Zenon DEF IInv, Fresh, CacheFresh
<1> QED
  BY <1>1, Invariance, PTL

\* The answers set aside fit the array `take` puts them in: each is a slot's.
LEMMA ParkedFit ==
  ASSUME IInv
  PROVE  Cardinality(parked) < DEPTH
<1> DEFINE f == [a \in parked |-> CHOOSE i \in DOMAIN slots: Sid(slots, i) = a.id]
<1>1. \A a \in parked: \E i \in DOMAIN slots: Sid(slots, i) = a.id
  <2> TAKE a \in parked
  <2>1. a.id \in Wanted(slots, call) /\ ~(call.pc = "settle" /\ call.id = a.id)
    BY Known, ZenonT(40) DEF IInv, Ringing, Aside
  <2> HIDE DEF f
  <2>2. \A x \in Wanted(slots, call):
          (\E i \in DOMAIN slots: Sid(slots, i) = x) \/ (call.pc = "settle" /\ x = call.id)
    BY Zenon DEF Wanted, Sid
  <2> QED
    BY <2>1, <2>2, Zenon
<1>2. \A a \in parked: f[a] \in DOMAIN slots /\ Sid(slots, f[a]) = a.id
  BY <1>1
<1>3. f \in [parked -> 1..Len(slots)]
  BY <1>2, Ready
<1> HIDE DEF f
<1>4. SoleIn(parked)
  BY Pumped, Zenon DEF Spread
<1>5. \A a, b \in parked: f[a] = f[b] => a = b
  BY <1>2, <1>4 DEF SoleIn
<1>6. Len(slots) \in Nat /\ Len(slots) < DEPTH /\ DEPTH \in Nat
  BY Ready, Geometry
<1>7. IsFiniteSet(1..Len(slots)) /\ Cardinality(1..Len(slots)) = Len(slots) - 1 + 1
  BY <1>6, CountRange, Zenon
<1>8. Cardinality(parked) <= Cardinality(1..Len(slots)) /\ Cardinality(parked) \in Nat
  BY <1>3, <1>5, <1>7, CountInto
<1> QED
  BY <1>6, <1>7, <1>8

\* What the invariant says of the requests on the ring.
LEMMA InOrder ==
  ASSUME IInv
  PROVE  RequestsInOrder
<1>1. TypeOK
  <2>1. call \in Calls /\ driver \in Drivers
    BY Ready, Pumped DEF DriverTyped
  <2>2. call.slot \in 0..SLOTS + 1 /\ driver.pending \in Opt(Answers) /\ driver.held \in Opt(Requests)
    BY <2>1 DEF Calls, Drivers
  <2> QED
    BY <2>2, Ready, Pumped, ZenonT(40) DEF TypeOK, RingTyped, DriverTyped
<1>2. NoAnswerLost
  <2> DEFINE P == {"sq", "held", "device", "pending", "cq", "parked"}
             T == Travelling
             s == Ids(ToSet(sq))
             h == Ids(Only(driver.held))
             d == Ids(device)
             p == Ids(Only(driver.pending))
             c == Ids(ToSet(cq))
             k == Ids(parked)
             W == Wanted(slots, call)
  <2>1. /\ DOMAIN T = P /\ T["sq"] = s /\ T["held"] = h /\ T["device"] = d
        /\ T["pending"] = p /\ T["cq"] = c /\ T["parked"] = k
    BY DEF Travelling, Ids, Only
  <2>2. One(W, s, h, d, p, c, k)
    BY Pumped, Zenon DEF Spread
  <2>3. Awaited = W
    BY DEF Awaited, Wanted
  <2> HIDE DEF T, s, h, d, p, c, k, W
  <2>4. UNION {T[q]: q \in P} = W
    <3>1. ASSUME NEW x \in W PROVE x \in UNION {T[q]: q \in P}
      BY <2>1, <2>2, <3>1, ZenonT(40) DEF One
    <3>2. ASSUME NEW q \in P, NEW x \in T[q] PROVE x \in W
      BY <2>1, <2>2, <3>2 DEF One
    <3> QED
      BY <3>1, <3>2
  <2>5. ASSUME NEW q \in P, NEW r \in P, q # r PROVE T[q] \cap T[r] = {}
    <3> SUFFICES ASSUME NEW x, x \in T[q], x \in T[r] PROVE FALSE
      OBVIOUS
    <3> QED
      BY <2>1, <2>2, <2>5 DEF One
  <2> QED
    BY <2>1, <2>3, <2>4, <2>5, ParkedFit DEF NoAnswerLost, T
<1>3. FlushAlone
  BY Pumped DEF FlushAlone, Alone
<1> QED
  BY <1>1, <1>2, <1>3 DEF RequestsInOrder

\* The ring, the client and the driver lose, double and reorder nothing: every
\* request awaited is in exactly one place, each queue within its depth, and a
\* flush alone on the device (ring.rs, take and feed).
THEOREM Ordered == Spec => []RequestsInOrder
<1>1. IInv => RequestsInOrder
  BY InOrder
<1> QED
  BY <1>1, Invariance, PTL
=============================================================================
