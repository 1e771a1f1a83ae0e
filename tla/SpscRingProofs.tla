--------------------------- MODULE SpscRingProofs ---------------------------
(* The ring for every capacity, width and set of values: type correctness, no *)
(* race on a slot, and every slot initialised exactly while it is held.       *)
EXTENDS SpscRing, SequenceTheorems, TLAPS

\* Advancing an index (wrapping_add in try_push and try_pop) keeps it in range.
LEMMA AdvanceInRange == \A i \in Index : Advance(i) \in Index
  BY RingSize, WrapAssumption DEF Index, Advance

\* The slot an index selects exists (slots[i % N] never panics).
LEMMA SlotInRange == \A i \in Index : (i % N) \in Slot
  BY RingSize, WrapAssumption DEF Index, Slot

\* The ring's state keeps its type under every interleaving of the two
\* endpoints (SpscRing::try_push, try_pop and Drop).
THEOREM TypeCorrect == Spec => []TypeOK
<1>1. Init => TypeOK
  BY RingSize, WrapAssumption DEF Init, TypeOK, Index
<1>2. TypeOK /\ [Next]_vars => TypeOK'
  <2> SUFFICES ASSUME TypeOK, [Next]_vars PROVE TypeOK'
    OBVIOUS
  <2>1. ASSUME NEW v \in Values, PushCheck(v) PROVE TypeOK'
    BY <2>1 DEF PushCheck, TypeOK
  <2>2. CASE PushWrite
    BY <2>2, SlotInRange DEF PushWrite, TypeOK
  <2>3. CASE PushPublish
    BY <2>3, AdvanceInRange DEF PushPublish, TypeOK
  <2>4. CASE PopCheck
    BY <2>4 DEF PopCheck, TypeOK
  <2>5. CASE PopRead
    BY <2>5, SlotInRange DEF PopRead, TypeOK
  <2>6. CASE PopAdvance
    BY <2>6, AdvanceInRange DEF PopAdvance, TypeOK
  <2>7. CASE Drop
    BY <2>7, Zenon DEF Drop, TypeOK
  <2>8. CASE UNCHANGED vars
    BY <2>8 DEF vars, TypeOK
  <2> QED
    BY <2>1, <2>2, <2>3, <2>4, <2>5, <2>6, <2>7, <2>8 DEF Next
<1> QED
  BY <1>1, <1>2, PTL DEF Spec

-----------------------------------------------------------------------------
\* What makes NoSlotRace inductive: neither endpoint's view of the other's
\* index goes bad while it acts on it.  A producer past its check has room,
\* since only it adds entries; a consumer past its check has an entry, since
\* only it removes them.
Occupancy ==
  /\ Used <= N
  /\ pushing # "idle" => Used < N
  /\ popping # "idle" => Used > 0

\* The remainder of a number already in range, and of one just below it.
LEMMA ModInRange ==
  ASSUME NEW w \in Nat \ {0}, NEW a \in 0 .. w - 1
  PROVE  a % w = a
  OBVIOUS

\* A difference just below zero wraps once.
LEMMA ModBelowRange ==
  ASSUME NEW w \in Nat \ {0}, NEW a \in Int, a < 0, a >= 0 - w
  PROVE  a % w = a + w
  OBVIOUS

\* Quotient and remainder make the number up.
LEMMA ModDecomposes ==
  ASSUME NEW w \in Nat \ {0}, NEW a \in Int
  PROVE  (a \div w) \in Int /\ a = w * (a \div w) + (a % w)
  OBVIOUS

\* The wrapping subtraction of the indices (wrapping_sub in try_push).
LEMMA Distance ==
  ASSUME NEW h \in Index, NEW t \in Index
  PROVE  (t - h) % Wrap = IF t >= h THEN t - h ELSE t - h + Wrap
<1>1. CASE t >= h
  BY <1>1, ModInRange, RingSize, WrapAssumption DEF Index
<1>2. CASE t < h
  BY <1>2, ModBelowRange, RingSize, WrapAssumption DEF Index
<1> QED
  BY <1>1, <1>2 DEF Index

\* The wrapping increment of an index (wrapping_add in try_push and try_pop).
LEMMA Increment ==
  ASSUME NEW i \in Index
  PROVE  Advance(i) = IF i + 1 = Wrap THEN 0 ELSE i + 1
<1>1. CASE i + 1 = Wrap
  BY <1>1, RingSize, WrapAssumption DEF Index, Advance
<1>2. CASE i + 1 # Wrap
  BY <1>2, ModInRange, RingSize, WrapAssumption DEF Index, Advance
<1> QED
  BY <1>1, <1>2

\* Publishing adds one entry to a ring that has room, popping removes one.
LEMMA TailAdvances ==
  ASSUME NEW h \in Index, NEW t \in Index, (t - h) % Wrap < N
  PROVE  (Advance(t) - h) % Wrap = ((t - h) % Wrap) + 1
<1> DEFINE u == Advance(t)
<1>1. u \in Index /\ u = IF t + 1 = Wrap THEN 0 ELSE t + 1
  BY AdvanceInRange, Increment
<1>2. (t - h) % Wrap = IF t >= h THEN t - h ELSE t - h + Wrap
  BY Distance
<1> HIDE DEF u
<1>3. (u - h) % Wrap = IF u >= h THEN u - h ELSE u - h + Wrap
  BY <1>1, Distance
<1>4. (u - h) % Wrap = ((t - h) % Wrap) + 1
  BY <1>1, <1>2, <1>3, RingSize, WrapAssumption DEF Index
<1> QED
  BY <1>4 DEF u

\* A pop leaves one entry fewer between the indices, across the wrap too.
LEMMA HeadAdvances ==
  ASSUME NEW h \in Index, NEW t \in Index, (t - h) % Wrap > 0
  PROVE  (t - Advance(h)) % Wrap = ((t - h) % Wrap) - 1
<1>1. Advance(h) \in Index
  BY AdvanceInRange
<1> QED
  BY <1>1, Increment, Distance, RingSize, WrapAssumption DEF Index

\* A multiple of the ring's size is none of the distances between 0 and N.
LEMMA MultipleOfSize ==
  ASSUME NEW m \in Int
  PROVE  N * m <= 0 \/ N * m >= N
<1>1. CASE m <= 0
  BY <1>1, RingSize
<1>2. CASE m >= 1
  BY <1>2, RingSize
<1> QED
  BY <1>1, <1>2

\* Two indices that select one slot are equal or at least a ring apart, also
\* across the wrap, because N divides Wrap.
LEMMA SameSlotApart ==
  ASSUME NEW h \in Index, NEW t \in Index, t % N = h % N
  PROVE  (t - h) % Wrap = 0 \/ (t - h) % Wrap >= N
<1> DEFINE a == h \div N
           b == t \div N
           k == Wrap \div N
<1>1. a \in Int /\ h = N * a + (h % N)
  BY ModDecomposes, RingSize DEF Index
<1>2. b \in Int /\ t = N * b + (t % N)
  BY ModDecomposes, RingSize DEF Index
<1>3. k \in Int /\ Wrap = N * k
  BY ModDecomposes, RingSize, WrapAssumption
<1>4. (h % N) \in Int
  BY RingSize DEF Index
<1> HIDE DEF a, b, k
<1>5. t - h = N * (b - a)
  BY <1>1, <1>2, <1>4, RingSize
<1>6. t - h + Wrap = N * (b - a + k)
  BY <1>1, <1>2, <1>3, <1>5, RingSize
<1>7. CASE t >= h
  <2>1. (t - h) % Wrap = t - h
    BY <1>7, Distance
  <2> QED
    BY <2>1, <1>1, <1>2, <1>5, <1>7, MultipleOfSize, RingSize DEF Index
<1>8. CASE t < h
  <2>1. (t - h) % Wrap = t - h + Wrap /\ t - h + Wrap > 0
    BY <1>8, Distance, WrapAssumption DEF Index
  <2>2. b - a + k \in Int
    BY <1>1, <1>2, <1>3
  <2> QED
    BY <2>1, <2>2, <1>6, MultipleOfSize, RingSize
<1> QED
  BY <1>7, <1>8 DEF Index

\* The bound on the ring's entries, and each endpoint's right to its slot,
\* survive every step of the other endpoint (try_push, try_pop).
THEOREM OccupancyHolds == Spec => []Occupancy
<1>1. Init => Occupancy
  <2> SUFFICES ASSUME Init PROVE Occupancy
    OBVIOUS
  <2>1. Used = 0
    BY Distance, RingSize, WrapAssumption DEF Init, Used, Index
  <2> QED
    BY <2>1, RingSize DEF Init, Occupancy
<1>2. TypeOK /\ Occupancy /\ [Next]_vars => Occupancy'
  <2> SUFFICES ASSUME TypeOK, Occupancy, [Next]_vars PROVE Occupancy'
    OBVIOUS
  <2> head \in Index /\ tail \in Index
    BY DEF TypeOK
  <2>0. Used \in Nat /\ Used = (tail - head) % Wrap
    BY Distance, WrapAssumption DEF Used, Index
  <2>a. (head' = head /\ tail' = tail) => Used' = Used
    BY DEF Used
  <2>1. ASSUME NEW v \in Values, PushCheck(v) PROVE Occupancy'
    BY <2>1, <2>0, <2>a, RingSize DEF PushCheck, HasRoom, Occupancy
  <2>2. CASE PushWrite
    BY <2>2, <2>a DEF PushWrite, Occupancy
  <2>3. CASE PushPublish
    <3>1. Used' = Used + 1
      BY <2>3, <2>0, TailAdvances DEF PushPublish, Occupancy, Used
    <3> QED
      BY <3>1, <2>3, <2>0, RingSize DEF PushPublish, Occupancy
  <2>4. CASE PopCheck
    <3>1. Used > 0
      BY <2>4, <2>0, Distance, WrapAssumption DEF PopCheck, CanPop, Index
    <3> QED
      BY <3>1, <2>4, <2>a DEF PopCheck, Occupancy
  <2>5. CASE PopRead
    BY <2>5, <2>a DEF PopRead, Occupancy
  <2>6. CASE PopAdvance
    <3>1. Used' = Used - 1
      BY <2>6, <2>0, HeadAdvances DEF PopAdvance, Occupancy, Used
    <3> QED
      BY <3>1, <2>6, <2>0, RingSize DEF PopAdvance, Occupancy
  <2>7. CASE Drop
    BY <2>7, <2>a DEF Drop, Occupancy
  <2>8. CASE UNCHANGED vars
    BY <2>8, <2>a DEF vars, Occupancy
  <2> QED
    BY <2>1, <2>2, <2>3, <2>4, <2>5, <2>6, <2>7, <2>8 DEF Next
<1> QED
  BY <1>1, <1>2, TypeCorrect, PTL DEF Spec

\* The two endpoints never access one slot at the same time, for every ring
\* size (the SAFETY comment of ring.rs:76): a writer and a reader past their
\* checks are strictly between 0 and N entries apart, so their slots differ.
THEOREM RaceFree == Spec => []NoSlotRace
<1>1. TypeOK /\ Occupancy => NoSlotRace
  <2> SUFFICES ASSUME TypeOK, Occupancy,
                      pushing = "write", popping = "read", tail % N = head % N
               PROVE  FALSE
    BY DEF NoSlotRace
  <2>1. (tail - head) % Wrap = 0 \/ (tail - head) % Wrap >= N
    BY SameSlotApart DEF TypeOK
  <2>2. Used > 0 /\ Used < N /\ Used \in Int
    BY Distance, WrapAssumption DEF Occupancy, TypeOK, Used, Index
  <2> QED
    BY <2>1, <2>2, RingSize DEF Used
<1> QED
  BY <1>1, TypeCorrect, OccupancyHolds, PTL

-----------------------------------------------------------------------------
\* The slots from h to t, of which Held is an instance.
From(h, t) == {((h + i) % Wrap) % N : i \in 0 .. ((t - h) % Wrap) - 1}

\* An index moved on by less than a full turn of the counter.
LEMMA Moved ==
  ASSUME NEW h \in Index, NEW i \in 0 .. Wrap - 1
  PROVE  /\ (h + i) % Wrap \in Index
         /\ (h + i) % Wrap = IF h + i < Wrap THEN h + i ELSE h + i - Wrap
<1>1. CASE h + i < Wrap
  BY <1>1, ModInRange, WrapAssumption, RingSize DEF Index
<1>2. CASE h + i >= Wrap
  <2>1. (h + i) % Wrap = h + i - Wrap
    BY <1>2, WrapAssumption, RingSize DEF Index
  <2> QED
    BY <1>2, <2>1, WrapAssumption, RingSize DEF Index
<1> QED
  BY <1>1, <1>2, WrapAssumption, RingSize DEF Index

\* Moving on by the distance reaches the other index, and no shorter move that is
\* not zero selects the slot it started from.
LEMMA MovedAll ==
  ASSUME NEW h \in Index, NEW t \in Index
  PROVE  /\ (t - h) % Wrap \in 0 .. Wrap - 1
         /\ (h + ((t - h) % Wrap)) % Wrap = t
<1>1. (t - h) % Wrap = IF t >= h THEN t - h ELSE t - h + Wrap
  BY Distance
<1> DEFINE u == (t - h) % Wrap
<1>2. u \in 0 .. Wrap - 1
  BY <1>1, WrapAssumption, RingSize DEF Index
<1>3. (h + u) % Wrap = IF h + u < Wrap THEN h + u ELSE h + u - Wrap
  BY <1>2, Moved
<1> QED
  BY <1>1, <1>2, <1>3, WrapAssumption, RingSize DEF Index

\* An index less than N further on is another slot.
LEMMA MovedAway ==
  ASSUME NEW h \in Index, NEW i \in 1 .. N - 1
  PROVE  ((h + i) % Wrap) % N # h % N
<1> DEFINE t == (h + i) % Wrap
<1>1. i \in 0 .. Wrap - 1
  BY RingSize, WrapAssumption
<1>2. t \in Index /\ t = IF h + i < Wrap THEN h + i ELSE h + i - Wrap
  BY <1>1, Moved
<1> HIDE DEF t
<1>3. (t - h) % Wrap = i
  BY <1>1, <1>2, Distance, RingSize, WrapAssumption DEF Index
<1>4. t % N # h % N
  BY <1>2, <1>3, SameSlotApart, RingSize
<1> QED
  BY <1>4 DEF t

\* What lies i past the next index lies i + 1 past this one.
LEMMA MovedOn ==
  ASSUME NEW h \in Index, NEW i \in 0 .. N - 1
  PROVE  (Advance(h) + i) % Wrap = (h + (i + 1)) % Wrap
<1>1. i \in 0 .. Wrap - 1 /\ i + 1 \in 0 .. Wrap - 1
  BY RingSize, WrapAssumption
<1>2. Advance(h) \in Index /\ Advance(h) = IF h + 1 = Wrap THEN 0 ELSE h + 1
  BY AdvanceInRange, Increment
<1>3. (Advance(h) + i) % Wrap = IF Advance(h) + i < Wrap THEN Advance(h) + i ELSE Advance(h) + i - Wrap
  BY <1>1, <1>2, Moved
<1>4. (h + (i + 1)) % Wrap = IF h + (i + 1) < Wrap THEN h + (i + 1) ELSE h + (i + 1) - Wrap
  BY <1>1, Moved
<1> QED
  BY <1>1, <1>2, <1>3, <1>4, WrapAssumption DEF Index

\* Publishing adds the tail's slot to the ones held.
LEMMA FromGrows ==
  ASSUME NEW h \in Index, NEW t \in Index, (t - h) % Wrap < N
  PROVE  From(h, Advance(t)) = From(h, t) \cup {t % N}
<1> DEFINE u == (t - h) % Wrap
           at(i) == ((h + i) % Wrap) % N
<1>1. u \in Nat /\ (Advance(t) - h) % Wrap = u + 1
  BY TailAdvances, MovedAll, WrapAssumption
<1>2. at(u) = t % N
  BY MovedAll
<1>3. From(h, t) = {at(i) : i \in 0 .. u - 1}
  BY DEF From
<1>4. From(h, Advance(t)) = {at(i) : i \in 0 .. u}
  BY <1>1 DEF From
<1>5. 0 .. u = (0 .. u - 1) \cup {u}
  BY <1>1
<1> HIDE DEF at, u
<1> QED
  BY <1>2, <1>3, <1>4, <1>5

\* Moving the head on gives up its slot and no other.
LEMMA FromShrinks ==
  ASSUME NEW h \in Index, NEW t \in Index, (t - h) % Wrap > 0, (t - h) % Wrap <= N
  PROVE  /\ From(h, t) = From(Advance(h), t) \cup {h % N}
         /\ h % N \notin From(Advance(h), t)
<1> DEFINE u == (t - h) % Wrap
           at(i) == ((h + i) % Wrap) % N
           next(i) == ((Advance(h) + i) % Wrap) % N
<1>1. u \in Nat /\ u <= N /\ u > 0 /\ (t - Advance(h)) % Wrap = u - 1
  BY HeadAdvances, MovedAll, WrapAssumption
<1>2. at(0) = h % N
  BY ModInRange, WrapAssumption, RingSize DEF Index
<1>3. ASSUME NEW i \in 0 .. u - 2
      PROVE  next(i) = at(i + 1) /\ i + 1 \in 1 .. N - 1
  <2>1. i + 1 \in 1 .. N - 1 /\ i \in 0 .. N - 1
    BY <1>1, RingSize
  <2>2. (Advance(h) + i) % Wrap = (h + (i + 1)) % Wrap
    BY <2>1, MovedOn
  <2> QED
    BY <2>1, <2>2
<1>4. \A i \in 1 .. N - 1 : at(i) # h % N
  BY MovedAway
<1>5. From(h, t) = {at(i) : i \in 0 .. u - 1}
  BY DEF From
<1>6. From(Advance(h), t) = {next(i) : i \in 0 .. u - 2}
  <2>1. ((t - Advance(h)) % Wrap) - 1 = u - 2
    BY <1>1
  <2> QED
    BY <2>1 DEF From
<1> HIDE DEF at, next, u
<1>7. \A j \in 0 .. u - 1 : j = 0 \/ (j - 1 \in 0 .. u - 2 /\ (j - 1) + 1 = j)
  BY <1>1
<1>8. \A i \in 0 .. u - 2 : i + 1 \in 0 .. u - 1
  BY <1>1
<1>9. 0 \in 0 .. u - 1
  BY <1>1
<1>10. \A j \in 0 .. u - 1 : j = 0 \/ \E i \in 0 .. u - 2 : at(j) = next(i)
  BY <1>3, <1>7
<1>11. \A i \in 0 .. u - 2 : \E j \in 0 .. u - 1 : next(i) = at(j)
  BY <1>3, <1>8
<1>12. \A i \in 0 .. u - 2 : next(i) # h % N
  BY <1>3, <1>4
<1> QED
  BY <1>2, <1>5, <1>6, <1>9, <1>10, <1>11, <1>12

\* The tail's slot is free while there is room.
LEMMA TailOutside ==
  ASSUME NEW h \in Index, NEW t \in Index, (t - h) % Wrap < N
  PROVE  t % N \notin From(h, t)
<1> SUFFICES ASSUME NEW i \in 0 .. ((t - h) % Wrap) - 1, ((h + i) % Wrap) % N = t % N
             PROVE  FALSE
  BY DEF From
<1> DEFINE s == (h + i) % Wrap
<1>1. (t - h) % Wrap = IF t >= h THEN t - h ELSE t - h + Wrap
  BY Distance
<1>2. i \in 0 .. Wrap - 1
  BY <1>1, WrapAssumption, RingSize DEF Index
<1>3. s \in Index /\ s = IF h + i < Wrap THEN h + i ELSE h + i - Wrap
  BY <1>2, Moved
<1> HIDE DEF s
<1>4. (t - s) % Wrap = IF t >= s THEN t - s ELSE t - s + Wrap
  BY <1>3, Distance
<1>5. (t - s) % Wrap = ((t - h) % Wrap) - i
  BY <1>1, <1>2, <1>3, <1>4, WrapAssumption, RingSize DEF Index
<1>6. (t - s) % Wrap > 0 /\ (t - s) % Wrap < N
  BY <1>1, <1>2, <1>5, WrapAssumption, RingSize DEF Index
<1>7. t % N = s % N
  BY DEF s
<1>8. (t - s) % Wrap = 0 \/ (t - s) % Wrap >= N
  BY <1>3, <1>7, SameSlotApart
<1>9. (t - s) % Wrap \in Nat
  BY <1>3, MovedAll, WrapAssumption
<1> QED
  BY <1>6, <1>8, <1>9, RingSize

-----------------------------------------------------------------------------
\* A call in progress keeps the ring alive, and what is being pushed is a value
\* that, once written, is the content of the tail's slot.
Calling ==
  /\ (pushing # "idle" \/ popping # "idle") => alive
  /\ pushing # "idle" => value \in Values
  /\ pushing = "publish" => slots[tail % N] = value

\* The slot being emptied is not the one just filled.
LEMMA EndsApart ==
  ASSUME TypeOK, Occupancy, pushing # "idle", popping # "idle"
  PROVE  tail % N # head % N
<1>1. (tail - head) % Wrap \in Nat
  BY MovedAll, WrapAssumption DEF TypeOK
<1> QED
  BY <1>1, SameSlotApart, RingSize DEF TypeOK, Occupancy, Used

\* A ring that is pushed to or popped from is alive and pushes a value
\* (Drop takes the ring by exclusive reference).
THEOREM CallingHolds == Spec => []Calling
<1>1. Init => Calling
  BY DEF Init, Calling
<1>2. TypeOK /\ Occupancy /\ Calling /\ [Next]_vars => Calling'
  <2> SUFFICES ASSUME TypeOK, Occupancy, Calling, [Next]_vars PROVE Calling'
    OBVIOUS
  <2> USE DEF Calling
  <2>0. tail % N \in Slot /\ head % N \in Slot
    BY SlotInRange DEF TypeOK
  <2>1. ASSUME NEW v \in Values, PushCheck(v) PROVE Calling'
    BY <2>1 DEF PushCheck
  <2>2. CASE PushWrite
    BY <2>2, <2>0 DEF PushWrite, TypeOK
  <2>3. CASE PushPublish
    BY <2>3 DEF PushPublish
  <2>4. CASE PopCheck
    BY <2>4 DEF PopCheck
  <2>5. CASE PopRead
    BY <2>5, <2>0, EndsApart DEF PopRead, TypeOK
  <2>6. CASE PopAdvance
    BY <2>6 DEF PopAdvance
  <2>7. CASE Drop
    BY <2>7 DEF Drop
  <2>8. CASE UNCHANGED vars
    BY <2>8 DEF vars
  <2> QED
    BY <2>1, <2>2, <2>3, <2>4, <2>5, <2>6, <2>7, <2>8 DEF Next
<1> QED
  BY <1>1, <1>2, TypeCorrect, OccupancyHolds, PTL DEF Spec

\* Every slot is initialised exactly while it holds an entry, for every ring size
\* (the SAFETY comments of ring.rs:92 and ring.rs:111): no pop or drop reads a slot
\* nobody wrote, and no push or drop forgets one that was written.
THEOREM SlotsInitialised == Spec => []EntriesInitialised
<1>1. Init => EntriesInitialised
  <2> SUFFICES ASSUME Init PROVE EntriesInitialised
    OBVIOUS
  <2>1. Used = 0
    BY Distance, RingSize, WrapAssumption DEF Init, Used, Index
  <2>2. Held = {}
    BY <2>1 DEF Held
  <2> QED
    BY <2>1, <2>2, RingSize DEF Init, EntriesInitialised, Initialised
<1>2. TypeOK /\ Occupancy /\ Occupancy' /\ Calling /\ EntriesInitialised /\ [Next]_vars => EntriesInitialised'
  <2> SUFFICES ASSUME TypeOK, Occupancy, Occupancy', Calling, EntriesInitialised, [Next]_vars
               PROVE  EntriesInitialised'
    OBVIOUS
  <2>0. head \in Index /\ tail \in Index /\ tail % N \in Slot /\ head % N \in Slot
    BY SlotInRange DEF TypeOK
  <2>a. Held = From(head, tail) /\ Held' = From(head', tail')
    BY DEF Held, From, Used
  <2>b. Used' <= N
    BY DEF Occupancy
  <2>1. ASSUME NEW v \in Values, PushCheck(v) PROVE EntriesInitialised'
    BY <2>1, <2>a, <2>b DEF PushCheck, EntriesInitialised, Initialised
  <2>2. CASE PushWrite
    <3>1. Initialised' = Initialised \cup {tail % N}
      BY <2>2, <2>a DEF PushWrite, Initialised
    <3>2. value # Uninit /\ alive
      BY <2>2, UninitIsNoValue DEF PushWrite, Calling
    <3> QED
      BY <3>1, <3>2, <2>0, <2>2, <2>b DEF PushWrite, EntriesInitialised, TypeOK
  <2>3. CASE PushPublish
    <3>1. Held' = Held \cup {tail % N}
      BY <2>0, <2>a, <2>3, FromGrows DEF PushPublish, Occupancy, Used
    <3>2. popping = "advance" => tail % N # head % N
      BY <2>3, EndsApart DEF PushPublish
    <3>3. Initialised' = Initialised
      BY <3>1, <3>2, <2>3 DEF PushPublish, Initialised
    <3> QED
      BY <3>3, <2>3, <2>b DEF PushPublish, EntriesInitialised
  <2>4. CASE PopCheck
    BY <2>4, <2>a, <2>b DEF PopCheck, EntriesInitialised, Initialised
  <2>5. CASE PopRead
    <3>1. pushing = "publish" => tail % N # head % N
      BY <2>5, EndsApart DEF PopRead
    <3>2. Initialised' = Initialised \ {head % N}
      BY <3>1, <2>a, <2>5 DEF PopRead, Initialised
    <3> QED
      BY <3>2, <2>0, <2>5, <2>b DEF PopRead, EntriesInitialised, TypeOK, Calling
  <2>6. CASE PopAdvance
    <3>1. Held = Held' \cup {head % N} /\ head % N \notin Held'
      BY <2>0, <2>a, <2>6, FromShrinks DEF PopAdvance, Occupancy, Used
    <3>2. Initialised' = Initialised
      BY <3>1, <2>6 DEF PopAdvance, Initialised
    <3> QED
      BY <3>2, <2>6, <2>b DEF PopAdvance, EntriesInitialised
  <2>7. CASE Drop
    <3>1. Initialised = Held
      BY <2>7 DEF Drop, Initialised
    <3> QED
      BY <3>1, <2>7, <2>b DEF Drop, EntriesInitialised, TypeOK
  <2>8. CASE UNCHANGED vars
    BY <2>8, <2>a, <2>b DEF vars, EntriesInitialised, Initialised
  <2> QED
    BY <2>1, <2>2, <2>3, <2>4, <2>5, <2>6, <2>7, <2>8 DEF Next
<1> QED
  BY <1>1, <1>2, TypeCorrect, OccupancyHolds, CallingHolds, PTL DEF Spec

-----------------------------------------------------------------------------
(* The ring implements the bounded queue.                                     *)

Content == Values \cup {Uninit}

\* Contents of a living ring, as a function of its state.
Entries(h, t, held, phase, out) ==
  [i \in 1 .. (t - h) % Wrap |->
     IF i = 1 /\ phase = "advance" THEN out ELSE held[((h + i - 1) % Wrap) % N]]

\* The i-th entry of a ring is in a slot.
LEMMA EntrySlot ==
  ASSUME NEW h \in Index, NEW t \in Index, NEW i \in 1 .. (t - h) % Wrap
  PROVE  /\ i - 1 \in 0 .. ((t - h) % Wrap) - 1
         /\ h + i - 1 = h + (i - 1)
         /\ ((h + i - 1) % Wrap) % N \in Slot
         /\ ((h + i - 1) % Wrap) % N \in From(h, t)
<1>1. (t - h) % Wrap \in 0 .. Wrap - 1
  BY MovedAll
<1>2. i - 1 \in 0 .. ((t - h) % Wrap) - 1 /\ i - 1 \in 0 .. Wrap - 1 /\ h + i - 1 = h + (i - 1)
  BY <1>1, WrapAssumption DEF Index
<1>3. (h + (i - 1)) % Wrap \in Index
  BY <1>2, Moved
<1> QED
  BY <1>2, <1>3, SlotInRange DEF From

\* What a ring holds is a sequence as long as its indices are apart.
LEMMA EntriesSequence ==
  ASSUME NEW h \in Index, NEW t \in Index, NEW held \in [Slot -> Content],
         NEW phase, NEW out \in Content
  PROVE  /\ (t - h) % Wrap \in Nat
         /\ Entries(h, t, held, phase, out) \in Seq(Content)
         /\ Len(Entries(h, t, held, phase, out)) = (t - h) % Wrap
<1> DEFINE u == (t - h) % Wrap
           e == Entries(h, t, held, phase, out)
<1>1. u \in Nat
  BY MovedAll, WrapAssumption
<1>2. e \in [1 .. u -> Content]
  BY EntrySlot DEF Entries
<1> HIDE DEF u, e
<1>3. e \in Seq(Content)
  BY <1>1, <1>2, SeqDef
<1>4. Len(e) = u
  BY <1>1, <1>2, <1>3, LenProperties
<1> QED
  BY <1>1, <1>3, <1>4 DEF u, e

\* Writing the tail's slot changes no entry while there is room.
LEMMA EntriesWrite ==
  ASSUME NEW h \in Index, NEW t \in Index, NEW held \in [Slot -> Content],
         NEW phase, NEW out, NEW after,
         (t - h) % Wrap < N, \A s \in Slot : s # t % N => after[s] = held[s]
  PROVE  Entries(h, t, after, phase, out) = Entries(h, t, held, phase, out)
<1>1. t % N \notin From(h, t)
  BY TailOutside
<1>2. \A i \in 1 .. (t - h) % Wrap :
        after[((h + i - 1) % Wrap) % N] = held[((h + i - 1) % Wrap) % N]
  BY <1>1, EntrySlot
<1> QED
  BY <1>2 DEF Entries

\* Advancing the tail appends the content of its slot.
LEMMA EntriesPush ==
  ASSUME NEW h \in Index, NEW t \in Index, NEW held \in [Slot -> Content],
         NEW phase, NEW out \in Content,
         (t - h) % Wrap < N, phase = "advance" => (t - h) % Wrap > 0
  PROVE  Entries(h, Advance(t), held, phase, out) = Append(Entries(h, t, held, phase, out), held[t % N])
<1> DEFINE u == (t - h) % Wrap
           old == Entries(h, t, held, phase, out)
           new == Entries(h, Advance(t), held, phase, out)
<1>1. u \in Nat /\ old \in Seq(Content) /\ Len(old) = u
  BY EntriesSequence
<1>2. (Advance(t) - h) % Wrap = u + 1
  BY TailAdvances
<1>3. new \in Seq(Content) /\ Len(new) = u + 1
  BY <1>2, AdvanceInRange, EntriesSequence
<1>4. \A i \in 1 .. u : new[i] = old[i]
  BY <1>1, <1>2 DEF Entries
<1>5. new[u + 1] = held[t % N]
  <2>1. h + (u + 1) - 1 = h + u /\ u + 1 \in 1 .. u + 1
    BY <1>1 DEF Index
  <2>2. (h + u) % Wrap = t
    BY MovedAll
  <2>3. ~(u + 1 = 1 /\ phase = "advance")
    BY <1>1
  <2> HIDE DEF u
  <2>4. new[u + 1] = held[((h + (u + 1) - 1) % Wrap) % N]
    BY <1>2, <2>1, <2>3 DEF Entries
  <2> QED
    BY <2>1, <2>2, <2>4
<1>6. held[t % N] \in Content
  BY SlotInRange
<1> HIDE DEF old, new, u
<1>7. Append(old, held[t % N]) \in Seq(Content) /\ Len(Append(old, held[t % N])) = u + 1
  BY <1>1, <1>6
<1>8. \A i \in 1 .. u + 1 : new[i] = Append(old, held[t % N])[i]
  BY <1>1, <1>4, <1>5, <1>6
<1>9. new = Append(old, held[t % N])
  BY <1>3, <1>7, <1>8, SeqEqual
<1> QED
  BY <1>9 DEF old, new

\* Moving the first entry out of its slot changes no entry.
LEMMA EntriesRead ==
  ASSUME NEW h \in Index, NEW t \in Index, NEW held \in [Slot -> Content], NEW out,
         (t - h) % Wrap <= N
  PROVE  Entries(h, t, [held EXCEPT ![h % N] = Uninit], "advance", held[h % N])
           = Entries(h, t, held, "read", out)
<1> DEFINE u == (t - h) % Wrap
           at(i) == ((h + i - 1) % Wrap) % N
<1>1. u \in Nat
  BY MovedAll, WrapAssumption
<1>2. at(1) = h % N
  BY ModInRange, WrapAssumption, RingSize DEF Index
<1>3. ASSUME NEW i \in 1 .. u, i # 1
      PROVE  [held EXCEPT ![h % N] = Uninit][at(i)] = held[at(i)]
  <2>1. i - 1 \in 1 .. N - 1 /\ h + i - 1 = h + (i - 1)
    BY <1>1, <1>3, RingSize DEF Index
  <2>2. at(i) # h % N
    BY <2>1, MovedAway
  <2>3. at(i) \in Slot
    BY EntrySlot
  <2> QED
    BY <2>2, <2>3
<1> HIDE DEF at
<1>4. \A i \in 1 .. u : (IF i = 1 THEN held[h % N] ELSE [held EXCEPT ![h % N] = Uninit][at(i)]) = held[at(i)]
  BY <1>2, <1>3
<1> QED
  BY <1>4 DEF Entries, at

\* Advancing the head drops the first entry, already moved out.
LEMMA EntriesPop ==
  ASSUME NEW h \in Index, NEW t \in Index, NEW held \in [Slot -> Content],
         NEW out \in Content, NEW none \in Content, (t - h) % Wrap > 0, (t - h) % Wrap <= N
  PROVE  /\ Entries(h, t, held, "advance", out) # << >>
         /\ Entries(Advance(h), t, held, "idle", none) = Tail(Entries(h, t, held, "advance", out))
<1> DEFINE u == (t - h) % Wrap
           old == Entries(h, t, held, "advance", out)
           new == Entries(Advance(h), t, held, "idle", none)
<1>1. u \in Nat /\ old \in Seq(Content) /\ Len(old) = u
  BY EntriesSequence
<1>2. (t - Advance(h)) % Wrap = u - 1
  BY HeadAdvances
<1>3. new \in Seq(Content) /\ Len(new) = u - 1
  BY <1>2, AdvanceInRange, EntriesSequence
<1>4. ASSUME NEW i \in 1 .. u - 1
      PROVE  new[i] = old[i + 1]
  <2>1. i - 1 \in 0 .. N - 1 /\ i + 1 \in 1 .. u /\ i + 1 # 1 /\ (i - 1) + 1 = i
    BY <1>1, RingSize
  <2>2. Advance(h) + i - 1 = Advance(h) + (i - 1) /\ h + (i + 1) - 1 = h + i
    BY <2>1, AdvanceInRange DEF Index
  <2>3. (Advance(h) + (i - 1)) % Wrap = (h + i) % Wrap
    BY <2>1, MovedOn
  <2>4. new[i] = held[((Advance(h) + i - 1) % Wrap) % N]
    BY <1>2 DEF Entries
  <2>5. old[i + 1] = held[((h + (i + 1) - 1) % Wrap) % N]
    BY <2>1 DEF Entries
  <2> QED
    BY <2>2, <2>3, <2>4, <2>5
<1>5. u > 0
  OBVIOUS
<1> HIDE DEF old, new, u
<1>6. old # << >>
  BY <1>1, <1>5, EmptySeq
<1>7. Tail(old) \in Seq(Content) /\ Len(Tail(old)) = u - 1 /\ \A i \in 1 .. u - 1 : Tail(old)[i] = old[i + 1]
  BY <1>1, <1>6, HeadTailProperties
<1>8. new = Tail(old)
  BY <1>3, <1>4, <1>7, SeqEqual
<1> QED
  BY <1>6, <1>8 DEF old, new

\* The ring is a bounded FIFO for every size, width and set of values: publishing
\* the tail is a push, publishing the head a pop, and every other access of
\* try_push, try_pop and Drop leaves the queue as it was or discards it.
THEOREM FifoRefinement == Spec => ImplementsFifo
<1>1. Init => Queue!Init
  <2> SUFFICES ASSUME Init PROVE Contents = << >>
    BY DEF Queue!Init
  <2>1. Used = 0
    BY Distance, RingSize, WrapAssumption DEF Init, Used, Index
  <2> QED
    BY <2>1 DEF Init, Contents
<1>2. TypeOK /\ Occupancy /\ Calling /\ [Next]_vars => [Queue!Next]_Contents
  <2> SUFFICES ASSUME TypeOK, Occupancy, Calling, [Next]_vars
               PROVE  Queue!Next \/ Contents' = Contents
    OBVIOUS
  <2>0. /\ head \in Index /\ tail \in Index
        /\ slots \in [Slot -> Content] /\ taken \in Content /\ Uninit \in Content
    BY DEF TypeOK, Content
  <2>a. Contents = IF ~alive THEN << >> ELSE Entries(head, tail, slots, popping, taken)
    BY DEF Contents, Entries, Used
  <2>b. Contents' = IF ~alive' THEN << >> ELSE Entries(head', tail', slots', popping', taken')
    BY DEF Contents, Entries, Used
  <2>1. ASSUME NEW v \in Values, PushCheck(v) PROVE Contents' = Contents
    BY <2>1, <2>a, <2>b DEF PushCheck
  <2>2. CASE PushWrite
    <3>1. (tail - head) % Wrap < N
      BY <2>2 DEF PushWrite, Occupancy, Used
    <3>2. \A s \in Slot : s # tail % N => slots'[s] = slots[s]
      BY <2>0, <2>2 DEF PushWrite
    <3>3. Entries(head, tail, slots', popping, taken) = Entries(head, tail, slots, popping, taken)
      BY <3>1, <3>2, <2>0, EntriesWrite
    <3> QED
      BY <3>3, <2>2, <2>a, <2>b DEF PushWrite
  <2>3. CASE PushPublish
    <3>1. (tail - head) % Wrap < N /\ (popping = "advance" => (tail - head) % Wrap > 0)
      BY <2>3 DEF PushPublish, Occupancy, Used
    <3>2. alive /\ value \in Values /\ slots[tail % N] = value
      BY <2>3 DEF PushPublish, Calling
    <3>3. Contents' = Append(Contents, value)
      BY <3>1, <3>2, <2>0, <2>3, <2>a, <2>b, EntriesPush DEF PushPublish
    <3>4. Len(Contents) < N
      BY <3>1, <3>2, <2>0, <2>a, EntriesSequence
    <3> QED
      BY <3>2, <3>3, <3>4 DEF Queue!Next, Queue!Push
  <2>4. CASE PopCheck
    BY <2>4, <2>a, <2>b DEF PopCheck, Entries
  <2>5. CASE PopRead
    <3>1. (tail - head) % Wrap <= N
      BY DEF Occupancy, Used
    <3>2. Entries(head, tail, [slots EXCEPT ![head % N] = Uninit], "advance", slots[head % N])
            = Entries(head, tail, slots, "read", taken)
      BY <3>1, <2>0, EntriesRead, Zenon
    <3> QED
      BY <3>2, <2>5, <2>a, <2>b DEF PopRead
  <2>6. CASE PopAdvance
    <3>1. (tail - head) % Wrap > 0 /\ (tail - head) % Wrap <= N /\ alive
      BY <2>6 DEF PopAdvance, Occupancy, Calling, Used
    <3>2. Contents # << >> /\ Contents' = Tail(Contents)
      BY <3>1, <2>0, <2>6, <2>a, <2>b, EntriesPop DEF PopAdvance
    <3> QED
      BY <3>2 DEF Queue!Next, Queue!Pop
  <2>7. CASE Drop
    BY <2>7, <2>b DEF Drop, Queue!Next, Queue!Discard
  <2>8. CASE UNCHANGED vars
    BY <2>8, <2>a, <2>b DEF vars
  <2> QED
    BY <2>1, <2>2, <2>3, <2>4, <2>5, <2>6, <2>7, <2>8 DEF Next
<1> QED
  BY <1>1, <1>2, TypeCorrect, OccupancyHolds, CallingHolds, PTL DEF Spec, ImplementsFifo, Queue!Spec
=============================================================================
