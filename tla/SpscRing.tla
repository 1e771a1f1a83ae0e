------------------------------ MODULE SpscRing ------------------------------
(***************************************************************************)
(* The bounded single-producer/single-consumer ring of molt-core           *)
(* (crates/sys/core/src/ring.rs).                                          *)
(*                                                                         *)
(* The producer and the consumer run on different cores.  A step is one    *)
(* access to memory the other endpoint also touches: the load of the other *)
(* side's index, the access to the slot, the store of one's own index.     *)
(* Indices are wrapping counters of Wrap values (2^64 in the build).       *)
(***************************************************************************)
EXTENDS Integers, Sequences, FiniteSets

CONSTANTS N,        \* slots of the ring
          Wrap,     \* values of an index before it wraps
          Values,   \* what is queued
          Uninit    \* the content of a slot nobody initialised, or already moved out of

ASSUME RingSize == N \in Nat \ {0}
ASSUME WrapAssumption == Wrap \in Nat /\ Wrap > N /\ Wrap % N = 0
ASSUME UninitIsNoValue == Uninit \notin Values

VARIABLES
  head,      \* consumer index
  tail,      \* producer index
  slots,     \* slot -> content
  pushing,   \* producer: "idle", "write" (room seen), "publish" (slot written)
  value,     \* the value the producer is pushing
  popping,   \* consumer: "idle", "read" (an entry seen), "advance" (slot read)
  taken,     \* the value the consumer moved out
  alive      \* FALSE once the ring was dropped

vars == <<head, tail, slots, pushing, value, popping, taken, alive>>

Slot == 0 .. N - 1
Index == 0 .. Wrap - 1

\* Entries between the two indices, with the subtraction wrapping.
Used == (tail - head) % Wrap

\* Mistakes a ring could make; each stands in for the definition after it.
HasRoomOffByOne == Used # N + 1
HasRoomUnchecked == TRUE
CanPopUnchecked == TRUE

HasRoom == Used # N
CanPop == head # tail
Advance(i) == (i + 1) % Wrap

Init ==
  /\ head = 0 /\ tail = 0
  /\ slots = [s \in Slot |-> Uninit]
  /\ pushing = "idle" /\ value = Uninit
  /\ popping = "idle" /\ taken = Uninit
  /\ alive = TRUE

-----------------------------------------------------------------------------
(* try_push: a full ring gives the value back, which changes nothing.      *)

PushCheck(v) ==
  /\ alive /\ pushing = "idle"
  /\ HasRoom
  /\ pushing' = "write" /\ value' = v
  /\ UNCHANGED <<head, tail, slots, popping, taken, alive>>

PushWrite ==
  /\ pushing = "write"
  /\ slots' = [slots EXCEPT ![tail % N] = value]
  /\ pushing' = "publish"
  /\ UNCHANGED <<head, tail, value, popping, taken, alive>>

PushPublish ==
  /\ pushing = "publish"
  /\ tail' = Advance(tail)
  /\ pushing' = "idle" /\ value' = Uninit
  /\ UNCHANGED <<head, slots, popping, taken, alive>>

-----------------------------------------------------------------------------
(* try_pop: an empty ring answers None, which changes nothing.             *)

PopCheck ==
  /\ alive /\ popping = "idle"
  /\ CanPop
  /\ popping' = "read"
  /\ UNCHANGED <<head, tail, slots, pushing, value, taken, alive>>

PopRead ==
  /\ popping = "read"
  /\ taken' = slots[head % N]
  /\ slots' = [slots EXCEPT ![head % N] = Uninit]
  /\ popping' = "advance"
  /\ UNCHANGED <<head, tail, pushing, value, alive>>

PopAdvance ==
  /\ popping = "advance"
  /\ head' = Advance(head)
  /\ popping' = "idle" /\ taken' = Uninit
  /\ UNCHANGED <<tail, slots, pushing, value, alive>>

-----------------------------------------------------------------------------
\* Slots whose entry the destructor drops: every position from head to tail.
Held == {((head + i) % Wrap) % N : i \in 0 .. Used - 1}

\* Drop needs exclusive access, so neither endpoint is in the middle of a call.
Drop ==
  /\ alive /\ pushing = "idle" /\ popping = "idle"
  /\ slots' = [s \in Slot |-> IF s \in Held THEN Uninit ELSE slots[s]]
  /\ alive' = FALSE
  /\ UNCHANGED <<head, tail, pushing, value, popping, taken>>

Next ==
  \/ \E v \in Values : PushCheck(v)
  \/ PushWrite \/ PushPublish
  \/ PopCheck \/ PopRead \/ PopAdvance
  \/ Drop

Spec == Init /\ [][Next]_vars

-----------------------------------------------------------------------------
(* Properties.                                                             *)

\* The state keeps its shape; the indices stay inside the counter's width.
TypeOK ==
  /\ head \in Index /\ tail \in Index
  /\ slots \in [Slot -> Values \cup {Uninit}]
  /\ pushing \in {"idle", "write", "publish"}
  /\ value \in Values \cup {Uninit}
  /\ popping \in {"idle", "read", "advance"}
  /\ taken \in Values \cup {Uninit}
  /\ alive \in BOOLEAN

\* Slots that hold an initialised value: the published ones but for the one
\* the consumer has moved out of, and the one the producer has just written.
Initialised ==
  (Held \ (IF popping = "advance" THEN {head % N} ELSE {}))
    \cup (IF pushing = "publish" THEN {tail % N} ELSE {})

\* The SAFETY comments of ring.rs:92 and ring.rs:111: a slot is read or
\* dropped exactly once after it was written, so no pop returns an
\* uninitialised value and no value is overwritten, lost or dropped twice.
EntriesInitialised ==
  /\ Used <= N
  /\ alive => \A s \in Slot : (slots[s] # Uninit) <=> (s \in Initialised)
  /\ ~alive => \A s \in Slot : slots[s] = Uninit

\* The SAFETY comment of ring.rs:76: the two endpoints never access one slot
\* at the same time, although neither takes a lock.
NoSlotRace ==
  ~ (pushing = "write" /\ popping = "read" /\ tail % N = head % N)

\* What the ring holds, oldest first.  Publishing the tail is where a push
\* takes effect and publishing the head is where a pop does.
Contents ==
  IF ~alive THEN << >>
  ELSE [i \in 1 .. Used |->
          IF i = 1 /\ popping = "advance" THEN taken
          ELSE slots[((head + i - 1) % Wrap) % N]]

Queue == INSTANCE BoundedFifo WITH Capacity <- N, queue <- Contents

\* The ring is a bounded FIFO whatever the interleaving of the endpoints'
\* loads and stores (try_push, try_pop and Drop implement BoundedFifo).
ImplementsFifo == Queue!Spec
=============================================================================
