------------------------------ MODULE BlockRing ------------------------------
(***************************************************************************)
(* The block ring under a mounted volume: the volume's buffer slots and    *)
(* scratch buffer (storage/fs volume.rs), the client end that parks        *)
(* answers, the driver that keeps a device's queue full and holds a flush  *)
(* back until the device is empty (storage/block ring.rs), and a device    *)
(* that answers in any order and may refuse.                               *)
(*                                                                         *)
(* One thread alternates between polling the volume and pumping the        *)
(* driver (`task::drive`), so `turn` says who runs.  A block's contents    *)
(* are one bit that every write flips: a slot that missed a write differs. *)
(***************************************************************************)
EXTENDS Integers, Sequences, FiniteSets

CONSTANTS
    Blocks,     \* blocks of the device
    Written,    \* the blocks the volume writes
    SLOTS,      \* buffers the volume may hold
    DEPTH,      \* requests the ring takes
    QueueDepth, \* requests the device takes
    None

ASSUME Geometry ==
    /\ {SLOTS, DEPTH, QueueDepth} \subseteq Nat \ {0}
    /\ SLOTS + 1 <= DEPTH
    /\ Written \subseteq Blocks
    /\ None \notin Blocks

\* What the queues carry, and what an Option holds.
Opt(S) == S \cup {None}
Requests == [id: 0..DEPTH, kind: {"read", "write", "flush"}, block: Opt(Blocks)]
Answers == [id: 0..DEPTH, ok: BOOLEAN, value: BOOLEAN]

\* None is none of the things it stands for the absence of.
ASSUME Nothing == None \notin 0..DEPTH /\ None \notin Requests /\ None \notin Answers

ToSet(s) == {s[i]: i \in DOMAIN s}

VARIABLES
    disk,       \* the contents of each block
    slots,      \* Volume::slots
    hand,       \* Volume::hand, counted from 1
    sq, cq,     \* the submission and completion queues
    parked,     \* BlockClient::parked
    driver,     \* BlockDriver: pending, held, outstanding, barrier
    device,     \* requests started and not yet reaped
    call,       \* the volume operation in progress, and where it is
    turn,       \* who runs: "client", "drain" or "feed"
    moved       \* whether this round of `pump` moved anything

vars == <<disk, slots, hand, sq, cq, parked, driver, device, call, turn, moved>>

Here(b, v) == [at |-> "here", block |-> b, value |-> v, id |-> None]
Flight(b, id) == [at |-> "flight", block |-> b, value |-> FALSE, id |-> id]
Lent == [at |-> "lent", block |-> None, value |-> FALSE, id |-> None]

Idle == [op |-> "none", pc |-> "idle", block |-> None, slot |-> 0, id |-> None]

Init ==
    /\ disk = [b \in Blocks |-> FALSE]
    /\ slots = <<>>
    /\ hand = 1
    /\ sq = <<>> /\ cq = <<>> /\ parked = {}
    /\ driver = [pending |-> None, held |-> None, outstanding |-> 0, barrier |-> FALSE]
    /\ device = {}
    /\ call = Idle
    /\ turn = "client"
    /\ moved = FALSE

-----------------------------------------------------------------------------
(* The client end of the ring. *)

\* task::defer: the driver gets its turn.
Defer ==
    /\ turn' = "drain"
    /\ moved' = FALSE

\* What the volume is waiting for.
Awaited ==
    {slots[i].id: i \in {j \in DOMAIN slots: slots[j].at = "flight"}}
    \cup (IF call.pc = "settle" THEN {call.id} ELSE {})

Least(S) == CHOOSE i \in S: \A j \in S: i <= j

\* BlockClient::next is a 64-bit counter that no run exhausts: an id names one
\* request among those awaited, and the least free number does as well.
NextId == Least((0..DEPTH) \ Awaited)

\* BlockClient::submit, when the ring has room.
Room == Len(sq) < DEPTH
Submit(kind, b) == sq' = Append(sq, [id |-> NextId, kind |-> kind, block |-> b])

\* BlockClient::take: the parked answer, or the ring's, parking those before.
Landed(id) == {c \in parked \cup ToSet(cq): c.id = id}
Answer(id) == CHOOSE c \in Landed(id): TRUE

Passed(id) ==
    IF \E c \in parked: c.id = id THEN 0
    ELSE IF \E i \in DOMAIN cq: cq[i].id = id
         THEN (CHOOSE i \in DOMAIN cq: cq[i].id = id)
         ELSE Len(cq)

TakeDropping(id) ==
    /\ parked' = {c \in parked: c.id # id}
    /\ cq' = SubSeq(cq, Passed(id) + 1, Len(cq))

Take(id) ==
    /\ parked' = {c \in parked \cup ToSet(SubSeq(cq, 1, Passed(id))): c.id # id}
    /\ cq' = SubSeq(cq, Passed(id) + 1, Len(cq))

-----------------------------------------------------------------------------
(* The volume. *)

\* Volume::find: the slot holding or fetching b.
Holds(s, b) == s.at \in {"here", "flight"} /\ s.block = b
Found(b) == {i \in DOMAIN slots: Holds(slots[i], b)}

\* Volume::free: an empty slot, a new one if the heap has a buffer (`grow`), or
\* the next resident one the hand meets; 0 when every buffer is at the device.
Empty == {i \in DOMAIN slots: slots[i].at = "here" /\ slots[i].block = None}
Around(k) == ((hand - 1 + k) % Len(slots)) + 1
Turns == {k \in 0..Len(slots) - 1: slots[Around(k)].at = "here"}

Grows(memory) == Empty = {} /\ Len(slots) < SLOTS /\ memory
Free(memory) ==
    IF Empty # {} THEN Least(Empty)
    ELSE IF Grows(memory) THEN Len(slots) + 1
    ELSE IF Turns # {} THEN Around(Least(Turns))
    ELSE 0

\* What looking for a free slot leaves behind: the new slot, the moved hand.
Sweep(memory) ==
    /\ slots' = IF Grows(memory) THEN Append(slots, Here(None, FALSE)) ELSE slots
    /\ hand' = IF Empty # {} \/ Grows(memory) \/ Turns = {} THEN hand
               ELSE Around(Least(Turns) + 1)

ring == <<sq, cq, parked>>
below == <<disk, driver, device>>

\* block, prefetch, raw, the writes, flush, and the sweep a commit or a
\* remount makes of every slot.
Call(op, b) ==
    /\ turn = "client" /\ call = Idle
    /\ call' = [op |-> op, block |-> b, id |-> None,
                slot |-> IF op = "block" /\ Found(b) # {} THEN Least(Found(b)) ELSE 1,
                pc |-> CASE op = "block" -> IF Found(b) # {} THEN "land" ELSE "spare"
                         [] op = "prefetch" -> "spare"
                         [] op \in {"write", "commit"} -> "stale"
                         [] op \in {"raw", "flush"} -> "submit"]
    /\ (op = "prefetch") => Found(b) = {}
    /\ UNCHANGED <<slots, hand, ring, below, turn, moved>>

\* spare, and prefetch's free: prefetch gives up where spare waits for the
\* read the hand points at, or fails for want of a first buffer.
Spare(memory) ==
    /\ turn = "client" /\ call.pc = "spare"
    /\ Sweep(memory)
    /\ call' = IF Free(memory) # 0
               THEN [call EXCEPT !.pc = "start", !.slot = Free(memory)]
               ELSE IF call.op = "prefetch" \/ slots = <<>> THEN Idle
               ELSE [call EXCEPT !.pc = "landspare", !.slot = hand]
    /\ UNCHANGED <<ring, below, turn, moved>>

\* start: the buffer is lent while a full ring is waited for.
Start ==
    /\ turn = "client" /\ call.pc = "start"
    /\ IF Room
       THEN /\ Submit("read", call.block)
            /\ slots' = [slots EXCEPT ![call.slot] = Flight(call.block, NextId)]
            /\ call' = IF call.op = "prefetch" THEN Idle ELSE [call EXCEPT !.pc = "land"]
            /\ UNCHANGED <<turn, moved>>
       ELSE /\ slots' = [slots EXCEPT ![call.slot] = Lent]
            /\ Defer
            /\ UNCHANGED <<sq, call>>
    /\ UNCHANGED <<hand, cq, parked, below>>

\* land: a refused read leaves the slot holding nothing.
LandedSlot(s) ==
    LET c == Answer(s.id) IN Here(IF c.ok THEN s.block ELSE None, c.value)

\* What follows a landing, for each caller of land.
After(pc) ==
    call' = CASE pc = "land" -> Idle
              [] pc = "landspare" -> [call EXCEPT !.pc = "start"]
              [] pc = "landstale" -> [call EXCEPT !.pc = "stale", !.slot = @ + 1]

Landing(s) == IF call.pc = "landstale" THEN Here(None, FALSE) ELSE s

Land ==
    LET s == slots[call.slot] IN
    /\ turn = "client" /\ call.pc \in {"land", "landspare", "landstale"}
    /\ IF s.at # "flight"
       THEN /\ slots' = [slots EXCEPT ![call.slot] = Landing(s)]
            /\ After(call.pc)
            /\ UNCHANGED <<cq, parked, turn, moved>>
       ELSE /\ Take(s.id)
            /\ IF Landed(s.id) # {}
               THEN /\ slots' = [slots EXCEPT ![call.slot] = Landing(LandedSlot(s))]
                    /\ After(call.pc)
                    /\ UNCHANGED <<turn, moved>>
               ELSE Defer /\ UNCHANGED <<slots, call>>
    /\ UNCHANGED <<hand, sq, below>>

\* stale, one slot: only what the write covers is landed and dropped.
CoversLanded(s) == s.at = "here" /\ (call.op = "commit" \/ s.block = call.block)

Covers(s) ==
    /\ s.at = "flight" \/ (s.at = "here" /\ s.block # None)
    /\ call.op = "commit" \/ s.block = call.block

Stale ==
    /\ turn = "client" /\ call.pc = "stale"
    /\ call' = IF call.slot > Len(slots)
               THEN IF call.op = "commit" THEN Idle ELSE [call EXCEPT !.pc = "submit"]
               ELSE IF Covers(slots[call.slot]) THEN [call EXCEPT !.pc = "landstale"]
               ELSE [call EXCEPT !.slot = @ + 1]
    /\ UNCHANGED <<slots, hand, ring, below, turn, moved>>

\* once, on the scratch buffer: submit, letting a full ring drain, then settle.
Once ==
    /\ turn = "client" /\ call.pc = "submit"
    /\ IF Room
       THEN /\ Submit(IF call.op = "raw" THEN "read" ELSE call.op, call.block)
            /\ call' = [call EXCEPT !.pc = "settle", !.id = NextId]
            /\ UNCHANGED <<turn, moved>>
       ELSE Defer /\ UNCHANGED <<sq, call>>
    /\ UNCHANGED <<slots, hand, cq, parked, below>>

Settle ==
    /\ turn = "client" /\ call.pc = "settle"
    /\ Take(call.id)
    /\ IF Landed(call.id) # {}
       THEN call' = Idle /\ UNCHANGED <<turn, moved>>
       ELSE Defer /\ UNCHANGED call
    /\ UNCHANGED <<slots, hand, sq, below>>

-----------------------------------------------------------------------------
(* The driver's pump: drain and feed until neither moves anything. *)

volume == <<slots, hand, call>>

\* drain: the answer in hand goes to the client, or the round waits for room.
Deliver ==
    /\ turn = "drain" /\ driver.pending # None
    /\ IF Len(cq) < DEPTH
       THEN /\ cq' = Append(cq, driver.pending)
            /\ driver' = [driver EXCEPT !.pending = None]
            /\ moved' = TRUE
            /\ UNCHANGED turn
       ELSE turn' = "feed" /\ UNCHANGED <<cq, driver, moved>>
    /\ UNCHANGED <<disk, sq, parked, device, volume>>

ReapedKeepsBarrier(d, c) ==
    [d EXCEPT !.pending = c, !.outstanding = @ - 1]

\* The last answer off the device ends a flush's barrier.
Reaped(d, c) ==
    [d EXCEPT !.pending = c,
              !.outstanding = @ - 1,
              !.barrier = @ /\ d.outstanding # 1]

\* queue.reap(): the device finished r, in whatever order it likes, or
\* refused it.  A refused write may have reached the disk.
Reap(r, ok, wrote) ==
    /\ turn = "drain" /\ driver.pending = None
    /\ r \in device
    /\ IF r.kind = "write" THEN ok => wrote ELSE ~wrote
    /\ disk' = [b \in Blocks |-> IF wrote /\ b = r.block THEN ~disk[b] ELSE disk[b]]
    /\ device' = device \ {r}
    /\ driver' = Reaped(driver, [id |-> r.id, ok |-> ok,
                                 value |-> r.kind = "read" /\ ok /\ disk[r.block]])
    /\ UNCHANGED <<sq, cq, parked, volume, turn, moved>>

\* queue.reap() answered None.
Drained ==
    /\ turn = "drain" /\ driver.pending = None
    /\ turn' = "feed"
    /\ UNCHANGED <<disk, sq, cq, parked, driver, device, volume, moved>>

\* feed: the request held back, or the next on the ring.
Candidate == IF driver.held # None THEN driver.held ELSE Head(sq)
Rest == IF driver.held # None THEN sq ELSE Tail(sq)

Feeding ==
    /\ ~driver.barrier
    /\ driver.outstanding < QueueDepth
    /\ driver.held # None \/ sq # <<>>

\* A flush starts on a device with nothing else on it.
Waits(r) == r.kind = "flush" /\ driver.outstanding > 0

Fed(d, r) ==
    [d EXCEPT !.held = None, !.outstanding = @ + 1, !.barrier = (r.kind = "flush")]

FeedStart ==
    /\ turn = "feed" /\ Feeding /\ ~Waits(Candidate)
    /\ device' = device \cup {Candidate}
    /\ driver' = Fed(driver, Candidate)
    /\ sq' = Rest
    /\ moved' = TRUE
    /\ UNCHANGED <<disk, cq, parked, volume, turn>>

\* feed returns; pump goes round again if either half moved something.
Return ==
    /\ turn' = IF moved THEN "drain" ELSE "client"
    /\ moved' = FALSE
    /\ UNCHANGED <<disk, cq, parked, device, volume>>

\* The request is a flush that has to wait, or the device refused it.
FeedHold ==
    /\ turn = "feed" /\ Feeding
    /\ driver' = [driver EXCEPT !.held = Candidate]
    /\ sq' = Rest
    /\ Return

FeedStop ==
    /\ turn = "feed" /\ ~Feeding
    /\ Return
    /\ UNCHANGED <<driver, sq>>

-----------------------------------------------------------------------------
VolumeStep == (\E memory \in BOOLEAN: Spare(memory)) \/ Start \/ Land \/ Stale \/ Once \/ Settle

Next ==
    \/ \E op \in {"block", "prefetch", "raw"}, b \in Blocks: Call(op, b)
    \/ \E b \in Written: Call("write", b)
    \/ \E op \in {"flush", "commit"}: Call(op, None)
    \/ VolumeStep
    \/ Deliver
    \/ \E r \in device, ok, wrote \in BOOLEAN: Reap(r, ok, wrote)
    \/ Drained \/ FeedStart \/ FeedHold \/ FeedStop

\* A thread inside `drive` keeps running; a device that holds a request
\* finishes it sooner or later, and one asked again and again takes it.
Fairness ==
    /\ WF_vars(VolumeStep \/ Deliver \/ Drained \/ FeedStart \/ FeedHold \/ FeedStop)
    /\ SF_vars(\E r \in device, ok, wrote \in BOOLEAN: Reap(r, ok, wrote))
    /\ SF_vars(FeedStart)

Spec == Init /\ [][Next]_vars /\ Fairness

-----------------------------------------------------------------------------
(* Properties. *)

\* The ring, the driver and the device stay within their depths, and the
\* driver's count is the number of requests the device holds.
TypeOK ==
    /\ disk \in [Blocks -> BOOLEAN]
    /\ Len(slots) <= SLOTS /\ hand \in 1..SLOTS
    /\ sq \in Seq(Requests) /\ Len(sq) <= DEPTH
    /\ cq \in Seq(Answers) /\ Len(cq) <= DEPTH
    /\ driver.pending \in Opt(Answers) /\ driver.held \in Opt(Requests)
    /\ driver.outstanding = Cardinality(device)
    /\ device \subseteq Requests /\ Cardinality(device) <= QueueDepth
    /\ call.slot \in 0..SLOTS + 1
    /\ turn \in {"client", "drain", "feed"} /\ moved \in BOOLEAN

\* A slot that says it holds a block holds what the device would answer now:
\* no write overtakes a prefetch still at the device, and no slot outlives
\* the write that changed its block.
CacheFresh ==
    \A i \in DOMAIN slots:
        slots[i].at = "here" /\ slots[i].block # None
            => slots[i].value = disk[slots[i].block]

\* The ids of requests somewhere between submit and take.
Travelling ==
    [place \in {"sq", "held", "device", "pending", "cq", "parked"} |->
        CASE place = "sq" -> {r.id: r \in ToSet(sq)}
          [] place = "held" -> {r.id: r \in {driver.held} \ {None}}
          [] place = "device" -> {r.id: r \in device}
          [] place = "pending" -> {c.id: c \in {driver.pending} \ {None}}
          [] place = "cq" -> {c.id: c \in ToSet(cq)}
          [] place = "parked" -> {c.id: c \in parked}]

\* Every request the volume waits for is in exactly one place between submit
\* and take, nothing else is, and the answers set aside never outgrow the
\* array `take` expects room in.
NoAnswerLost ==
    /\ UNION {Travelling[p]: p \in DOMAIN Travelling} = Awaited
    /\ \A p, q \in DOMAIN Travelling: p # q => Travelling[p] \cap Travelling[q] = {}
    /\ Cardinality(parked) < DEPTH

\* A flush is the boundary a journal commits across: it runs on a device with
\* nothing else on it, and no request submitted after it starts before it
\* answers.
FlushAlone ==
    \A r \in device: r.kind = "flush" => device = {r} /\ driver.barrier

\* The ring keeps every request and their order: within its depths, in exactly
\* one place each, and a flush alone on the device (ring.rs, client and driver).
RequestsInOrder == TypeOK /\ NoAnswerLost /\ FlushAlone

\* Every operation of the volume ends, however full the ring is and whatever
\* order the device answers in.
OperationEnds == (call # Idle) ~> (call = Idle)

=============================================================================
