---------------------------- MODULE ExecutorProofs ----------------------------
(***************************************************************************)
(* One core's executor, for every number of tasks, threads and levels, any *)
(* slices and any capacity: no wake-up is slept through; a task is queued  *)
(* at most once, by whoever won its word, and only while it has a future;  *)
(* the queues, the words and the table describe one set of tasks.          *)
(***************************************************************************)
EXTENDS Executor, Facts, FiniteSetTheorems

OwnerPcs == {"root", "rootpoll", "tick", "collect", "take", "poll", "pending", "finish",
             "rung", "inboxes", "park", "halt", "wfi"}
ThreadPcs == {"idle", "mark", "push", "ring", "ipi"}

Polling == owner.pc \in {"poll", "pending", "finish"}

\* The types of the queues, the actors and what they hold.
Typed ==
  /\ state \in [Tasks -> SUBSET BITS]
  /\ future \in [Tasks -> {"unborn", "some", "dropped"}]
  /\ inbox \in [Levels -> Seq(Tasks)] /\ ready \in [Levels -> Seq(Tasks)]
  /\ level \in Levels
  /\ owner \in [pc : OwnerPcs, cur : Futures, ran : BOOLEAN, at : Levels]
  /\ thread \in [Threads -> [pc : ThreadPcs, task : Futures]]
  /\ rung \in BOOLEAN /\ doorbell \in BOOLEAN /\ irq \in BOOLEAN
  /\ handed \subseteq Futures
  /\ event \in [Futures -> BOOLEAN]
  /\ \A x \in Threads : At(x, "push") => thread[x].task \in Tasks
  /\ Polling => owner.cur \in Tasks

\* Somebody is about to ring the doorbell; somebody is about to interrupt.
Ringing == \E x \in Threads : At(x, "ring")
Calling == \E x \in Threads : At(x, "ipi")
Work == \E l \in Levels : inbox[l] # <<>>

\* What the owner may count on at each place on its way to the halt: a wake it
\* did not see when it looked has a ringer coming, or has rung already.
Watch ==
  /\ owner.pc \in {"rung", "inboxes", "park", "halt"} => \A l \in Levels : ready[l] = <<>>
  /\ owner.pc \in {"inboxes", "park"} /\ rung => doorbell \/ Ringing
  /\ owner.pc = "park" /\ Work => doorbell \/ Ringing
  /\ owner.pc = "halt" /\ doorbell => irq \/ Calling
  /\ owner.pc = "halt" /\ (rung \/ Work) => irq \/ Calling \/ Ringing

\* The two halves of Next: a step of the owning core or of an interrupt there,
\* and a step of a thread elsewhere.
OwnerTurn == OwnerStep \/ Interrupt \/ TimerInterrupt

ThreadTurn(x) ==
  \/ \E t \in Tasks : Spawn(x, t)
  \/ \E f \in Wakes[x] : Post(x, f)
  \/ Continue(x)

-----------------------------------------------------------------------------
(* Local::take. *)

\* Every level is one of those the loop of `take` passes in its first round.
LEMMA Passes ==
  ASSUME NEW n \in Nat \ {0}, NEW c \in 0 .. n - 1, NEW l \in 0 .. n - 1
  PROVE  \E k \in 1 .. n : (c + k) % n = l
<1>1. l % n = l /\ (l + n) % n = l
  OBVIOUS
<1>2. CASE l > c
  <2>1. l - c \in 1 .. n /\ c + (l - c) = l
    BY <1>2
  <2> QED
    BY <1>1, <2>1
<1>3. CASE l <= c
  <2>1. l + n - c \in 1 .. n /\ c + (l + n - c) = l + n
    BY <1>3
  <2> QED
    BY <1>1, <2>1
<1> QED
  BY <1>2, <1>3

\* `take` finds nothing only when every ready queue is empty.
LEMMA NothingReady ==
  ASSUME Typed, Turns = {}
  PROVE  \A l \in Levels : ready[l] = <<>>
<1> SUFFICES ASSUME NEW l \in Levels PROVE ready[l] = <<>>
  OBVIOUS
<1>1. LEVELS \in Nat \ {0}
  BY Sized DEF LEVELS
<1>2. level \in 0 .. LEVELS - 1 /\ l \in 0 .. LEVELS - 1
  BY DEF Typed, Levels
<1>3. PICK k \in 1 .. LEVELS : (level + k) % LEVELS = l
  BY <1>1, <1>2, Passes, Zenon
<1>4. k \in 0 .. Rounds - 1 /\ k # 0
  BY <1>1 DEF Rounds
<1>5. LevelAt(k) = l
  BY <1>3 DEF LevelAt
<1>6. SLICE[l + 1] > 0
  <2>1. l + 1 \in 1 .. Len(SLICE)
    BY <1>2, <1>1 DEF LEVELS
  <2> QED
    BY <2>1, Sized
<1>7. CreditAt(k) > 0
  BY <1>4, <1>5, <1>6 DEF CreditAt
<1> QED
  BY <1>4, <1>5, <1>7 DEF Turns

-----------------------------------------------------------------------------
(* Types. *)

\* A thread that moves on keeps its task until it is idle, and no other moves.
LEMMA Stepped ==
  ASSUME Typed, NEW x \in Threads, NEW p \in ThreadPcs, Step(x, p)
  PROVE  /\ thread' \in [Threads -> [pc : ThreadPcs, task : Futures]]
         /\ thread'[x].pc = p
         /\ thread'[x].task = IF p = "idle" THEN Root ELSE thread[x].task
         /\ \A y \in Threads : y # x => thread'[y] = thread[y]
<1> DEFINE new == [pc |-> p, task |-> IF p = "idle" THEN Root ELSE thread[x].task]
<1>1. new \in [pc : ThreadPcs, task : Futures]
  BY DEF Typed, Futures
<1>2. thread' = [thread EXCEPT ![x] = new]
  BY DEF Step
<1>3. new.pc = p /\ new.task = IF p = "idle" THEN Root ELSE thread[x].task
  OBVIOUS
<1> HIDE DEF new
<1> QED
  BY <1>1, <1>2, <1>3 DEF Typed

\* A thread that starts an operation takes up its task, and no other moves.
LEMMA Sent ==
  ASSUME Typed, NEW x \in Threads, NEW p \in ThreadPcs, NEW f \in Futures,
         thread' = [thread EXCEPT ![x] = [pc |-> p, task |-> f]]
  PROVE  /\ thread' \in [Threads -> [pc : ThreadPcs, task : Futures]]
         /\ thread'[x].pc = p
         /\ thread'[x].task = f
         /\ \A y \in Threads : y # x => thread'[y] = thread[y]
<1> DEFINE new == [pc |-> p, task |-> f]
<1>1. new \in [pc : ThreadPcs, task : Futures] /\ new.pc = p /\ new.task = f
  OBVIOUS
<1>2. thread' = [thread EXCEPT ![x] = new]
  OBVIOUS
<1> HIDE DEF new
<1> QED
  BY <1>1, <1>2 DEF Typed

\* A task enters the inbox of its own level, at the end.
LEMMA Pushed ==
  ASSUME Typed, NEW t \in Tasks, Push(t)
  PROVE  /\ inbox' \in [Levels -> Seq(Tasks)]
         /\ inbox'[Priority[t]] = Append(inbox[Priority[t]], t)
         /\ \A l \in Levels : l # Priority[t] => inbox'[l] = inbox[l]
<1>1. Priority[t] \in Levels
  BY Sized
<1>2. inbox' = [inbox EXCEPT ![Priority[t]] = Append(inbox[Priority[t]], t)]
  BY DEF Push
<1>3. inbox \in [Levels -> Seq(Tasks)]
  BY DEF Typed
<1> QED
  BY <1>1, <1>2, <1>3

\* The transitions of a task word give a task word.
LEMMA Worded ==
  ASSUME NEW s \in SUBSET BITS
  PROVE  /\ Scheduled(s) \in SUBSET BITS
         /\ Unpolled(s) \in SUBSET BITS
  BY DEF Scheduled, Unpolled, BITS

\* The levels the loop of `take` passes are levels.
LEMMA Passing ==
  ASSUME Typed, NEW k \in Nat
  PROVE  LevelAt(k) \in Levels
<1>1. LEVELS \in Nat \ {0} /\ level + k \in Nat
  BY Sized DEF LEVELS, Typed, Levels
<1> QED
  BY <1>1 DEF LevelAt, Levels

\* The first round that finds something is one that does.
LEMMA Serves ==
  ASSUME Typed, Turns # {}
  PROVE  /\ Serving \in Turns
         /\ LevelAt(Serving) \in Levels
         /\ ready[LevelAt(Serving)] \in Seq(Tasks) \ {<<>>}
<1>1. Turns \in SUBSET Nat
  BY DEF Turns
<1>2. \E k \in Turns : \A j \in Turns : k <= j
  BY <1>1, LeastElement
<1>3. Serving \in Turns
  BY <1>2 DEF Serving
<1>4. Serving \in Nat
  BY <1>1, <1>3
<1>5. LevelAt(Serving) \in Levels
  BY <1>4, Passing
<1>6. ready[LevelAt(Serving)] # <<>>
  BY <1>3 DEF Turns
<1>7. ready[LevelAt(Serving)] \in Seq(Tasks)
  BY <1>5 DEF Typed
<1> QED
  BY <1>3, <1>5, <1>6, <1>7

\* The steps of the other cores keep the types.
LEMMA ThreadsTyped ==
  ASSUME Typed, NEW x \in Threads, ThreadTurn(x)
  PROVE  Typed'
<1> USE DEF local, queues, At
<1>1. ASSUME NEW t \in Tasks, Spawn(x, t) PROVE Typed'
  <2>1. t \in Futures /\ "push" \in ThreadPcs
    BY DEF Futures, ThreadPcs
  <2>2. /\ thread' \in [Threads -> [pc : ThreadPcs, task : Futures]]
        /\ thread'[x].pc = "push"
        /\ thread'[x].task = t
        /\ \A y \in Threads : y # x => thread'[y] = thread[y]
    BY <1>1, <2>1, Sent, Zenon DEF Spawn
  <2>3. state' \in [Tasks -> SUBSET BITS]
    BY <1>1, Worded DEF Spawn, Typed
  <2>4. \A y \in Threads : thread'[y].pc = "push" => thread'[y].task \in Tasks
    BY <2>2, Zenon DEF Typed
  <2> QED
    BY <1>1, <2>2, <2>3, <2>4 DEF Spawn, Typed, Polling
<1>2. ASSUME NEW f \in Wakes[x], Post(x, f) PROVE Typed'
  <2>1. f \in Futures /\ "mark" \in ThreadPcs
    BY Sized DEF Futures, ThreadPcs
  <2>2. /\ thread' \in [Threads -> [pc : ThreadPcs, task : Futures]]
        /\ thread'[x].pc = "mark"
        /\ \A y \in Threads : y # x => thread'[y] = thread[y]
    BY <1>2, <2>1, Sent, Zenon DEF Post
  <2>4. \A y \in Threads : thread'[y].pc = "push" => thread'[y].task \in Tasks
    BY <2>2, Zenon DEF Typed
  <2>5. event' \in [Futures -> BOOLEAN]
    BY <1>2 DEF Post, Typed
  <2> QED
    BY <1>2, <2>2, <2>4, <2>5 DEF Post, Typed, Polling
<1>3. CASE Mark(x)
  <2> DEFINE f == thread[x].task
  <2>0. f \in Futures
    BY DEF Typed
  <2>1. CASE f = Root
    <3>1. Step(x, "ring") /\ "ring" \in ThreadPcs
      BY <1>3, <2>1 DEF Mark, ThreadPcs
    <3>2. /\ thread' \in [Threads -> [pc : ThreadPcs, task : Futures]]
          /\ thread'[x].pc = "ring"
          /\ \A y \in Threads : y # x => thread'[y] = thread[y]
      BY <3>1, Stepped
    <3>3. \A y \in Threads : thread'[y].pc = "push" => thread'[y].task \in Tasks
      BY <3>2, Zenon DEF Typed
    <3> QED
      BY <1>3, <2>1, <3>2, <3>3 DEF Mark, Typed, Polling
  <2>2. CASE f # Root
    <3>1. PICK p \in {"push", "idle"} : Step(x, p)
      BY <1>3, <2>2 DEF Mark
    <3>2. p \in ThreadPcs
      BY DEF ThreadPcs
    <3>3. /\ thread' \in [Threads -> [pc : ThreadPcs, task : Futures]]
          /\ thread'[x].pc = p
          /\ thread'[x].task = IF p = "idle" THEN Root ELSE f
          /\ \A y \in Threads : y # x => thread'[y] = thread[y]
      BY <3>1, <3>2, Stepped
    <3>4. f \in Tasks
      BY <2>0, <2>2 DEF Futures
    <3>5. \A y \in Threads : thread'[y].pc = "push" => thread'[y].task \in Tasks
      BY <3>1, <3>3, <3>4, Zenon DEF Typed
    <3>6. state' \in [Tasks -> SUBSET BITS]
      <4>1. state' = [state EXCEPT ![f] = Scheduled(state[f])]
        BY <1>3, <2>2 DEF Mark
      <4>2. Scheduled(state[f]) \in SUBSET BITS
        BY <3>4, Worded, Zenon DEF Typed
      <4> QED
        BY <3>4, <4>1, <4>2 DEF Typed
    <3> QED
      BY <1>3, <2>2, <3>3, <3>5, <3>6 DEF Mark, Typed, Polling
  <2> QED
    BY <2>1, <2>2
<1>4. CASE PushInbox(x)
  <2> DEFINE t == thread[x].task
  <2>1. t \in Tasks /\ Push(t)
    BY <1>4 DEF PushInbox, Typed
  <2>2. inbox' \in [Levels -> Seq(Tasks)]
    BY <2>1, Pushed
  <2>3. PICK p \in {"ring", "idle"} : Step(x, p)
    BY <1>4 DEF PushInbox
  <2>4. p \in ThreadPcs
    BY DEF ThreadPcs
  <2>5. /\ thread' \in [Threads -> [pc : ThreadPcs, task : Futures]]
        /\ thread'[x].pc = p
        /\ \A y \in Threads : y # x => thread'[y] = thread[y]
    BY <2>3, <2>4, Stepped
  <2>6. \A y \in Threads : thread'[y].pc = "push" => thread'[y].task \in Tasks
    BY <2>3, <2>5, Zenon DEF Typed
  <2> QED
    BY <1>4, <2>2, <2>5, <2>6 DEF PushInbox, Typed, Polling
<1>5. CASE Ring(x) \/ Ipi(x)
  <2>3. PICK p \in {"ipi", "idle"} : Step(x, p)
    BY <1>5 DEF Ring, Ipi
  <2>4. p \in ThreadPcs
    BY DEF ThreadPcs
  <2>5. /\ thread' \in [Threads -> [pc : ThreadPcs, task : Futures]]
        /\ thread'[x].pc = p
        /\ \A y \in Threads : y # x => thread'[y] = thread[y]
    BY <2>3, <2>4, Stepped
  <2>6. \A y \in Threads : thread'[y].pc = "push" => thread'[y].task \in Tasks
    BY <2>3, <2>5, Zenon DEF Typed
  <2> QED
    BY <1>5, <2>5, <2>6, Zenon DEF Ring, Ipi, Typed, Polling
<1> QED
  BY <1>1, <1>2, <1>3, <1>4, <1>5 DEF ThreadTurn, Continue

\* What waking t on the owning core does to the queues keeps their types.
LEMMA WakeTyped ==
  ASSUME Typed, NEW t \in Tasks, NEW w \in SUBSET BITS,
         state' = [state EXCEPT ![t] = w],
         QueueHere(t) \/ UNCHANGED <<inbox, doorbell>>
  PROVE  /\ state' \in [Tasks -> SUBSET BITS]
         /\ inbox' \in [Levels -> Seq(Tasks)]
         /\ doorbell' \in BOOLEAN
<1>1. CASE QueueHere(t)
  BY <1>1, Pushed DEF QueueHere, Typed, First
<1>2. CASE UNCHANGED <<inbox, doorbell>>
  BY <1>2 DEF Typed
<1> QED
  BY <1>1, <1>2 DEF Typed

\* The owner's steps keep the types.
LEMMA OwnerTyped ==
  ASSUME Typed, OwnerTurn
  PROVE  Typed'
<1> USE DEF queues, At, Owner, OwnerAt, OwnerPcs
<1>0. owner.pc \in OwnerPcs /\ owner.cur \in Futures /\ owner.at \in Levels
  BY DEF Typed
<1>1. CASE RootAnswered
  BY <1>1, Zenon DEF RootAnswered, Typed, Polling
<1>2. CASE RootPoll
  BY <1>2, Zenon DEF RootPoll, Typed, Polling, Futures
<1>3. CASE TickIdle
  BY <1>3, Zenon DEF TickIdle, Typed, Polling
<1>4. ASSUME NEW t \in Sleepers, TickDue(t) PROVE Typed'
  <2>1. t \in Tasks
    BY Sized
  <2>2. Scheduled(state[t]) \in SUBSET BITS
    BY <2>1, Worded DEF Typed
  <2>3. /\ state' \in [Tasks -> SUBSET BITS]
        /\ inbox' \in [Levels -> Seq(Tasks)]
        /\ doorbell' \in BOOLEAN
    BY <1>4, <2>1, <2>2, WakeTyped, Zenon DEF TickDue, WakeHere
  <2> QED
    BY <1>4, <2>3, Zenon DEF TickDue, WakeHere, Typed, Polling
<1>5. CASE Collect
  <2>1. /\ inbox' = [inbox EXCEPT ![owner.at] = <<>>]
        /\ ready' = [ready EXCEPT ![owner.at] = ready[owner.at] \o inbox[owner.at]]
    BY <1>5 DEF Collect
  <2>2. inbox' \in [Levels -> Seq(Tasks)] /\ ready' \in [Levels -> Seq(Tasks)]
    BY <1>0, <2>1 DEF Typed
  <2>3. state' \in [Tasks -> SUBSET BITS]
    <3>1. PICK A : state' = [t \in Tasks |-> state[t] \cup (IF t \in A THEN {"HELD"} ELSE {})]
      BY <1>5, Zenon DEF Collect
    <3> QED
      BY <3>1 DEF Typed, BITS
  <2>4. /\ owner' \in [pc : OwnerPcs, cur : Futures, ran : BOOLEAN, at : Levels]
        /\ owner'.pc \in {"collect", "take"}
    <3>1. LEVELS \in Nat \ {0}
      BY Sized DEF LEVELS
    <3>2. 0 \in Levels /\ (owner.at + 1 < LEVELS => owner.at + 1 \in Levels)
      BY <1>0, <3>1 DEF Levels
    <3> QED
      BY <1>0, <1>5, <3>2, Zenon DEF Collect, Typed
  <2> QED
    BY <1>5, <2>2, <2>3, <2>4 DEF Collect, Typed, Polling
<1>6. CASE Take
  <2> DEFINE l == LevelAt(Serving)
             t == Head(ready[l])
  <2>1. l \in Levels /\ ready[l] \in Seq(Tasks) \ {<<>>}
    BY <1>6, Serves DEF Take
  <2>2. t \in Tasks /\ Tail(ready[l]) \in Seq(Tasks)
    BY <2>1
  <2>3. /\ ready' = [ready EXCEPT ![l] = Tail(ready[l])]
        /\ state' = [state EXCEPT ![t] = (state[t] \ {"SCHEDULED"}) \cup {"RUNNING"}]
        /\ level' = l
        /\ owner' = [owner EXCEPT !.cur = t, !.ran = TRUE, !.pc = "poll"]
    BY <1>6 DEF Take
  <2>4. UNCHANGED <<future, inbox, live, rung, doorbell, irq, thread, event, handed>>
    BY <1>6 DEF Take
  <2> HIDE DEF l, t
  <2>5. state' \in [Tasks -> SUBSET BITS]
    BY <2>2, <2>3 DEF Typed, BITS
  <2>6. ready' \in [Levels -> Seq(Tasks)]
    BY <2>1, <2>2, <2>3 DEF Typed
  <2>7. /\ owner' \in [pc : OwnerPcs, cur : Futures, ran : BOOLEAN, at : Levels]
        /\ owner'.cur \in Tasks
    BY <2>2, <2>3, Zenon DEF Typed, Futures
  <2> QED
    BY <2>1, <2>3, <2>4, <2>5, <2>6, <2>7 DEF Typed, Polling
<1>7. CASE TakeNone
  <2>1. Rounds \in Nat
    BY Sized DEF Rounds, LEVELS
  <2>2. level' \in Levels
    BY <1>7, <2>1, Passing DEF TakeNone
  <2> QED
    BY <1>7, <2>2, Zenon DEF TakeNone, Typed, Polling
<1>8. ASSUME NEW done \in BOOLEAN, Poll(done) PROVE Typed'
  <2>1. owner.cur \in Tasks
    BY <1>8 DEF Poll, Typed, Polling
  <2> QED
    BY <1>8, <2>1, Zenon DEF Poll, Typed, Polling, Futures
<1>9. ASSUME NEW t \in Tasks, PollWaking(t) PROVE Typed'
  <2>1. owner.cur \in Tasks
    BY <1>9 DEF PollWaking, Typed, Polling
  <2>2. Scheduled(state[t]) \in SUBSET BITS
    BY Worded DEF Typed
  <2>3. /\ state' \in [Tasks -> SUBSET BITS]
        /\ inbox' \in [Levels -> Seq(Tasks)]
        /\ doorbell' \in BOOLEAN
    BY <1>9, <2>2, WakeTyped, Zenon DEF PollWaking
  <2>4. event' \in [Futures -> BOOLEAN]
    BY <1>9, <2>1, Zenon DEF PollWaking, Typed, Futures
  <2> QED
    BY <1>9, <2>1, <2>3, <2>4, Zenon DEF PollWaking, Typed, Polling, Futures
<1>10. CASE Pending
  <2> DEFINE t == owner.cur
  <2>1. t \in Tasks
    BY <1>10 DEF Pending, Typed, Polling
  <2>2. Unpolled(state[t]) \in SUBSET BITS
    BY <2>1, Worded DEF Typed
  <2>3. /\ state' \in [Tasks -> SUBSET BITS]
        /\ inbox' \in [Levels -> Seq(Tasks)]
        /\ doorbell' \in BOOLEAN
    BY <1>10, <2>1, <2>2, WakeTyped, Zenon DEF Pending
  <2> QED
    BY <1>10, <2>3, Zenon DEF Pending, Typed, Polling, Futures
<1>11. CASE Finish
  <2>1. owner.cur \in Tasks
    BY <1>11 DEF Finish, Typed, Polling
  <2>2. state' \in [Tasks -> SUBSET BITS]
    BY <1>11, <2>1 DEF Finish, Typed, BITS
  <2> QED
    BY <1>11, <2>2, Zenon DEF Finish, Typed, Polling, Futures
<1>12. CASE CheckRung \/ CheckPending \/ Park
  BY <1>12, ZenonT(40) DEF CheckRung, CheckPending, Park, Typed, Polling
<1>13. CASE Interrupt \/ TimerInterrupt
  BY <1>13, ZenonT(40) DEF Interrupt, TimerInterrupt, Typed, Polling
<1> QED
  BY <1>1, <1>2, <1>3, <1>4, <1>5, <1>6, <1>7, <1>8, <1>9, <1>10, <1>11, <1>12, <1>13
  DEF OwnerTurn, OwnerStep

-----------------------------------------------------------------------------
(* The way to the halt. *)

\* A ringer or an interrupter other than x is still one after a step of x.
LEMMA OthersStay ==
  ASSUME Typed, NEW x \in Threads,
         \A y \in Threads : y # x => thread'[y] = thread[y]
  PROVE  /\ Ringing /\ ~At(x, "ring") => Ringing'
         /\ Calling /\ ~At(x, "ipi") => Calling'
  BY DEF Ringing, Calling, At

\* The steps of the other cores keep the owner's watch.
LEMMA ThreadsWatch ==
  ASSUME Typed, Watch, NEW x \in Threads, ThreadTurn(x)
  PROVE  Watch'
<1> USE DEF local
<1>1. ASSUME NEW t \in Tasks, Spawn(x, t) PROVE Watch'
  <2>1. t \in Futures /\ "push" \in ThreadPcs
    BY DEF Futures, ThreadPcs
  <2>2. \A y \in Threads : y # x => thread'[y] = thread[y]
    BY <1>1, <2>1, Sent DEF Spawn
  <2>3. (Ringing => Ringing') /\ (Calling => Calling')
    BY <1>1, <2>2, OthersStay DEF Spawn, At
  <2> QED
    BY <1>1, <2>3 DEF Spawn, Watch, Work
<1>2. ASSUME NEW f \in Wakes[x], Post(x, f) PROVE Watch'
  <2>1. f \in Futures /\ "mark" \in ThreadPcs
    BY Sized DEF Futures, ThreadPcs
  <2>2. \A y \in Threads : y # x => thread'[y] = thread[y]
    BY <1>2, <2>1, Sent DEF Post
  <2>3. (Ringing => Ringing') /\ (Calling => Calling')
    BY <1>2, <2>2, OthersStay DEF Post, At
  <2> QED
    BY <1>2, <2>3 DEF Post, Watch, Work
<1>3. CASE Mark(x)
  <2>1. PICK p \in {"ring", "push", "idle"} : Step(x, p) /\ (p # "ring" => rung' = rung)
    BY <1>3 DEF Mark
  <2>2. p \in ThreadPcs
    BY DEF ThreadPcs
  <2>3. thread'[x].pc = p /\ \A y \in Threads : y # x => thread'[y] = thread[y]
    BY <2>1, <2>2, Stepped
  <2>4. (Ringing => Ringing') /\ (Calling => Calling')
    BY <1>3, <2>3, OthersStay DEF Mark, At
  <2>5. p = "ring" => Ringing'
    BY <2>3 DEF Ringing, At
  <2>6. UNCHANGED <<inbox, ready, owner, doorbell, irq>>
    BY <1>3 DEF Mark
  <2> QED
    BY <2>1, <2>4, <2>5, <2>6 DEF Watch, Work
<1>4. CASE PushInbox(x)
  <2> DEFINE t == thread[x].task
  <2>1. t \in Tasks /\ Push(t)
    BY <1>4 DEF PushInbox, Typed
  <2>2. \A l \in Levels : l # Priority[t] => inbox'[l] = inbox[l]
    BY <2>1, Pushed
  <2>3. PICK p \in {"ring", "idle"} : Step(x, p) /\ (p = "idle" => ~First(t))
    BY <1>4 DEF PushInbox
  <2>4. p \in ThreadPcs
    BY DEF ThreadPcs
  <2>5. thread'[x].pc = p /\ \A y \in Threads : y # x => thread'[y] = thread[y]
    BY <2>3, <2>4, Stepped
  <2>6. (Ringing => Ringing') /\ (Calling => Calling')
    BY <1>4, <2>5, OthersStay DEF PushInbox, At
  <2>7. p = "ring" => Ringing'
    BY <2>5 DEF Ringing, At
  <2>8. p = "idle" => Work
    BY <2>1, <2>3, Sized DEF Work, First
  <2>9. UNCHANGED <<ready, owner, doorbell, irq, rung>>
    BY <1>4 DEF PushInbox
  <2> QED
    BY <2>3, <2>6, <2>7, <2>8, <2>9 DEF Watch
<1>5. CASE Ring(x)
  <2>1. PICK p \in {"ipi", "idle"} : Step(x, p) /\ (p = "idle" => doorbell)
    BY <1>5 DEF Ring
  <2>2. p \in ThreadPcs
    BY DEF ThreadPcs
  <2>3. thread'[x].pc = p /\ \A y \in Threads : y # x => thread'[y] = thread[y]
    BY <2>1, <2>2, Stepped
  <2>4. Calling => Calling'
    BY <1>5, <2>3, OthersStay DEF Ring, At
  <2>5. p = "ipi" => Calling'
    BY <2>3 DEF Calling, At
  <2>6. doorbell' = TRUE /\ UNCHANGED <<inbox, ready, owner, irq, rung>>
    BY <1>5 DEF Ring
  <2> QED
    BY <2>1, <2>4, <2>5, <2>6 DEF Watch, Work
<1>6. CASE Ipi(x)
  <2>1. Step(x, "idle") /\ "idle" \in ThreadPcs
    BY <1>6 DEF Ipi, ThreadPcs
  <2>2. \A y \in Threads : y # x => thread'[y] = thread[y]
    BY <2>1, Stepped
  <2>3. Ringing => Ringing'
    BY <1>6, <2>2, OthersStay DEF Ipi, At
  <2>4. irq' = TRUE /\ UNCHANGED <<inbox, ready, owner, doorbell, rung>>
    BY <1>6 DEF Ipi
  <2> QED
    BY <2>3, <2>4 DEF Watch, Work
<1> QED
  BY <1>1, <1>2, <1>3, <1>4, <1>5, <1>6 DEF ThreadTurn, Continue

\* The owner's steps keep its watch: each look on the way to the halt comes
\* before what it looks for can be missed.
LEMMA OwnerWatch ==
  ASSUME Typed, Watch, OwnerTurn
  PROVE  Watch'
<1> USE DEF queues, Owner, OwnerAt
<1>0. owner \in [pc : OwnerPcs, cur : Futures, ran : BOOLEAN, at : Levels]
  BY DEF Typed
<1>1. ASSUME owner'.pc \notin {"rung", "inboxes", "park", "halt"} PROVE Watch'
  BY <1>1 DEF Watch
<1>2. CASE RootAnswered \/ RootPoll \/ TickIdle \/ \E t \in Sleepers : TickDue(t)
  <2>1. owner'.pc \in {"rootpoll", "tick", "collect"}
    BY <1>0, <1>2, Zenon DEF RootAnswered, RootPoll, TickIdle, TickDue
  <2> QED
    BY <1>1, <2>1
<1>3. CASE Collect \/ Take
  <2>1. owner'.pc \in {"collect", "take", "poll"}
    BY <1>0, <1>3, Zenon DEF Collect, Take
  <2> QED
    BY <1>1, <2>1
<1>4. CASE (\E done \in BOOLEAN : Poll(done)) \/ (\E t \in Tasks : PollWaking(t))
  <2>1. owner'.pc \in {"finish", "pending"}
    BY <1>0, <1>4 DEF Poll, PollWaking
  <2> QED
    BY <1>1, <2>1
<1>5. CASE Pending \/ Finish \/ TimerInterrupt
  <2>1. owner'.pc \in {"collect", "root"}
    BY <1>0, <1>5, Zenon DEF Pending, Finish, TimerInterrupt
  <2> QED
    BY <1>1, <2>1
<1>6. CASE TakeNone
  <2>1. \A l \in Levels : ready[l] = <<>>
    BY <1>6, NothingReady DEF TakeNone
  <2>2. owner'.pc \in {"root", "rung"} /\ ready' = ready
    BY <1>0, <1>6 DEF TakeNone
  <2> QED
    BY <2>1, <2>2 DEF Watch
<1>7. CASE CheckRung
  <2>1. owner'.pc = IF rung THEN "root" ELSE "inboxes"
    BY <1>0, <1>7 DEF CheckRung
  <2> QED
    BY <1>7, <2>1 DEF CheckRung, Watch
<1>8. CASE CheckPending
  <2>1. owner'.pc = IF Work THEN "root" ELSE "park"
    BY <1>0, <1>8 DEF CheckPending, Work
  <2> QED
    BY <1>8, <2>1 DEF CheckPending, Watch, Work, Ringing, At
<1>9. CASE Park
  <2>1. owner'.pc = IF doorbell THEN "root" ELSE IF Halt = "hlt" THEN "halt" ELSE "wfi"
    BY <1>0, <1>9 DEF Park, Answered
  <2> QED
    BY <1>9, <2>1 DEF Park, Watch, Work, Ringing, At
<1>10. CASE Interrupt
  <2>1. owner'.pc = IF owner.pc = "halt" THEN "root" ELSE owner.pc
    BY <1>0, <1>10 DEF Interrupt
  <2> QED
    BY <1>10, <2>1 DEF Interrupt, Watch, Work, Ringing, At
<1> QED
  BY <1>2, <1>3, <1>4, <1>5, <1>6, <1>7, <1>8, <1>9, <1>10 DEF OwnerTurn, OwnerStep

\* A core starts awake, with nothing queued.
LEMMA InitWatch == Init => Typed /\ Watch
<1> SUFFICES ASSUME Init PROVE Typed /\ Watch
  OBVIOUS
<1>1. 0 \in Levels
  BY Sized DEF Levels, LEVELS
<1>2. Root \in Futures
  BY DEF Futures
<1>3. Typed
  <2>1. owner \in [pc : OwnerPcs, cur : Futures, ran : BOOLEAN, at : Levels] /\ ~Polling
    BY <1>1, <1>2 DEF Init, OwnerPcs, Polling
  <2>2. /\ thread \in [Threads -> [pc : ThreadPcs, task : Futures]]
        /\ \A x \in Threads : ~At(x, "push")
    BY <1>2 DEF Init, ThreadPcs, At
  <2>3. inbox \in [Levels -> Seq(Tasks)] /\ ready \in [Levels -> Seq(Tasks)]
    BY DEF Init
  <2>4. /\ state \in [Tasks -> SUBSET BITS]
        /\ future \in [Tasks -> {"unborn", "some", "dropped"}]
        /\ event \in [Futures -> BOOLEAN]
    BY DEF Init
  <2>5. rung \in BOOLEAN /\ doorbell \in BOOLEAN /\ irq \in BOOLEAN /\ handed \subseteq Futures
    BY Zenon DEF Init
  <2> QED
    BY <1>1, <2>1, <2>2, <2>3, <2>4, <2>5 DEF Init, Typed
<1>4. Watch
  BY DEF Init, Watch
<1> QED
  BY <1>3, <1>4

\* Every step keeps the owner's watch.
LEMMA NextWatch == Typed /\ Watch /\ [Next]_vars => Typed' /\ Watch'
<1> SUFFICES ASSUME Typed, Watch, [Next]_vars PROVE Typed' /\ Watch'
  OBVIOUS
<1>1. CASE OwnerTurn
  BY <1>1, OwnerTyped, OwnerWatch
<1>2. ASSUME NEW x \in Threads, ThreadTurn(x) PROVE Typed' /\ Watch'
  BY <1>2, ThreadsTyped, ThreadsWatch
<1>3. CASE UNCHANGED vars
  BY <1>3 DEF vars, local, Typed, Watch, Work, Ringing, Calling, At, Polling
<1> QED
  BY <1>1, <1>2, <1>3 DEF Next, OwnerTurn, ThreadTurn

\* The owner's watch holds in every reachable state.
THEOREM Watched == Spec => [](Typed /\ Watch)
  BY InitWatch, NextWatch, PTL DEF Spec

\* A core halts only with nothing to do, and a wake that comes while it decides
\* or after it halted has its interrupt on the way (exec.rs, percpu.rs).
THEOREM Awake == Spec => []NoWakeSleptThrough
<1>1. Typed /\ Watch => NoWakeSleptThrough
  BY DEF NoWakeSleptThrough, Watch, Work, Ringing, Calling, At, OwnerAt
<1> QED
  BY <1>1, Watched, PTL

-----------------------------------------------------------------------------
(* collect: what it puts in the table. *)

Distinct(s) == \A i, j \in 1 .. Len(s) : s[i] = s[j] => i = j

\* The recursion of Unheld, unfolded.
LEMMA UnheldRuns ==
  ASSUME NEW s \in Seq(Tasks)
  PROVE  \E f \in [0 .. Len(s) -> Seq(Tasks)] :
           /\ f[0] = <<>>
           /\ \A i \in 1 .. Len(s) : f[i] = IF "HELD" \in state[s[i]] THEN f[i - 1]
                                            ELSE Append(f[i - 1], s[i])
           /\ Unheld(s) = f[Len(s)]
<1> DEFINE n == Len(s)
           Ext(i, q) == IF "HELD" \in state[s[i]] THEN q ELSE Append(q, s[i])
           Body(f) == [i \in 0 .. n |-> IF i = 0 THEN <<>> ELSE Ext(i, f[i - 1])]
           F == CHOOSE f : f = Body(f)
           g == [i \in 1 .. n |-> [q \in Seq(Tasks) |-> Ext(i, q)]]
<1>0. n \in Nat /\ \A i \in 1 .. n : s[i] \in Tasks
  OBVIOUS
<1>1. \A i \in 1 .. n, q \in Seq(Tasks) : Ext(i, q) \in Seq(Tasks)
  OBVIOUS
<1>2. Unheld(s) = F[n]
  BY DEF Unheld
<1> HIDE DEF n, Ext
<1>4. PICK f \in [0 .. n -> Seq(Tasks)] :
        f[0] = <<>> /\ \A i \in 1 .. n : f[i] = g[i][f[i - 1]]
  <2> DEFINE X == Seq(Tasks)
             e == <<>>
  <2>1. e \in X
    OBVIOUS
  <2>2. \A i \in 1 .. n : \A q \in X : g[i][q] \in X
    BY <1>1
  <2>3. n \in Nat
    BY <1>0
  <2> HIDE DEF g, X, e
  <2>4. Iterable(X, n, e, g)
    BY <2>1, <2>2, <2>3, Iterates
  <2> QED
    BY <2>4, Zenon DEF X, e, Iterable
<1>5. f = Body(f)
  <2>1. ASSUME NEW i \in 1 .. n PROVE f[i] = Ext(i, f[i - 1])
    <3>1. f[i - 1] \in Seq(Tasks)
      BY <1>0
    <3>2. g[i][f[i - 1]] = Ext(i, f[i - 1])
      BY <3>1
    <3> QED
      BY <1>4, <3>2
  <2>2. ASSUME NEW i \in 0 .. n PROVE f[i] = Body(f)[i]
    BY <1>0, <1>4, <2>1
  <2> QED
    BY <2>2
<1>6. F = Body(F)
  <2> HIDE DEF Body
  <2> QED
    BY <1>5
<1> HIDE DEF F
<1>7. F[0] = <<>> /\ \A i \in 1 .. n : F[i] = Ext(i, F[i - 1])
  BY <1>0, <1>6
<1>8. \A i \in 0 .. n : F[i] \in Seq(Tasks)
  <2> DEFINE B == {i \in 0 .. n : F[i] \in Seq(Tasks)}
  <2>1. 0 \in B
    <3>1. <<>> \in Seq(Tasks)
      OBVIOUS
    <3>2. 0 \in 0 .. n
      BY <1>0
    <3>3. F[0] \in Seq(Tasks)
      BY <1>7, <3>1, Zenon
    <3> QED
      BY <3>2, <3>3
  <2>2. ASSUME NEW i \in 0 .. n - 1, i \in B PROVE i + 1 \in B
    <3>1. i + 1 \in 1 .. n /\ (i + 1) - 1 = i
      BY <1>0
    <3>2. F[i + 1] = Ext(i + 1, F[i])
      BY <1>7, <3>1
    <3> QED
      BY <1>1, <2>2, <3>1, <3>2
  <2>3. \A i \in 0 .. n : i \in B
    <3> HIDE DEF B
    <3> QED
      BY <1>0, <2>1, <2>2, Induction, Zenon
  <2> QED
    BY <2>3
<1>9. F \in [0 .. n -> Seq(Tasks)]
  BY <1>6, <1>8
<1> QED
  BY <1>2, <1>7, <1>9 DEF n, Ext

\* Of distinct tasks, Unheld gives the unheld ones, each once.
LEMMA UnheldExact ==
  ASSUME NEW s \in Seq(Tasks), Distinct(s)
  PROVE  /\ Unheld(s) \in Seq(Tasks)
         /\ Distinct(Unheld(s))
         /\ \A t \in Tasks : (\E k \in 1 .. Len(Unheld(s)) : Unheld(s)[k] = t)
                               <=> (\E j \in 1 .. Len(s) : s[j] = t) /\ "HELD" \notin state[t]
<1>1. PICK f \in [0 .. Len(s) -> Seq(Tasks)] :
           /\ f[0] = <<>>
           /\ \A i \in 1 .. Len(s) : f[i] = IF "HELD" \in state[s[i]] THEN f[i - 1]
                                            ELSE Append(f[i - 1], s[i])
           /\ Unheld(s) = f[Len(s)]
  BY UnheldRuns
<1> DEFINE n == Len(s)
           Good(i, q) ==
             /\ \A k \in 1 .. Len(q) : \E j \in 1 .. i : q[k] = s[j] /\ "HELD" \notin state[s[j]]
             /\ \A j \in 1 .. i : "HELD" \notin state[s[j]] => \E k \in 1 .. Len(q) : q[k] = s[j]
             /\ Distinct(q)
           B == {i \in 0 .. n : Good(i, f[i])}
<1>2. n \in Nat /\ \A i \in 1 .. n : s[i] \in Tasks
  OBVIOUS
<1>3. Good(0, f[0])
  BY <1>1 DEF Distinct
<1>4. ASSUME NEW i \in 0 .. n - 1, Good(i, f[i]) PROVE Good(i + 1, f[i + 1])
  <2> DEFINE q == f[i]
             t == s[i + 1]
  <2>1. i + 1 \in 1 .. n /\ (i + 1) - 1 = i /\ q \in Seq(Tasks) /\ t \in Tasks
    BY <1>2
  <2>2. f[i + 1] = IF "HELD" \in state[t] THEN q ELSE Append(q, t)
    BY <1>1, <2>1
  <2>3. \A j \in 1 .. i + 1 : j \in 1 .. i \/ j = i + 1
    BY <2>1
  <2>4. \A j \in 1 .. i : j \in 1 .. i + 1
    BY <2>1
  <2>5. CASE "HELD" \in state[t]
    BY <1>4, <2>2, <2>3, <2>4, <2>5
  <2>6. CASE "HELD" \notin state[t]
    <3> DEFINE r == f[i + 1]
    <3>1. r = Append(q, t)
      BY <2>2, <2>6
    <3>2. /\ Len(r) = Len(q) + 1 /\ Len(q) \in Nat
          /\ \A k \in 1 .. Len(q) : r[k] = q[k]
          /\ r[Len(q) + 1] = t
      BY <2>1, <3>1
    <3>3. \A k \in 1 .. Len(q) : q[k] # t
      <4> SUFFICES ASSUME NEW k \in 1 .. Len(q), q[k] = t PROVE FALSE
        OBVIOUS
      <4>1. PICK j \in 1 .. i : s[j] = s[i + 1]
        BY <1>4
      <4> QED
        BY <1>2, <2>1, <4>1 DEF Distinct
    <3> HIDE DEF r, q, t
    <3>4. \A k \in 1 .. Len(r) : k \in 1 .. Len(q) \/ k = Len(q) + 1
      BY <3>2
    <3>5. \A k \in 1 .. Len(r) : \E j \in 1 .. i + 1 : r[k] = s[j] /\ "HELD" \notin state[s[j]]
      <4>1. \A k \in 1 .. Len(q) : \E j \in 1 .. i : q[k] = s[j] /\ "HELD" \notin state[s[j]]
        BY <1>4 DEF q
      <4>2. i + 1 \in 1 .. i + 1 /\ t = s[i + 1]
        BY DEF t
      <4> QED
        BY <2>4, <2>6, <3>2, <3>4, <4>1, <4>2
    <3>6. \A j \in 1 .. i + 1 : "HELD" \notin state[s[j]] => \E k \in 1 .. Len(r) : r[k] = s[j]
      <4>1. \A j \in 1 .. i : "HELD" \notin state[s[j]] => \E k \in 1 .. Len(q) : q[k] = s[j]
        BY <1>4 DEF q
      <4>2. t = s[i + 1] /\ Len(q) + 1 \in 1 .. Len(r)
        BY <3>2 DEF t
      <4>3. \A k \in 1 .. Len(q) : k \in 1 .. Len(r)
        BY <3>2
      <4> QED
        BY <2>3, <3>2, <4>1, <4>2, <4>3
    <3>7. Distinct(r)
      <4>1. \A a, b \in 1 .. Len(q) : q[a] = q[b] => a = b
        BY <1>4 DEF q, Distinct
      <4> QED
        BY <3>2, <3>3, <3>4, <4>1 DEF Distinct
    <3> QED
      BY <3>5, <3>6, <3>7 DEF r
  <2> QED
    BY <2>5, <2>6, Zenon
<1> HIDE DEF Good
<1>5. 0 \in B /\ \A i \in 0 .. n - 1 : i \in B => i + 1 \in B
  BY <1>2, <1>3, <1>4
<1>6. \A i \in 0 .. n : i \in B
  <2> HIDE DEF B
  <2> QED
    BY <1>2, <1>5, Induction, Zenon
<1>7. Good(n, Unheld(s))
  BY <1>1, <1>2, <1>6
<1>8. Unheld(s) \in Seq(Tasks)
  BY <1>1, <1>2
<1> QED
  BY <1>2, <1>7, <1>8, ZenonT(40) DEF Good

-----------------------------------------------------------------------------
(* The queues and the task words. *)

\* The places that hold a queue reference to t.
PushersOf(t) == {x \in Threads : At(x, "push") /\ thread[x].task = t}
InboxOf(t) == {i \in DOMAIN inbox[Priority[t]] : inbox[Priority[t]][i] = t}
ReadyOf(t) == {i \in DOMAIN ready[Priority[t]] : ready[Priority[t]][i] = t}

Lone(S) == \A a, b \in S : a = b

\* One place at most holds t, and one does exactly when its word says so.
Once(t) ==
  /\ Lone(PushersOf(t)) /\ Lone(InboxOf(t)) /\ Lone(ReadyOf(t))
  /\ PushersOf(t) # {} => InboxOf(t) = {} /\ ReadyOf(t) = {}
  /\ InboxOf(t) # {} => ReadyOf(t) = {}
  /\ "SCHEDULED" \in state[t] <=> PushersOf(t) # {} \/ InboxOf(t) # {} \/ ReadyOf(t) # {}

\* A queued task is queued at its own level.
OnLevel ==
  \A l \in Levels :
    /\ \A i \in DOMAIN inbox[l] : Priority[inbox[l][i]] = l
    /\ \A i \in DOMAIN ready[l] : Priority[ready[l][i]] = l

Finishing(t) == owner.pc = "finish" /\ owner.cur = t

\* What the word of t says of its future, of the poll and of the queues.
Word(t) ==
  /\ "SCHEDULED" \in state[t] => state[t] \cap {"RUNNING", "DONE"} = {} /\ future[t] = "some"
  /\ "RUNNING" \in state[t] <=> Polling /\ owner.cur = t
  /\ "DONE" \in state[t] => state[t] \cap {"RUNNING", "HELD"} = {} /\ future[t] = "dropped"
  /\ future[t] = "unborn" => state[t] = {}
  /\ future[t] = "dropped" => "DONE" \in state[t] \/ Finishing(t)
  /\ Finishing(t) => future[t] = "dropped"
  /\ ReadyOf(t) # {} \/ (Polling /\ owner.cur = t) => "HELD" \in state[t]

\* Only tasks that were spawned have a waker out.
Born ==
  /\ \A t \in handed \cap Tasks : future[t] # "unborn"
  /\ \A x \in Threads : At(x, "mark") /\ thread[x].task \in Tasks
                          => future[thread[x].task] # "unborn"

Queues == OnLevel /\ Born /\ \A t \in Tasks : Once(t) /\ Word(t)

\* The right to queue a task is won from a word with none of the three bits.
LEMMA Winning ==
  ASSUME NEW s \in SUBSET BITS
  PROVE  /\ Wins(s) => Scheduled(s) = s \cup {"SCHEDULED"} /\ s \cap {"DONE", "SCHEDULED", "RUNNING"} = {}
         /\ ~Wins(s) => /\ "SCHEDULED" \in Scheduled(s) <=> "SCHEDULED" \in s
                        /\ Scheduled(s) = s \/ (Scheduled(s) = s \cup {"WOKEN"} /\ "RUNNING" \in s)
  BY DEF Wins, Scheduled

\* A push gives its task one more place in the inbox and no other task any.
LEMMA InboxEnd ==
  ASSUME Typed, OnLevel, NEW t \in Tasks, Push(t), ready' = ready
  PROVE  /\ OnLevel'
         /\ InboxOf(t)' = InboxOf(t) \cup {Len(inbox[Priority[t]]) + 1}
         /\ \A u \in Tasks : u # t => InboxOf(u)' = InboxOf(u)
<1> DEFINE p == Priority[t]
           q == inbox[p]
<1>1. p \in Levels /\ \A u \in Tasks : Priority[u] \in Levels
  BY Sized
<1>2. q \in Seq(Tasks)
  BY <1>1 DEF Typed
<1>3. inbox'[p] = Append(q, t) /\ \A l \in Levels : l # p => inbox'[l] = inbox[l]
  BY Pushed
<1>4. /\ DOMAIN inbox'[p] = DOMAIN q \cup {Len(q) + 1}
      /\ \A i \in DOMAIN q : inbox'[p][i] = q[i] /\ i # Len(q) + 1
      /\ inbox'[p][Len(q) + 1] = t
  BY <1>2, <1>3
<1>5. OnLevel'
  <2> SUFFICES ASSUME NEW l \in Levels
               PROVE  /\ \A i \in DOMAIN inbox'[l] : Priority[inbox'[l][i]] = l
                      /\ \A i \in DOMAIN ready'[l] : Priority[ready'[l][i]] = l
    BY DEF OnLevel
  <2>1. CASE l = p
    BY <1>4, <2>1 DEF OnLevel
  <2>2. CASE l # p
    BY <1>3, <2>2 DEF OnLevel
  <2> QED
    BY <2>1, <2>2
<1>6. InboxOf(t)' = InboxOf(t) \cup {Len(q) + 1}
  BY <1>4 DEF InboxOf
<1>7. ASSUME NEW u \in Tasks, u # t PROVE InboxOf(u)' = InboxOf(u)
  <2>1. CASE Priority[u] = p
    BY <1>4, <1>7, <2>1 DEF InboxOf
  <2>2. CASE Priority[u] # p
    BY <1>1, <1>3, <2>2 DEF InboxOf
  <2> QED
    BY <2>1, <2>2
<1> QED
  BY <1>5, <1>6, <1>7

\* A thread's step changes nobody's pushers but the thread itself.
LEMMA PusherSteps ==
  ASSUME Typed, NEW x \in Threads, \A y \in Threads : y # x => thread'[y] = thread[y]
  PROVE  \A t \in Tasks :
           PushersOf(t)' = (PushersOf(t) \ {x})
                             \cup (IF thread'[x].pc = "push" /\ thread'[x].task = t THEN {x} ELSE {})
  BY DEF PushersOf, At

\* The owner queues t, which was in no queue.
LEMMA QueuedHere ==
  ASSUME Typed, OnLevel, \A u \in Tasks : Once(u), NEW t \in Tasks,
         "SCHEDULED" \notin state[t], "SCHEDULED" \in state'[t],
         \A u \in Tasks : u # t => state'[u] = state[u],
         Push(t), UNCHANGED <<ready, thread>>
  PROVE  OnLevel' /\ \A u \in Tasks : Once(u)'
<1>1. /\ OnLevel'
      /\ InboxOf(t)' = InboxOf(t) \cup {Len(inbox[Priority[t]]) + 1}
      /\ \A u \in Tasks : u # t => InboxOf(u)' = InboxOf(u)
  BY InboxEnd
<1>2. \A u \in Tasks : PushersOf(u)' = PushersOf(u) /\ ReadyOf(u)' = ReadyOf(u)
  BY DEF PushersOf, ReadyOf, At
<1>3. PushersOf(t) = {} /\ InboxOf(t) = {} /\ ReadyOf(t) = {}
  BY DEF Once
<1>4. Once(t)'
  <2>1. PushersOf(t)' = {} /\ InboxOf(t)' = {Len(inbox[Priority[t]]) + 1} /\ ReadyOf(t)' = {}
    BY <1>1, <1>2, <1>3
  <2>2. Lone(PushersOf(t)') /\ Lone(InboxOf(t)') /\ Lone(ReadyOf(t)')
    BY <2>1 DEF Lone
  <2> QED
    BY <2>1, <2>2 DEF Once
<1>5. ASSUME NEW u \in Tasks, u # t PROVE Once(u)'
  <2>1. /\ Once(u) /\ state'[u] = state[u]
        /\ PushersOf(u)' = PushersOf(u) /\ InboxOf(u)' = InboxOf(u) /\ ReadyOf(u)' = ReadyOf(u)
    BY <1>1, <1>2, <1>5
  <2> QED
    BY <2>1 DEF Once
<1> QED
  BY <1>1, <1>4, <1>5

\* Nothing moves, and no word gains or loses its queued bit.
LEMMA OnceStays ==
  ASSUME \A u \in Tasks : Once(u), UNCHANGED <<inbox, ready>>,
         \A u \in Tasks : PushersOf(u)' = PushersOf(u),
         \A u \in Tasks : "SCHEDULED" \in state'[u] <=> "SCHEDULED" \in state[u]
  PROVE  \A u \in Tasks : Once(u)'
<1> SUFFICES ASSUME NEW u \in Tasks PROVE Once(u)'
  OBVIOUS
<1>1. InboxOf(u)' = InboxOf(u) /\ ReadyOf(u)' = ReadyOf(u)
  BY DEF InboxOf, ReadyOf
<1>2. Once(u) /\ PushersOf(u)' = PushersOf(u) /\ ("SCHEDULED" \in state'[u] <=> "SCHEDULED" \in state[u])
  OBVIOUS
<1> QED
  BY <1>1, <1>2 DEF Once

\* A wake on the owning core queues its task once, or not at all.
LEMMA WakeOnce ==
  ASSUME Typed, OnLevel, \A u \in Tasks : Once(u), NEW t \in Tasks,
         state' = [state EXCEPT ![t] = Scheduled(state[t])],
         UNCHANGED <<ready, thread>>,
         IF Wins(state[t]) THEN QueueHere(t) ELSE UNCHANGED <<inbox, doorbell>>
  PROVE  OnLevel' /\ \A u \in Tasks : Once(u)'
<1>1. state[t] \in SUBSET BITS /\ state'[t] = Scheduled(state[t])
  BY DEF Typed
<1>2. \A u \in Tasks : u # t => state'[u] = state[u]
  BY DEF Typed
<1>3. CASE Wins(state[t])
  <2>1. Push(t)
    BY <1>3 DEF QueueHere
  <2>2. "SCHEDULED" \notin state[t] /\ "SCHEDULED" \in state'[t]
    BY <1>1, <1>3, Winning
  <2> QED
    BY <1>2, <2>1, <2>2, QueuedHere
<1>4. CASE ~Wins(state[t])
  <2>1. \A u \in Tasks : "SCHEDULED" \in state'[u] <=> "SCHEDULED" \in state[u]
    BY <1>1, <1>2, <1>4, Winning
  <2>2. UNCHANGED <<inbox, ready>>
    BY <1>4
  <2>3. \A u \in Tasks : PushersOf(u)' = PushersOf(u)
    BY DEF PushersOf, At
  <2>4. OnLevel'
    BY <2>2 DEF OnLevel
  <2> QED
    BY <2>1, <2>2, <2>3, <2>4, OnceStays
<1> QED
  BY <1>3, <1>4

\* A wake of a spawned task keeps what the words say.
LEMMA WakeWord ==
  ASSUME Typed, Queues, NEW t \in Tasks, future[t] # "unborn",
         state' = [state EXCEPT ![t] = Scheduled(state[t])],
         UNCHANGED <<future, ready>>, owner'.cur = owner.cur, Polling' <=> Polling,
         owner'.pc = "finish" <=> owner.pc = "finish"
  PROVE  \A u \in Tasks : Word(u)'
<1>1. state[t] \in SUBSET BITS /\ state'[t] = Scheduled(state[t])
  BY DEF Typed
<1>2. \A u \in Tasks : u # t => state'[u] = state[u]
  BY DEF Typed
<1>3. \A u \in Tasks : ReadyOf(u)' = ReadyOf(u) /\ Finishing(u)' = Finishing(u)
  BY DEF ReadyOf, Finishing
<1>4. ASSUME NEW u \in Tasks, u # t PROVE Word(u)'
  <2>1. Word(u)
    BY DEF Queues
  <2> QED
    BY <1>2, <1>3, <1>4, <2>1 DEF Word
<1>5. Word(t)
  BY DEF Queues
<1>6. CASE Wins(state[t])
  <2>1. /\ state'[t] = state[t] \cup {"SCHEDULED"}
        /\ state[t] \cap {"DONE", "SCHEDULED", "RUNNING"} = {}
    BY <1>1, <1>6, Winning
  <2>2. future[t] = "some"
    BY <1>5, <2>1 DEF Word, Typed, Finishing, Polling
  <2>3. ReadyOf(t)' = ReadyOf(t) /\ Finishing(t)' = Finishing(t)
    BY <1>3
  <2>4. Word(t)'
    BY <1>5, <2>1, <2>2, <2>3 DEF Word
  <2> QED
    BY <1>4, <2>4
<1>7. CASE ~Wins(state[t])
  <2>1. \/ state'[t] = state[t]
        \/ state'[t] = state[t] \cup {"WOKEN"} /\ "RUNNING" \in state[t]
    BY <1>1, <1>7, Winning
  <2>2. ReadyOf(t)' = ReadyOf(t) /\ Finishing(t)' = Finishing(t)
    BY <1>3
  <2>3. Word(t)'
    BY <1>5, <2>1, <2>2 DEF Word
  <2> QED
    BY <1>4, <2>3
<1> QED
  BY <1>6, <1>7

\* A thread that neither pushes nor comes to push leaves the queues alone.
LEMMA NotPushing ==
  ASSUME Typed, Queues, NEW x \in Threads, \A y \in Threads : y # x => thread'[y] = thread[y],
         ~At(x, "push"), thread'[x].pc # "push",
         thread'[x].pc = "mark" /\ thread'[x].task \in Tasks
           => future[thread'[x].task] # "unborn",
         UNCHANGED <<state, future, inbox, ready, owner, handed>>
  PROVE  Queues'
<1>1. \A u \in Tasks : PushersOf(u)' = PushersOf(u)
  BY PusherSteps DEF PushersOf, At
<1>2. \A u \in Tasks : Once(u)'
  BY <1>1, OnceStays DEF Queues
<1>3. \A u \in Tasks : Word(u)'
  BY DEF Queues, Word, ReadyOf, Finishing, Polling
<1>4. OnLevel'
  BY DEF Queues, OnLevel
<1>5. Born'
  <2>1. \A y \in Threads : thread'[y].pc = "mark" /\ thread'[y].task \in Tasks
                             => future'[thread'[y].task] # "unborn"
    BY DEF Queues, Born, At
  <2> QED
    BY <2>1 DEF Queues, Born, At
<1> QED
  BY <1>2, <1>3, <1>4, <1>5 DEF Queues

\* The steps of the other cores keep the queues exact.
LEMMA ThreadsQueued ==
  ASSUME Typed, Queues, NEW x \in Threads, ThreadTurn(x)
  PROVE  Queues'
<1> USE DEF local
<1>1. ASSUME NEW t \in Tasks, Spawn(x, t) PROVE Queues'
  <2>1. t \in Futures /\ "push" \in ThreadPcs
    BY DEF Futures, ThreadPcs
  <2>2. /\ thread'[x].pc = "push" /\ thread'[x].task = t
        /\ \A y \in Threads : y # x => thread'[y] = thread[y]
    BY <1>1, <2>1, Sent, ZenonT(40) DEF Spawn
  <2>3. Word(t) /\ Once(t) /\ state[t] = {}
    BY <1>1 DEF Queues, Word, Spawn
  <2>4. state'[t] = {"SCHEDULED"} /\ \A u \in Tasks : u # t => state'[u] = state[u]
    BY <1>1, <2>3 DEF Spawn, Typed, Scheduled
  <2>5. future'[t] = "some" /\ \A u \in Tasks : u # t => future'[u] = future[u]
    BY <1>1, Zenon DEF Spawn, Typed
  <2>6. UNCHANGED <<inbox, ready, owner, handed>>
    BY <1>1 DEF Spawn
  <2>7. \A u \in Tasks : InboxOf(u)' = InboxOf(u) /\ ReadyOf(u)' = ReadyOf(u)
    BY <2>6 DEF InboxOf, ReadyOf
  <2>8. \A u \in Tasks : PushersOf(u)' = IF u = t THEN PushersOf(t) \cup {x} ELSE PushersOf(u)
    <3>1. \A u \in Tasks : x \notin PushersOf(u)
      BY <1>1 DEF Spawn, PushersOf, At
    <3> SUFFICES ASSUME NEW u \in Tasks
                 PROVE  PushersOf(u)' = IF u = t THEN PushersOf(t) \cup {x} ELSE PushersOf(u)
      OBVIOUS
    <3>2. PushersOf(u)' = (PushersOf(u) \ {x})
                            \cup (IF thread'[x].pc = "push" /\ thread'[x].task = u THEN {x} ELSE {})
      BY <2>2, PusherSteps
    <3>3. CASE u = t
      BY <2>2, <3>1, <3>2, <3>3
    <3>4. CASE u # t
      BY <2>2, <3>1, <3>2, <3>4
    <3> QED
      BY <3>3, <3>4
  <2>9. ASSUME NEW u \in Tasks PROVE Once(u)'
    <3>1. CASE u = t
      <4>1. PushersOf(t) = {} /\ InboxOf(t) = {} /\ ReadyOf(t) = {}
        BY <2>3 DEF Once
      <4> QED
        BY <2>4, <2>7, <2>8, <3>1, <4>1 DEF Once, Lone
    <3>2. CASE u # t
      <4>1. Once(u)
        BY DEF Queues
      <4> QED
        BY <2>4, <2>7, <2>8, <3>2, <4>1 DEF Once, Lone
    <3> QED
      BY <3>1, <3>2
  <2>10. ASSUME NEW u \in Tasks PROVE Word(u)'
    <3>1. Word(u)
      BY DEF Queues
    <3>2. CASE u = t
      <4>1. ReadyOf(t) = {}
        BY <2>3 DEF Once
      <4>2. ~(Polling /\ owner.cur = t)
        BY <2>3 DEF Word
      <4> QED
        BY <2>4, <2>5, <2>6, <2>7, <3>2, <4>1, <4>2 DEF Word, Finishing, Polling
    <3>3. CASE u # t
      BY <2>4, <2>5, <2>6, <2>7, <3>1, <3>3 DEF Word, Finishing, Polling
    <3> QED
      BY <3>2, <3>3
  <2>11. OnLevel'
    BY <2>6 DEF Queues, OnLevel
  <2>12. Born'
    BY <2>2, <2>5, <2>6 DEF Queues, Born, At
  <2> QED
    BY <2>9, <2>10, <2>11, <2>12 DEF Queues
<1>2. ASSUME NEW f \in Wakes[x], Post(x, f) PROVE Queues'
  <2>1. f \in Futures /\ "mark" \in ThreadPcs
    BY Sized DEF Futures, ThreadPcs
  <2>2. /\ thread'[x].pc = "mark" /\ thread'[x].task = f
        /\ \A y \in Threads : y # x => thread'[y] = thread[y]
    BY <1>2, <2>1, Sent, Zenon DEF Post
  <2>3. f \in Tasks => future[f] # "unborn"
    BY <1>2 DEF Post, Queues, Born
  <2> QED
    BY <1>2, <2>2, <2>3, NotPushing, Zenon DEF Post, At
<1>3. CASE Mark(x)
  <2>0. PICK f \in Futures : f = thread[x].task
    BY DEF Typed
  <2>1. CASE f = Root
    <3>1. Step(x, "ring") /\ "ring" \in ThreadPcs
      BY <1>3, <2>0, <2>1 DEF Mark, ThreadPcs
    <3>2. thread'[x].pc = "ring" /\ \A y \in Threads : y # x => thread'[y] = thread[y]
      BY <3>1, Stepped
    <3> QED
      BY <1>3, <2>0, <2>1, <3>2, NotPushing DEF Mark, At
  <2>2. CASE f # Root
    <3>1. f \in Tasks /\ future[f] # "unborn"
      BY <1>3, <2>0, <2>2 DEF Futures, Mark, Queues, Born
    <3>2. Step(x, IF Wins(state[f]) THEN "push" ELSE "idle") /\ {"push", "idle"} \subseteq ThreadPcs
      BY <1>3, <2>0, <2>2 DEF Mark, ThreadPcs
    <3>3. /\ thread'[x].pc = IF Wins(state[f]) THEN "push" ELSE "idle"
          /\ thread'[x].pc = "push" => thread'[x].task = f
          /\ \A y \in Threads : y # x => thread'[y] = thread[y]
      BY <2>0, <3>2, Stepped
    <3>4. /\ state' = [state EXCEPT ![f] = Scheduled(state[f])]
          /\ UNCHANGED <<future, inbox, ready, owner, handed>>
      BY <1>3, <2>0, <2>2 DEF Mark
    <3>5. \A u \in Tasks : Word(u)'
      BY <3>1, <3>4, WakeWord, Zenon DEF Polling
    <3>6. state[f] \in SUBSET BITS /\ state'[f] = Scheduled(state[f])
      BY <3>1, <3>4 DEF Typed
    <3>7. \A u \in Tasks : u # f => state'[u] = state[u]
      BY <3>4 DEF Typed
    <3>8. \A u \in Tasks : PushersOf(u)' =
                             IF Wins(state[f]) /\ u = f THEN PushersOf(u) \cup {x} ELSE PushersOf(u)
      <4>1. \A u \in Tasks : x \notin PushersOf(u)
        BY <1>3, Zenon DEF Mark, PushersOf, At
      <4> SUFFICES ASSUME NEW u \in Tasks
                   PROVE  PushersOf(u)' = IF Wins(state[f]) /\ u = f THEN PushersOf(u) \cup {x}
                                          ELSE PushersOf(u)
        OBVIOUS
      <4>2. PushersOf(u)' = (PushersOf(u) \ {x})
                              \cup (IF thread'[x].pc = "push" /\ thread'[x].task = u THEN {x} ELSE {})
        BY <3>3, PusherSteps
      <4>3. CASE Wins(state[f]) /\ u = f
        BY <3>3, <4>1, <4>2, <4>3
      <4>4. CASE ~(Wins(state[f]) /\ u = f)
        BY <3>3, <4>1, <4>2, <4>4
      <4> QED
        BY <4>3, <4>4
    <3>9. \A u \in Tasks : Once(u)'
      <4>1. CASE Wins(state[f])
        <5>1. "SCHEDULED" \notin state[f] /\ "SCHEDULED" \in state'[f]
          BY <3>6, <4>1, Winning
        <5>2. \A u \in Tasks : InboxOf(u)' = InboxOf(u) /\ ReadyOf(u)' = ReadyOf(u)
          BY <3>4 DEF InboxOf, ReadyOf
        <5>3. Once(f)'
          <6>1. PushersOf(f) = {} /\ InboxOf(f) = {} /\ ReadyOf(f) = {}
            BY <3>1, <5>1, Zenon DEF Queues, Once
          <6>2. PushersOf(f)' = {x} /\ InboxOf(f)' = {} /\ ReadyOf(f)' = {}
            BY <3>1, <3>8, <4>1, <5>2, <6>1
          <6> QED
            BY <5>1, <6>2 DEF Once, Lone
        <5>4. ASSUME NEW u \in Tasks, u # f PROVE Once(u)'
          <6>1. Once(u)
            BY DEF Queues
          <6>2. /\ PushersOf(u)' = PushersOf(u) /\ state'[u] = state[u]
                /\ InboxOf(u)' = InboxOf(u) /\ ReadyOf(u)' = ReadyOf(u)
            BY <3>7, <3>8, <5>2, <5>4
          <6> QED
            BY <6>1, <6>2, Zenon DEF Once, Lone
        <5> QED
          BY <5>3, <5>4
      <4>2. CASE ~Wins(state[f])
        <5>1. \A u \in Tasks : "SCHEDULED" \in state'[u] <=> "SCHEDULED" \in state[u]
          BY <3>6, <3>7, <4>2, Winning
        <5> QED
          BY <3>4, <3>8, <4>2, <5>1, OnceStays DEF Queues
      <4> QED
        BY <4>1, <4>2
    <3>10. OnLevel' /\ Born'
      BY <3>3, <3>4, Zenon DEF Queues, OnLevel, Born, At
    <3> QED
      BY <3>5, <3>9, <3>10 DEF Queues
  <2> QED
    BY <2>1, <2>2
<1>4. CASE PushInbox(x)
  <2>0. PICK t \in Tasks : t = thread[x].task
    BY <1>4 DEF PushInbox, Typed
  <2>1. t \in Tasks /\ Push(t) /\ UNCHANGED <<state, future, ready, owner, handed>>
    BY <1>4, <2>0 DEF PushInbox
  <2>2. PICK p \in {"ring", "idle"} : Step(x, p)
    BY <1>4 DEF PushInbox
  <2>3. p \in ThreadPcs
    BY DEF ThreadPcs
  <2>4. thread'[x].pc = p /\ \A y \in Threads : y # x => thread'[y] = thread[y]
    BY <2>2, <2>3, Stepped
  <2>5. /\ OnLevel'
        /\ InboxOf(t)' = InboxOf(t) \cup {Len(inbox[Priority[t]]) + 1}
        /\ \A u \in Tasks : u # t => InboxOf(u)' = InboxOf(u)
    BY <2>1, InboxEnd DEF Queues
  <2>6. x \in PushersOf(t) /\ \A u \in Tasks : u # t => x \notin PushersOf(u)
    BY <1>4, <2>0 DEF PushInbox, PushersOf
  <2>7. \A u \in Tasks : PushersOf(u)' = PushersOf(u) \ {x}
    BY <2>2, <2>4, PusherSteps
  <2>8. \A u \in Tasks : ReadyOf(u)' = ReadyOf(u)
    BY <2>1 DEF ReadyOf
  <2>9. Once(t)'
    <3>1. PushersOf(t) = {x} /\ InboxOf(t) = {} /\ ReadyOf(t) = {} /\ "SCHEDULED" \in state[t]
      <4>1. Once(t) /\ x \in PushersOf(t)
        BY <2>1, <2>6 DEF Queues
      <4>2. Lone(PushersOf(t)) /\ InboxOf(t) = {} /\ ReadyOf(t) = {} /\ "SCHEDULED" \in state[t]
        BY <4>1 DEF Once
      <4>3. PushersOf(t) = {x}
        BY <4>1, <4>2 DEF Lone
      <4> QED
        BY <4>2, <4>3
    <3> QED
      BY <2>1, <2>5, <2>7, <2>8, <3>1 DEF Once, Lone
  <2>10. ASSUME NEW u \in Tasks, u # t PROVE Once(u)'
    <3>1. PushersOf(u)' = PushersOf(u) /\ InboxOf(u)' = InboxOf(u)
      BY <2>5, <2>6, <2>7, <2>10
    <3>2. Once(u) /\ ReadyOf(u)' = ReadyOf(u) /\ state'[u] = state[u]
      BY <2>1, <2>8 DEF Queues
    <3> QED
      BY <3>1, <3>2, Zenon DEF Once, Lone
  <2>11. \A u \in Tasks : Word(u)'
    BY <2>1, <2>8 DEF Queues, Word, Finishing, Polling
  <2>12. Born'
    BY <2>1, <2>2, <2>4 DEF Queues, Born, At
  <2> QED
    BY <2>5, <2>9, <2>10, <2>11, <2>12 DEF Queues
<1>5. CASE Ring(x) \/ Ipi(x)
  <2>1. PICK p \in {"ipi", "idle"} : Step(x, p)
    BY <1>5 DEF Ring, Ipi
  <2>2. p \in ThreadPcs
    BY DEF ThreadPcs
  <2>3. thread'[x].pc = p /\ \A y \in Threads : y # x => thread'[y] = thread[y]
    BY <2>1, <2>2, Stepped
  <2> QED
    BY <1>5, <2>1, <2>3, NotPushing, Zenon DEF Ring, Ipi, At
<1> QED
  BY <1>1, <1>2, <1>3, <1>4, <1>5 DEF ThreadTurn, Continue

-----------------------------------------------------------------------------
(* The owner's steps and the queues. *)

\* A step of the owner that touches no task keeps the queues.
LEMMA OwnerQuiet ==
  ASSUME Typed, Queues, UNCHANGED <<state, future, inbox, ready, thread>>,
         handed' \subseteq handed \cup {Root}, (Polling' <=> Polling), Polling => owner'.cur = owner.cur,
         owner'.pc = "finish" <=> owner.pc = "finish"
  PROVE  Queues'
<1>1. \A u \in Tasks : PushersOf(u)' = PushersOf(u) /\ ReadyOf(u)' = ReadyOf(u)
  BY DEF PushersOf, ReadyOf, At
<1>2. \A u \in Tasks : Once(u)'
  BY <1>1, OnceStays DEF Queues
<1>3. \A u \in Tasks : Word(u)'
  <2> SUFFICES ASSUME NEW u \in Tasks PROVE Word(u)'
    OBVIOUS
  <2>1. Word(u)
    BY DEF Queues
  <2>2. Finishing(u)' <=> Finishing(u)
    BY DEF Finishing, Polling
  <2>3. (Polling /\ owner.cur = u)' <=> Polling /\ owner.cur = u
    OBVIOUS
  <2> QED
    BY <1>1, <2>1, <2>2, <2>3 DEF Word
<1>4. OnLevel' /\ Born'
  BY Sized DEF Queues, OnLevel, Born, At
<1> QED
  BY <1>2, <1>3, <1>4 DEF Queues

\* A wake by the owner, from the timers or from a poll.
LEMMA OwnerWakes ==
  ASSUME Typed, Queues, NEW t \in Tasks, future[t] # "unborn",
         state' = [state EXCEPT ![t] = Scheduled(state[t])],
         IF Wins(state[t]) THEN QueueHere(t) ELSE UNCHANGED <<inbox, doorbell>>,
         UNCHANGED <<future, ready, thread>>, owner'.cur = owner.cur, Polling' <=> Polling,
         owner'.pc = "finish" <=> owner.pc = "finish",
         \A u \in handed' \cap Tasks : future[u] # "unborn"
  PROVE  Queues'
<1>1. OnLevel' /\ \A u \in Tasks : Once(u)'
  BY WakeOnce, Zenon DEF Queues
<1>2. \A u \in Tasks : Word(u)'
  BY WakeWord, ZenonT(40)
<1>3. Born'
  BY Zenon DEF Queues, Born, At
<1> QED
  BY <1>1, <1>2, <1>3, ZenonT(40) DEF Queues

\* The places of a concatenation.
LEMMA Concatenated ==
  ASSUME NEW T, NEW r \in Seq(T), NEW q \in Seq(T)
  PROVE  /\ r \o q \in Seq(T) /\ Len(r \o q) = Len(r) + Len(q)
         /\ DOMAIN (r \o q) = 1 .. Len(r) + Len(q) /\ Len(r) \in Nat /\ Len(q) \in Nat
         /\ \A i \in 1 .. Len(r) : (r \o q)[i] = r[i]
         /\ \A i \in 1 .. Len(q) : (r \o q)[Len(r) + i] = q[i]
         /\ DOMAIN r = 1 .. Len(r) /\ DOMAIN q = 1 .. Len(q)
<1>1. /\ r \o q \in Seq(T) /\ Len(r \o q) = Len(r) + Len(q)
      /\ Len(r) \in Nat /\ Len(q) \in Nat
      /\ DOMAIN r = 1 .. Len(r) /\ DOMAIN q = 1 .. Len(q)
  OBVIOUS
<1>2. DOMAIN (r \o q) = 1 .. Len(r) + Len(q)
  BY <1>1
<1>3. \A i \in 1 .. Len(r) : (r \o q)[i] = r[i]
  BY <1>1
<1>4. ASSUME NEW i \in 1 .. Len(q) PROVE (r \o q)[Len(r) + i] = q[i]
  BY <1>1
<1> QED
  BY <1>1, <1>2, <1>3, <1>4, Zenon

\* collect moves the tasks of one inbox to the ready queue of its level, all of
\* them in the table by then.
LEMMA CollectQueued ==
  ASSUME Typed, Queues, Collect
  PROVE  Queues'
<1>0. PICK l \in Levels : l = owner.at
  BY DEF Typed
<1> DEFINE q == inbox[l]
           r == ready[l]
           new == Unheld(q)
<1>1. q \in Seq(Tasks) /\ r \in Seq(Tasks)
  BY DEF Typed
<1>2. /\ inbox' = [inbox EXCEPT ![l] = <<>>]
      /\ ready' = [ready EXCEPT ![l] = r \o q]
      /\ state' = [t \in Tasks |-> state[t] \cup (IF t \in Range(new) THEN {"HELD"} ELSE {})]
      /\ UNCHANGED <<future, thread, handed>>
      /\ owner.pc = "collect"
  BY <1>0 DEF Collect, OwnerAt
<1>3. owner'.pc \in {"collect", "take"}
  BY DEF Collect, OwnerAt, Typed
<1>4. \A i \in 1 .. Len(q) : Priority[q[i]] = l /\ i \in InboxOf(q[i])
  BY <1>1 DEF Queues, OnLevel, InboxOf
<1>5. Distinct(q)
  <2> SUFFICES ASSUME NEW i \in 1 .. Len(q), NEW j \in 1 .. Len(q), q[i] = q[j] PROVE i = j
    BY DEF Distinct
  <2>1. q[i] \in Tasks /\ i \in InboxOf(q[i]) /\ j \in InboxOf(q[i])
    BY <1>1, <1>4
  <2> QED
    BY <2>1 DEF Queues, Once, Lone
<1>6. \A t \in Tasks : t \in Range(new) <=> (\E i \in 1 .. Len(q) : q[i] = t) /\ "HELD" \notin state[t]
  <2> HIDE DEF q
  <2>1. new \in Seq(Tasks) /\ \A t \in Tasks : (\E k \in 1 .. Len(new) : new[k] = t)
                               <=> (\E j \in 1 .. Len(q) : q[j] = t) /\ "HELD" \notin state[t]
    BY <1>1, <1>5, UnheldExact
  <2> HIDE DEF new
  <2>2. \A t \in Tasks : t \in Range(new) <=> \E k \in 1 .. Len(new) : new[k] = t
    BY <2>1 DEF Range
  <2> QED
    BY <2>1, <2>2
<1> HIDE DEF new
<1>7. /\ inbox'[l] = <<>> /\ ready'[l] = r \o q
      /\ \A k \in Levels : k # l => inbox'[k] = inbox[k] /\ ready'[k] = ready[k]
  BY <1>2 DEF Typed
<1>8. /\ DOMAIN ready'[l] = 1 .. Len(r) + Len(q) /\ Len(r) \in Nat /\ Len(q) \in Nat
      /\ \A i \in 1 .. Len(r) : ready'[l][i] = r[i]
      /\ \A i \in 1 .. Len(q) : ready'[l][Len(r) + i] = q[i]
      /\ DOMAIN r = 1 .. Len(r) /\ DOMAIN q = 1 .. Len(q)
  <2> HIDE DEF r, q
  <2>1. /\ DOMAIN (r \o q) = 1 .. Len(r) + Len(q) /\ Len(r) \in Nat /\ Len(q) \in Nat
        /\ \A i \in 1 .. Len(r) : (r \o q)[i] = r[i]
        /\ \A i \in 1 .. Len(q) : (r \o q)[Len(r) + i] = q[i]
        /\ DOMAIN r = 1 .. Len(r) /\ DOMAIN q = 1 .. Len(q)
    BY <1>1, Concatenated
  <2> QED
    BY <1>7, <2>1, Zenon
<1> HIDE DEF q, r
<1>9. \A i \in DOMAIN ready'[l] : i \in 1 .. Len(r) \/ \E j \in 1 .. Len(q) : i = Len(r) + j
  <2> SUFFICES ASSUME NEW i \in 1 .. Len(r) + Len(q), i \notin 1 .. Len(r)
               PROVE  \E j \in 1 .. Len(q) : i = Len(r) + j
    BY <1>8
  <2>1. i - Len(r) \in 1 .. Len(q) /\ i = Len(r) + (i - Len(r))
    BY <1>8
  <2> QED
    BY <2>1, Zenon
<1>10. OnLevel'
  <2> SUFFICES ASSUME NEW k \in Levels
               PROVE  /\ \A i \in DOMAIN inbox'[k] : Priority[inbox'[k][i]] = k
                      /\ \A i \in DOMAIN ready'[k] : Priority[ready'[k][i]] = k
    BY DEF OnLevel
  <2>1. CASE k = l
    <3>1. \A i \in 1 .. Len(r) : Priority[r[i]] = l
      BY <1>8 DEF Queues, OnLevel, r
    <3>2. DOMAIN inbox'[l] = {}
      BY <1>7
    <3>3. ASSUME NEW i \in DOMAIN ready'[l] PROVE Priority[ready'[l][i]] = l
      <4>1. CASE i \in 1 .. Len(r)
        BY <1>8, <3>1, <4>1
      <4>2. ASSUME NEW j \in 1 .. Len(q), i = Len(r) + j PROVE Priority[ready'[l][i]] = l
        BY <1>4, <1>8, <4>2
      <4> QED
        BY <1>9, <4>1, <4>2
    <3> QED
      BY <2>1, <3>2, <3>3
  <2>2. CASE k # l
    BY <1>7, <2>2 DEF Queues, OnLevel
  <2> QED
    BY <2>1, <2>2
<1>11. \A u \in Tasks : Priority[u] # l =>
         InboxOf(u)' = InboxOf(u) /\ ReadyOf(u)' = ReadyOf(u)
  BY <1>7, Sized DEF InboxOf, ReadyOf
<1>12. ASSUME NEW u \in Tasks, Priority[u] = l
       PROVE  /\ InboxOf(u)' = {}
              /\ ReadyOf(u)' = ReadyOf(u) \cup {Len(r) + i : i \in InboxOf(u)}
  <2>1. InboxOf(u)' = {}
    BY <1>7, <1>12 DEF InboxOf
  <2>2. /\ InboxOf(u) = {i \in 1 .. Len(q) : q[i] = u}
        /\ ReadyOf(u) = {i \in 1 .. Len(r) : r[i] = u}
        /\ ReadyOf(u)' = {i \in DOMAIN ready'[l] : ready'[l][i] = u}
    BY <1>8, <1>12, Zenon DEF InboxOf, ReadyOf, q, r
  <2>3. ReadyOf(u)' \subseteq ReadyOf(u) \cup {Len(r) + i : i \in InboxOf(u)}
    <3> SUFFICES ASSUME NEW i \in DOMAIN ready'[l], ready'[l][i] = u
                 PROVE  i \in ReadyOf(u) \cup {Len(r) + k : k \in InboxOf(u)}
      BY <2>2
    <3>1. CASE i \in 1 .. Len(r)
      BY <1>8, <2>2, <3>1
    <3>2. ASSUME NEW j \in 1 .. Len(q), i = Len(r) + j
          PROVE  i \in ReadyOf(u) \cup {Len(r) + k : k \in InboxOf(u)}
      <4>1. j \in InboxOf(u)
        BY <1>8, <2>2, <3>2
      <4> QED
        BY <3>2, <4>1
    <3> QED
      BY <1>9, <3>1, <3>2
  <2>4. \A i \in ReadyOf(u) : i \in ReadyOf(u)'
    BY <1>8, <2>2
  <2>5. \A i \in InboxOf(u) : Len(r) + i \in ReadyOf(u)'
    <3> SUFFICES ASSUME NEW i \in 1 .. Len(q), q[i] = u PROVE Len(r) + i \in ReadyOf(u)'
      BY <2>2
    <3>1. Len(r) + i \in 1 .. Len(r) + Len(q)
      BY <1>8
    <3> QED
      BY <1>8, <2>2, <3>1
  <2> QED
    BY <2>1, <2>3, <2>4, <2>5
<1>13. \A u \in Tasks : /\ "HELD" \in state'[u] <=> "HELD" \in state[u] \/ u \in Range(new)
                        /\ \A b \in BITS : b # "HELD" => (b \in state'[u] <=> b \in state[u])
                        /\ state'[u] = {} => state[u] = {}
                        /\ state'[u] # state[u] => u \in Range(new)
  BY <1>2 DEF Typed
<1>14. \A u \in Tasks : PushersOf(u)' = PushersOf(u)
  BY <1>2 DEF PushersOf, At
<1>15. ASSUME NEW u \in Tasks PROVE Once(u)'
  <2>1. Once(u)
    BY DEF Queues
  <2>2. "SCHEDULED" \in state'[u] <=> "SCHEDULED" \in state[u]
    BY <1>13 DEF BITS
  <2>3. CASE Priority[u] # l
    BY <1>11, <1>14, <2>1, <2>2, <2>3, ZenonT(40) DEF Once, Lone
  <2>4. CASE Priority[u] = l
    <3>1. /\ InboxOf(u)' = {}
          /\ ReadyOf(u)' = ReadyOf(u) \cup {Len(r) + i : i \in InboxOf(u)}
      BY <1>12, <2>4, ZenonT(40)
    <3> QED
      BY <1>14, <2>1, <2>2, <3>1, ZenonT(40) DEF Once, Lone
  <2> QED
    BY <2>3, <2>4
<1>16. ASSUME NEW u \in Tasks PROVE Word(u)'
  <2>1. Word(u)
    BY DEF Queues
  <2>2. ~Polling /\ ~Polling' /\ ~Finishing(u) /\ ~Finishing(u)'
    BY <1>2, <1>3 DEF Polling, Finishing
  <2>3. u \in Range(new) => "SCHEDULED" \in state[u]
    <3> SUFFICES ASSUME u \in Range(new) PROVE InboxOf(u) # {}
      BY DEF Queues, Once
    <3>1. PICK i \in 1 .. Len(q) : q[i] = u
      BY <1>6
    <3> QED
      BY <1>4, <3>1
  <2>4. ReadyOf(u)' # {} => "HELD" \in state'[u]
    <3>1. CASE ReadyOf(u) # {}
      BY <1>13, <2>1, <3>1, ZenonT(40) DEF Word
    <3>2. CASE ReadyOf(u) = {} /\ ReadyOf(u)' # {}
      <4>1. Priority[u] = l /\ InboxOf(u) # {}
        BY <1>11, <1>12, <3>2
      <4>2. \E i \in 1 .. Len(q) : q[i] = u
        BY <1>8, <4>1 DEF InboxOf, q
      <4> QED
        BY <1>6, <1>13, <4>2
    <3> QED
      BY <3>1, <3>2
  <2>5. \A b \in {"SCHEDULED", "RUNNING", "DONE"} : b \in state'[u] <=> b \in state[u]
    BY <1>13 DEF BITS
  <2>6. "DONE" \in state'[u] => "HELD" \notin state'[u]
    BY <1>13, <2>1, <2>3, <2>5 DEF Word
  <2>7. future'[u] = "unborn" => state'[u] = {}
    <3> SUFFICES ASSUME future[u] = "unborn" PROVE state'[u] = {}
      BY <1>2
    <3>1. state[u] = {}
      BY <2>1 DEF Word
    <3> QED
      BY <1>13, <2>3, <3>1
  <2> QED
    BY <1>2, <2>1, <2>2, <2>4, <2>5, <2>6, <2>7, Zenon DEF Word
<1>17. Born'
  BY <1>2 DEF Queues, Born, At
<1> QED
  BY <1>10, <1>15, <1>16, <1>17 DEF Queues

\* take gives the poll the only place that held its task.
LEMMA TakeQueued ==
  ASSUME Typed, Queues, Take
  PROVE  Queues'
<1>0. PICK l \in Levels : l = LevelAt(Serving)
  BY Serves DEF Take
<1> DEFINE r == ready[l]
<1>1. r \in Seq(Tasks) \ {<<>>}
  BY <1>0, Serves DEF Take
<1>2. PICK t \in Tasks : t = Head(r)
  BY <1>1
<1>3. /\ ready' = [ready EXCEPT ![l] = Tail(r)]
      /\ state' = [state EXCEPT ![t] = (state[t] \ {"SCHEDULED"}) \cup {"RUNNING"}]
      /\ owner' = [owner EXCEPT !.cur = t, !.ran = TRUE, !.pc = "poll"]
      /\ owner.pc = "take"
      /\ UNCHANGED <<future, inbox, thread, handed>>
  BY <1>0, <1>2 DEF Take, OwnerAt
<1>4. /\ ready'[l] = Tail(r)
      /\ \A k \in Levels : k # l => ready'[k] = ready[k]
  BY <1>3 DEF Typed
<1>5. /\ DOMAIN r = 1 .. Len(r) /\ Len(r) \in Nat \ {0} /\ r[1] = t
      /\ DOMAIN ready'[l] = 1 .. Len(r) - 1
      /\ \A i \in 1 .. Len(r) - 1 : ready'[l][i] = r[i + 1]
  BY <1>1, <1>2, <1>4
<1>6. Priority[t] = l
  BY <1>5 DEF Queues, OnLevel
<1>7. 1 \in ReadyOf(t)
  BY <1>5, <1>6 DEF ReadyOf
<1>8. /\ PushersOf(t) = {} /\ InboxOf(t) = {} /\ ReadyOf(t) = {1}
      /\ "SCHEDULED" \in state[t]
  BY <1>7 DEF Queues, Once, Lone
<1> HIDE DEF r
<1>9. OnLevel'
  <2> SUFFICES ASSUME NEW k \in Levels
               PROVE  /\ \A i \in DOMAIN inbox'[k] : Priority[inbox'[k][i]] = k
                      /\ \A i \in DOMAIN ready'[k] : Priority[ready'[k][i]] = k
    BY DEF OnLevel
  <2>1. \A i \in DOMAIN inbox'[k] : Priority[inbox'[k][i]] = k
    BY <1>3 DEF Queues, OnLevel
  <2>2. CASE k = l
    <3>1. \A i \in 1 .. Len(r) : Priority[r[i]] = l
      BY <1>5 DEF Queues, OnLevel, r
    <3>2. \A i \in 1 .. Len(r) - 1 : i + 1 \in 1 .. Len(r)
      BY <1>5
    <3> QED
      BY <1>5, <2>1, <2>2, <3>1, <3>2
  <2>3. CASE k # l
    BY <1>4, <2>1, <2>3 DEF Queues, OnLevel
  <2> QED
    BY <2>2, <2>3
<1>10. \A u \in Tasks : PushersOf(u)' = PushersOf(u) /\ InboxOf(u)' = InboxOf(u)
  BY <1>3 DEF PushersOf, InboxOf, At
<1>11. \A u \in Tasks : Priority[u] # l => ReadyOf(u)' = ReadyOf(u)
  BY <1>4, Sized DEF ReadyOf
<1>12. ASSUME NEW u \in Tasks, Priority[u] = l
       PROVE  ReadyOf(u)' = {i \in 1 .. Len(r) - 1 : i + 1 \in ReadyOf(u)}
  <2>1. \A i \in 1 .. Len(r) - 1 : i + 1 \in 1 .. Len(r)
    BY <1>5
  <2>2. ReadyOf(u) = {i \in 1 .. Len(r) : r[i] = u}
    BY <1>5, <1>12 DEF ReadyOf, r
  <2>3. ReadyOf(u)' = {i \in 1 .. Len(r) - 1 : r[i + 1] = u}
    BY <1>5, <1>12 DEF ReadyOf
  <2> QED
    BY <2>1, <2>2, <2>3
<1>13. /\ state'[t] = (state[t] \ {"SCHEDULED"}) \cup {"RUNNING"}
       /\ \A u \in Tasks : u # t => state'[u] = state[u]
  BY <1>3 DEF Typed
<1>14. ReadyOf(t)' = {}
  BY <1>5, <1>6, <1>8, <1>12
<1>15. ASSUME NEW u \in Tasks, u # t
       PROVE  Lone(ReadyOf(u)') /\ (ReadyOf(u)' = {} <=> ReadyOf(u) = {})
  <2>1. Lone(ReadyOf(u))
    BY DEF Queues, Once
  <2>2. CASE Priority[u] # l
    BY <1>11, <2>1, <2>2
  <2>3. CASE Priority[u] = l
    <3>1. ReadyOf(u)' = {i \in 1 .. Len(r) - 1 : i + 1 \in ReadyOf(u)}
      BY <1>12, <2>3
    <3>2. Lone(ReadyOf(u)')
      <4>1. \A a, b \in ReadyOf(u)' : a + 1 = b + 1 /\ a \in Nat /\ b \in Nat
        BY <1>5, <2>1, <3>1 DEF Lone
      <4> QED
        BY <4>1 DEF Lone
    <3>3. ASSUME NEW i \in ReadyOf(u) PROVE i - 1 \in ReadyOf(u)'
      <4>1. i \in 1 .. Len(r) /\ i # 1
        BY <1>5, <1>15, <2>3 DEF ReadyOf, r
      <4>2. i - 1 \in 1 .. Len(r) - 1 /\ (i - 1) + 1 = i
        BY <1>5, <4>1
      <4> QED
        BY <3>1, <4>2
    <3> QED
      BY <3>1, <3>2, <3>3, Zenon
  <2> QED
    BY <2>2, <2>3
<1>16. ASSUME NEW u \in Tasks PROVE Once(u)'
  <2>1. CASE u = t
    <3>1. PushersOf(u)' = {} /\ InboxOf(u)' = {} /\ ReadyOf(u)' = {}
      BY <1>8, <1>10, <1>14, <2>1, Zenon
    <3>2. "SCHEDULED" \notin state'[u]
      BY <1>13, <2>1
    <3> QED
      BY <3>1, <3>2 DEF Once, Lone
  <2>2. CASE u # t
    <3>1. Once(u) /\ Lone(ReadyOf(u)') /\ (ReadyOf(u)' = {} <=> ReadyOf(u) = {})
      BY <1>15, <2>2 DEF Queues
    <3> QED
      BY <1>10, <1>13, <2>2, <3>1, Zenon DEF Once, Lone
  <2> QED
    BY <2>1, <2>2
<1>17. Polling' /\ owner'.cur = t /\ ~Polling /\ owner'.pc = "poll"
  BY <1>3 DEF Typed, Polling
<1>18. ASSUME NEW u \in Tasks PROVE Word(u)'
  <2>1. Word(u) /\ ~Finishing(u) /\ ~Finishing(u)'
    BY <1>3, <1>17 DEF Queues, Finishing
  <2>2. CASE u = t
    <3>1. future[t] = "some" /\ "DONE" \notin state[t] /\ "HELD" \in state[t]
      BY <1>8, <2>1, <2>2 DEF Word
    <3> QED
      BY <1>3, <1>13, <1>14, <1>17, <2>1, <2>2, <3>1 DEF Word
  <2>3. CASE u # t
    <3>1. ReadyOf(u)' = {} <=> ReadyOf(u) = {}
      BY <1>15, <2>3
    <3> QED
      BY <1>3, <1>13, <1>17, <2>1, <2>3, <3>1 DEF Word
  <2> QED
    BY <2>2, <2>3
<1>19. Born'
  BY <1>3 DEF Queues, Born, At
<1> QED
  BY <1>9, <1>16, <1>18, <1>19 DEF Queues

\* The end of a pending poll queues the task again if a wake came meanwhile.
LEMMA PendingQueued ==
  ASSUME Typed, Queues, Pending
  PROVE  Queues'
<1>0. PICK t \in Tasks : t = owner.cur
  BY DEF Typed, Pending, Polling, OwnerAt
<1>1. /\ state' = [state EXCEPT ![t] = Unpolled(state[t])]
      /\ IF "SCHEDULED" \in Unpolled(state[t]) THEN QueueHere(t) ELSE UNCHANGED <<inbox, doorbell>>
      /\ owner' = [owner EXCEPT !.pc = "collect", !.cur = Root]
      /\ owner.pc = "pending"
      /\ UNCHANGED <<future, ready, thread, handed>>
  BY <1>0 DEF Pending, OwnerAt, queues
<1>2. Polling /\ ~Polling' /\ \A u \in Tasks : ~Finishing(u) /\ ~Finishing(u)'
  BY <1>1 DEF Typed, Polling, Finishing
<1>3. state'[t] = Unpolled(state[t]) /\ \A u \in Tasks : u # t => state'[u] = state[u]
  BY <1>1 DEF Typed
<1>4. Word(t) /\ {"RUNNING", "HELD"} \subseteq state[t]
  <2>1. Word(t)
    BY DEF Queues
  <2> QED
    BY <1>0, <1>2, <2>1 DEF Word
<1>5. "SCHEDULED" \notin state[t] /\ "DONE" \notin state[t] /\ future[t] = "some"
  BY <1>2, <1>4 DEF Word, Typed
<1>6. /\ state'[t] \cap {"RUNNING", "DONE"} = {} /\ "HELD" \in state'[t]
  BY <1>3, <1>4, <1>5 DEF Unpolled
<1>7. OnLevel' /\ \A u \in Tasks : Once(u)'
  <2>1. CASE "SCHEDULED" \in Unpolled(state[t])
    <3>1. Push(t)
      BY <1>1, <2>1 DEF QueueHere
    <3> QED
      BY <1>1, <1>3, <1>5, <2>1, <3>1, QueuedHere DEF Queues
  <2>2. CASE "SCHEDULED" \notin Unpolled(state[t])
    <3>1. \A u \in Tasks : "SCHEDULED" \in state'[u] <=> "SCHEDULED" \in state[u]
      BY <1>3, <1>5, <2>2
    <3>2. UNCHANGED <<inbox, ready>>
      BY <1>1, <2>2
    <3>3. \A u \in Tasks : PushersOf(u)' = PushersOf(u)
      BY <1>1 DEF PushersOf, At
    <3>4. OnLevel'
      BY <3>2 DEF Queues, OnLevel
    <3> QED
      BY <3>1, <3>2, <3>3, <3>4, OnceStays DEF Queues
  <2> QED
    BY <2>1, <2>2
<1>8. \A u \in Tasks : ReadyOf(u)' = ReadyOf(u)
  BY <1>1 DEF ReadyOf
<1>9. ASSUME NEW u \in Tasks PROVE Word(u)'
  <2>1. Word(u)
    BY DEF Queues
  <2>2. CASE u = t
    BY <1>1, <1>2, <1>5, <1>6, <2>2 DEF Word
  <2>3. CASE u # t
    BY <1>0, <1>1, <1>2, <1>3, <1>8, <2>1, <2>3 DEF Word
  <2> QED
    BY <2>2, <2>3
<1>10. Born'
  BY <1>1 DEF Queues, Born, At
<1> QED
  BY <1>7, <1>9, <1>10 DEF Queues

\* The end of a finished poll leaves the task in no queue.
LEMMA FinishQueued ==
  ASSUME Typed, Queues, Finish
  PROVE  Queues'
<1>0. PICK t \in Tasks : t = owner.cur
  BY DEF Typed, Finish, Polling, OwnerAt
<1>1. /\ state' = [state EXCEPT ![t] = ((state[t] \ {"RUNNING", "WOKEN"}) \cup {"DONE"}) \ {"HELD"}]
      /\ owner' = [owner EXCEPT !.pc = "collect", !.cur = Root]
      /\ owner.pc = "finish"
      /\ UNCHANGED <<future, inbox, ready, thread, handed>>
  BY <1>0 DEF Finish, OwnerAt
<1>2. Polling /\ ~Polling' /\ \A u \in Tasks : (Finishing(u) <=> u = t) /\ ~Finishing(u)'
  BY <1>0, <1>1 DEF Typed, Polling, Finishing
<1>3. /\ state'[t] = ((state[t] \ {"RUNNING", "WOKEN"}) \cup {"DONE"}) \ {"HELD"}
      /\ \A u \in Tasks : u # t => state'[u] = state[u]
  BY <1>1 DEF Typed
<1>4. Word(t) /\ Once(t) /\ "RUNNING" \in state[t] /\ future[t] = "dropped"
  BY <1>0, <1>2 DEF Queues, Word
<1>5. "SCHEDULED" \notin state[t]
  BY <1>4, ZenonT(40) DEF Word
<1>6. ReadyOf(t) = {}
  BY <1>4, <1>5, Zenon DEF Once
<1>7. \A u \in Tasks : ReadyOf(u)' = ReadyOf(u) /\ PushersOf(u)' = PushersOf(u)
  BY <1>1 DEF ReadyOf, PushersOf, At
<1>8. \A u \in Tasks : Once(u)'
  <2>1. \A u \in Tasks : "SCHEDULED" \in state'[u] <=> "SCHEDULED" \in state[u]
    BY <1>3, <1>5
  <2> QED
    BY <1>1, <1>7, <2>1, OnceStays DEF Queues
<1>9. ASSUME NEW u \in Tasks PROVE Word(u)'
  <2>1. Word(u)
    BY DEF Queues
  <2>2. CASE u = t
    BY <1>1, <1>2, <1>3, <1>4, <1>5, <1>6, <1>7, <2>2 DEF Word
  <2>3. CASE u # t
    BY <1>0, <1>1, <1>2, <1>3, <1>7, <2>1, <2>3 DEF Word
  <2> QED
    BY <2>2, <2>3
<1>10. OnLevel' /\ Born'
  BY <1>1 DEF Queues, OnLevel, Born, At
<1> QED
  BY <1>8, <1>9, <1>10 DEF Queues

\* A poll ends with the future dropped or kept, and its waker handed out.
LEMMA PollQueued ==
  ASSUME Typed, Queues, NEW done \in BOOLEAN, Poll(done)
  PROVE  Queues'
<1>0. PICK t \in Tasks : t = owner.cur
  BY DEF Typed, Poll, Polling, OwnerAt
<1>1. /\ future' = [future EXCEPT ![t] = IF done THEN "dropped" ELSE future[t]]
      /\ owner' = [owner EXCEPT !.pc = IF done THEN "finish" ELSE "pending"]
      /\ owner.pc = "poll"
      /\ handed' = handed \cup {t}
      /\ UNCHANGED <<state, inbox, ready, thread>>
  BY <1>0 DEF Poll, OwnerAt, Owner, queues
<1>2. /\ Polling /\ Polling' /\ owner'.cur = t
      /\ \A u \in Tasks : ~Finishing(u) /\ (Finishing(u)' <=> done /\ u = t)
  BY <1>0, <1>1 DEF Typed, Polling, Finishing
<1>3. /\ future'[t] = IF done THEN "dropped" ELSE future[t]
      /\ \A u \in Tasks : u # t => future'[u] = future[u]
  BY <1>1 DEF Typed
<1>4. Word(t) /\ {"RUNNING", "HELD"} \subseteq state[t]
  BY <1>0, <1>2, ZenonT(40) DEF Queues, Word
<1>5. "SCHEDULED" \notin state[t] /\ "DONE" \notin state[t] /\ future[t] = "some"
  BY <1>2, <1>4 DEF Word, Typed
<1>6. \A u \in Tasks : ReadyOf(u)' = ReadyOf(u) /\ PushersOf(u)' = PushersOf(u)
  BY <1>1 DEF ReadyOf, PushersOf, At
<1>7. \A u \in Tasks : Once(u)'
  BY <1>1, <1>6, OnceStays DEF Queues
<1>8. ASSUME NEW u \in Tasks PROVE Word(u)'
  <2>1. Word(u)
    BY DEF Queues
  <2>2. CASE u = t
    BY <1>1, <1>2, <1>3, <1>4, <1>5, <2>2 DEF Word
  <2>3. CASE u # t
    BY <1>0, <1>1, <1>2, <1>3, <1>6, <2>1, <2>3 DEF Word
  <2> QED
    BY <2>2, <2>3
<1>9. OnLevel' /\ Born'
  BY <1>1, <1>3, <1>5 DEF Queues, OnLevel, Born, At
<1> QED
  BY <1>7, <1>8, <1>9 DEF Queues

\* The owner's steps keep the queues exact.
LEMMA OwnerQueued ==
  ASSUME Typed, Queues, OwnerTurn
  PROVE  Queues'
<1> USE DEF queues, Owner, OwnerAt
<1>0. owner \in [pc : OwnerPcs, cur : Futures, ran : BOOLEAN, at : Levels]
  BY DEF Typed
<1>1. CASE RootAnswered \/ RootPoll \/ TickIdle \/ TakeNone \/ CheckRung \/ CheckPending \/ Park
  <2>1. ~Polling /\ ~Polling' /\ owner.pc # "finish" /\ owner'.pc # "finish"
    BY <1>0, <1>1, Zenon
    DEF RootAnswered, RootPoll, TickIdle, TakeNone, CheckRung, CheckPending, Park, Polling
  <2>2. /\ UNCHANGED <<state, future, inbox, ready, thread>>
        /\ handed' \subseteq handed \cup {Root}
    BY <1>1 DEF RootAnswered, RootPoll, TickIdle, TakeNone, CheckRung, CheckPending, Park
  <2> QED
    BY <2>1, <2>2, OwnerQuiet
<1>2. ASSUME NEW t \in Sleepers, TickDue(t) PROVE Queues'
  <2>1. t \in Tasks /\ future[t] # "unborn"
    BY <1>2, Sized DEF TickDue
  <2>2. ~Polling /\ ~Polling' /\ owner'.cur = owner.cur /\ owner.pc # "finish" /\ owner'.pc # "finish"
    BY <1>0, <1>2 DEF TickDue, Polling
  <2>3. \A u \in handed' \cap Tasks : future[u] # "unborn"
    BY <1>2 DEF TickDue, Queues, Born
  <2> QED
    BY <1>2, <2>1, <2>2, <2>3, OwnerWakes, Zenon DEF TickDue, WakeHere
<1>3. ASSUME NEW t \in Tasks, PollWaking(t) PROVE Queues'
  <2>1. future[t] # "unborn"
    BY <1>3 DEF PollWaking
  <2>2. Polling /\ Polling' /\ owner'.cur = owner.cur /\ owner.pc # "finish" /\ owner'.pc # "finish"
    BY <1>0, <1>3 DEF PollWaking, Polling
  <2>3. owner.cur \in Tasks /\ future[owner.cur] # "unborn"
    BY <2>2 DEF Typed, Queues, Word
  <2>4. \A u \in handed' \cap Tasks : future[u] # "unborn"
    BY <1>3, <2>3 DEF PollWaking, Queues, Born
  <2> QED
    BY <1>3, <2>1, <2>2, <2>4, OwnerWakes, Zenon DEF PollWaking
<1>4. CASE Interrupt \/ TimerInterrupt
  <2>1. (Polling' <=> Polling) /\ owner'.cur = owner.cur /\ (owner'.pc = "finish" <=> owner.pc = "finish")
    BY <1>0, <1>4 DEF Interrupt, TimerInterrupt, Polling
  <2> QED
    BY <1>4, <2>1, OwnerQuiet DEF Interrupt, TimerInterrupt
<1> QED
  BY <1>1, <1>2, <1>3, <1>4, CollectQueued, TakeQueued, PendingQueued, FinishQueued, PollQueued
  DEF OwnerTurn, OwnerStep

-----------------------------------------------------------------------------
(* The task table. *)

\* The table and the slots are inverse to each other, and live counts the
\* futures that were not retired.
Unretired == {t \in Tasks : future[t] = "some" \/ Finishing(t)}

Table ==
  /\ tasks \in Seq(Tasks) /\ slot \in [Tasks -> 0 .. Capacity - 1]
  /\ \A i \in 1 .. Len(tasks) : "HELD" \in state[tasks[i]] /\ slot[tasks[i]] = i - 1
  /\ \A t \in Tasks : "HELD" \in state[t] => slot[t] + 1 \in 1 .. Len(tasks) /\ tasks[slot[t] + 1] = t
  /\ IsFiniteSet(Unretired) /\ live = Cardinality(Unretired) /\ live <= Capacity

Credited == credit \in 0 .. SLICE[level + 1]

IInv == Typed /\ Watch /\ Queues /\ Table /\ Credited

-----------------------------------------------------------------------------
(* Cardinalities. *)

\* The empty set has no element.
LEMMA CountNone == IsFiniteSet({}) /\ Cardinality({}) = 0
  BY FS_EmptySet

\* A finite set with a new element is one larger.
LEMMA CountMore ==
  ASSUME NEW S, NEW x, IsFiniteSet(S), x \notin S
  PROVE  /\ IsFiniteSet(S \cup {x}) /\ Cardinality(S) \in Nat
         /\ Cardinality(S \cup {x}) = Cardinality(S) + 1
  BY FS_AddElement, FS_CardinalityType

\* A finite set without one of its elements is one smaller.
LEMMA CountLess ==
  ASSUME NEW S, NEW x \in S, IsFiniteSet(S)
  PROVE  /\ IsFiniteSet(S \ {x}) /\ Cardinality(S) \in Nat
         /\ Cardinality(S \ {x}) = Cardinality(S) - 1
  BY FS_RemoveElement, FS_CardinalityType

\* The count of a set with no two elements.
LEMMA LoneCount ==
  ASSUME NEW S, Lone(S)
  PROVE  Cardinality(S) = IF S = {} THEN 0 ELSE 1
<1>1. CASE S = {}
  BY <1>1, FS_EmptySet
<1>2. CASE S # {}
  <2>1. PICK a \in S : TRUE
    BY <1>2
  <2>2. S = {a}
    BY <2>1 DEF Lone
  <2>3. Cardinality({a}) = 1
    BY FS_Singleton, Zenon
  <2> QED
    BY <1>2, <2>2, <2>3
<1> QED
  BY <1>1, <1>2

\* A list of distinct members of a finite set is no longer than the set is large.
LEMMA Fits ==
  ASSUME NEW T, NEW q \in Seq(T), Distinct(q), NEW S, IsFiniteSet(S),
         \A i \in 1 .. Len(q) : q[i] \in S
  PROVE  Len(q) <= Cardinality(S) /\ Cardinality(S) \in Nat
<1>1. Len(q) \in Nat /\ DOMAIN q = 1 .. Len(q)
  OBVIOUS
<1>2. q \in [1 .. Len(q) -> S]
  OBVIOUS
<1>3. q \in Injection(1 .. Len(q), S)
  BY <1>1, <1>2 DEF Injection, IsInjective, Distinct
<1>4. Cardinality(1 .. Len(q)) <= Cardinality(S)
  BY <1>3, FS_Injection
<1>5. Cardinality(1 .. Len(q)) = Len(q)
  BY <1>1, FS_Interval
<1>6. Cardinality(S) \in Nat
  BY FS_CardinalityType
<1> QED
  BY <1>4, <1>5, <1>6

-----------------------------------------------------------------------------
(* The table. *)

\* A task in the table was not retired.
LEMMA HeldLive ==
  ASSUME Typed, Queues
  PROVE  \A t \in Tasks : "HELD" \in state[t] => t \in Unretired
  BY ZenonT(40) DEF Typed, Queues, Word, Unretired

\* The table names no task twice.
LEMMA TableDistinct ==
  ASSUME Table
  PROVE  Distinct(tasks)
<1> SUFFICES ASSUME NEW i \in 1 .. Len(tasks), NEW j \in 1 .. Len(tasks), tasks[i] = tasks[j]
             PROVE  i = j
  BY DEF Distinct
<1>1. i - 1 = j - 1 /\ i \in Int /\ j \in Int
  BY DEF Table
<1> QED
  BY <1>1

\* A step that neither holds nor retires a task keeps the table.
LEMMA TableStays ==
  ASSUME Typed, Table, UNCHANGED <<tasks, slot, live>>, Unretired' = Unretired,
         \A u \in Tasks : "HELD" \in state'[u] <=> "HELD" \in state[u]
  PROVE  Table'
<1>1. \A i \in 1 .. Len(tasks) : tasks[i] \in Tasks
  BY DEF Table
<1>2. \A i \in 1 .. Len(tasks') : "HELD" \in state'[tasks'[i]] /\ slot'[tasks'[i]] = i - 1
  BY <1>1 DEF Table
<1>3. \A t \in Tasks : "HELD" \in state'[t]
                         => slot'[t] + 1 \in 1 .. Len(tasks') /\ tasks'[slot'[t] + 1] = t
  BY DEF Table
<1> QED
  BY <1>2, <1>3 DEF Table

\* A wake neither holds a task nor lets it go.
LEMMA ScheduledHolds ==
  ASSUME Typed, NEW t \in Tasks, state' = [state EXCEPT ![t] = Scheduled(state[t])]
  PROVE  \A u \in Tasks : "HELD" \in state'[u] <=> "HELD" \in state[u]
  BY DEF Typed, Scheduled

\* The steps of the other cores: only a spawn counts.
LEMMA ThreadsTable ==
  ASSUME Typed, Queues, Table, NEW x \in Threads, ThreadTurn(x)
  PROVE  Table'
<1> USE DEF local
<1>1. ASSUME NEW t \in Tasks, Spawn(x, t) PROVE Table'
  <2>1. /\ state' = [state EXCEPT ![t] = Scheduled(state[t])]
        /\ future' = [future EXCEPT ![t] = "some"]
        /\ future[t] = "unborn" /\ live < Capacity /\ live' = live + 1
        /\ UNCHANGED <<owner, tasks, slot>>
    BY <1>1 DEF Spawn, Room
  <2>2. \A u \in Tasks : "HELD" \in state'[u] <=> "HELD" \in state[u]
    BY <2>1, ScheduledHolds, Zenon
  <2>3. t \notin Unretired
    <3>1. Word(t)
      BY DEF Queues
    <3> QED
      BY <2>1, <3>1 DEF Unretired, Word
  <2>4. Unretired' = Unretired \cup {t}
    BY <2>1 DEF Unretired, Finishing, Typed
  <2>5. /\ IsFiniteSet(Unretired \cup {t})
        /\ Cardinality(Unretired \cup {t}) = Cardinality(Unretired) + 1
        /\ Cardinality(Unretired) \in Nat
    BY <2>3, CountMore DEF Table
  <2>6. IsFiniteSet(Unretired') /\ live' = Cardinality(Unretired') /\ live' <= Capacity
    BY <2>1, <2>4, <2>5, Sized DEF Table
  <2>7. \A i \in 1 .. Len(tasks) : tasks[i] \in Tasks
    <3>1. tasks \in Seq(Tasks)
      BY DEF Table
    <3> QED BY <3>1
  <2>8. \A i \in 1 .. Len(tasks') : "HELD" \in state'[tasks'[i]] /\ slot'[tasks'[i]] = i - 1
    BY <2>1, <2>2, <2>7 DEF Table
  <2>9. \A u \in Tasks : "HELD" \in state'[u]
                         => slot'[u] + 1 \in 1 .. Len(tasks') /\ tasks'[slot'[u] + 1] = u
    BY <2>1, <2>2 DEF Table
  <2> QED
    BY <2>1, <2>6, <2>8, <2>9 DEF Table
<1>2. ASSUME NEW f \in Wakes[x], Post(x, f) PROVE Table'
  <2>1. Unretired' = Unretired
    BY <1>2 DEF Post, Unretired, Finishing
  <2> QED
    BY <1>2, <2>1, TableStays DEF Post
<1>3. CASE Continue(x)
  <2>1. UNCHANGED <<tasks, slot, live, future, owner>>
    BY <1>3 DEF Continue, Mark, PushInbox, Ring, Ipi
  <2>2. Unretired' = Unretired
    BY <2>1 DEF Unretired, Finishing
  <2>3. \A u \in Tasks : "HELD" \in state'[u] <=> "HELD" \in state[u]
    <3>1. CASE Mark(x) /\ thread[x].task # Root
      <4>1. thread[x].task \in Tasks
        BY <3>1 DEF Typed, Futures
      <4>2. state' = [state EXCEPT ![thread[x].task] = Scheduled(state[thread[x].task])]
        BY <3>1 DEF Mark
      <4> QED
        BY <4>1, <4>2, ScheduledHolds, Zenon
    <3>2. CASE UNCHANGED state
      BY <3>2, ZenonT(40)
    <3> QED
      BY <1>3, <3>1, <3>2, Zenon DEF Continue, Mark, PushInbox, Ring, Ipi
  <2> QED
    BY <2>1, <2>2, <2>3, TableStays
<1> QED
  BY <1>1, <1>2, <1>3 DEF ThreadTurn

\* collect: what enters the table gets the slot it is at, within the capacity.
LEMMA CollectTable ==
  ASSUME Typed, Queues, Table, Collect
  PROVE  Table'
<1> DEFINE q == inbox[owner.at]
           new == Unheld(q)
           n == Len(tasks)
           Place(t) == CHOOSE i \in 1 .. Len(new) : new[i] = t
<1>1. q \in Seq(Tasks) /\ owner.at \in Levels
  BY DEF Typed
<1>2. Distinct(q)
  <2> SUFFICES ASSUME NEW i \in 1 .. Len(q), NEW j \in 1 .. Len(q), q[i] = q[j] PROVE i = j
    BY DEF Distinct
  <2>1. q[i] \in Tasks /\ i \in InboxOf(q[i]) /\ j \in InboxOf(q[i])
    <3>1. q[i] \in Tasks /\ i \in DOMAIN q /\ j \in DOMAIN q
      BY <1>1
    <3>2. Priority[q[i]] = owner.at
      BY <1>1, <3>1 DEF Queues, OnLevel
    <3> QED
      BY <3>1, <3>2 DEF InboxOf
  <2>2. Lone(InboxOf(q[i]))
    BY <2>1 DEF Queues, Once
  <2> QED
    BY <2>1, <2>2 DEF Lone
<1>3. /\ tasks' = tasks \o new
      /\ slot' = [t \in Tasks |-> IF t \in Range(new) THEN n + Place(t) - 1 ELSE slot[t]]
      /\ state' = [t \in Tasks |-> state[t] \cup (IF t \in Range(new) THEN {"HELD"} ELSE {})]
      /\ UNCHANGED <<future, live>>
      /\ owner.pc = "collect" /\ owner'.pc \in {"collect", "take"}
  BY DEF Collect, OwnerAt, Typed
<1>4. /\ new \in Seq(Tasks) /\ Distinct(new)
      /\ \A t \in Tasks : (\E k \in 1 .. Len(new) : new[k] = t)
                            <=> (\E j \in 1 .. Len(q) : q[j] = t) /\ "HELD" \notin state[t]
  <2> HIDE DEF q
  <2> QED
    BY <1>1, <1>2, UnheldExact
<1>5. ASSUME NEW t \in Tasks, NEW j \in 1 .. Len(q), q[j] = t PROVE t \in Unretired
  <2>1. InboxOf(t) # {}
    BY <1>1, <1>5 DEF Queues, OnLevel, InboxOf
  <2>2. "SCHEDULED" \in state[t]
    BY <2>1 DEF Queues, Once
  <2> QED
    BY <2>2 DEF Queues, Word, Unretired
<1> HIDE DEF new, q
<1>6. /\ tasks' \in Seq(Tasks) /\ Len(tasks') = n + Len(new) /\ n \in Nat /\ Len(new) \in Nat
      /\ \A i \in 1 .. n : tasks'[i] = tasks[i]
      /\ \A i \in 1 .. Len(new) : tasks'[n + i] = new[i]
  <2>1. tasks \in Seq(Tasks) /\ new \in Seq(Tasks) /\ tasks' = tasks \o new
    BY <1>3, <1>4 DEF Table
  <2> QED
    BY <2>1, Concatenated
<1>7. \A t \in Tasks : t \in Range(new) <=> \E k \in 1 .. Len(new) : new[k] = t
  BY <1>4 DEF Range
<1>8. \A k \in 1 .. Len(new) : new[k] \in Tasks /\ new[k] \in Range(new) /\ Place(new[k]) = k
  <2> SUFFICES ASSUME NEW k \in 1 .. Len(new)
               PROVE  new[k] \in Tasks /\ new[k] \in Range(new) /\ Place(new[k]) = k
    OBVIOUS
  <2>1. new[k] \in Tasks
    BY <1>4
  <2>2. Place(new[k]) \in 1 .. Len(new) /\ new[Place(new[k])] = new[k]
    OBVIOUS
  <2> HIDE DEF Place
  <2>3. Place(new[k]) = k
    BY <1>4, <2>2 DEF Distinct
  <2> QED
    BY <1>7, <2>1, <2>3
<1> HIDE DEF Place, n
<1>9. \A i \in 1 .. Len(tasks') : i \in 1 .. n \/ \E k \in 1 .. Len(new) : i = n + k
  <2> SUFFICES ASSUME NEW i \in 1 .. n + Len(new), i \notin 1 .. n
               PROVE  \E k \in 1 .. Len(new) : i = n + k
    BY <1>6
  <2>1. i - n \in 1 .. Len(new) /\ i = n + (i - n)
    BY <1>6
  <2> QED
    BY <2>1
<1>10. \A i \in 1 .. n : /\ tasks[i] \in Tasks /\ "HELD" \in state[tasks[i]] /\ slot[tasks[i]] = i - 1
                         /\ tasks[i] \notin Range(new)
  <2> SUFFICES ASSUME NEW i \in 1 .. Len(tasks)
               PROVE  /\ tasks[i] \in Tasks /\ "HELD" \in state[tasks[i]] /\ slot[tasks[i]] = i - 1
                      /\ tasks[i] \notin Range(new)
    BY DEF n
  <2>1. tasks \in Seq(Tasks) /\ "HELD" \in state[tasks[i]] /\ slot[tasks[i]] = i - 1
    BY DEF Table
  <2>2. tasks[i] \in Tasks
    BY <2>1
  <2>3. tasks[i] \notin Range(new)
    BY <1>4, <1>7, <2>1, <2>2
  <2> QED
    BY <2>1, <2>2, <2>3
<1>11. ASSUME NEW i \in 1 .. Len(tasks')
       PROVE  "HELD" \in state'[tasks'[i]] /\ slot'[tasks'[i]] = i - 1 /\ tasks'[i] \in Unretired
  <2>1. CASE i \in 1 .. n
    <3>1. tasks'[i] = tasks[i]
      BY <1>6, <2>1
    <3>2. /\ tasks[i] \in Tasks /\ "HELD" \in state[tasks[i]] /\ slot[tasks[i]] = i - 1
          /\ tasks[i] \notin Range(new)
      BY <1>10, <2>1
    <3> QED
      BY <1>3, <3>1, <3>2, HeldLive
  <2>2. ASSUME NEW k \in 1 .. Len(new), i = n + k
        PROVE  "HELD" \in state'[tasks'[i]] /\ slot'[tasks'[i]] = i - 1 /\ tasks'[i] \in Unretired
    <3>1. tasks'[i] = new[k]
      BY <1>6, <2>2
    <3>2. new[k] \in Tasks /\ new[k] \in Range(new) /\ Place(new[k]) = k
      BY <1>8
    <3>3. new[k] \in Unretired
      <4>1. \E j \in 1 .. Len(q) : q[j] = new[k]
        BY <1>4, <3>2
      <4> QED
        BY <1>5, <3>2, <4>1
    <3>4. "HELD" \in state'[new[k]]
      BY <1>3, <3>2
    <3>5. slot'[new[k]] = n + k - 1 /\ n + k - 1 = i - 1
      BY <1>3, <1>6, <2>2, <3>2
    <3> QED
      BY <1>6, <3>1, <3>3, <3>4, <3>5
  <2> QED
    BY <1>9, <2>1, <2>2
<1>12. Unretired' = Unretired
  BY <1>3 DEF Unretired, Finishing
<1>13. n + Len(new) <= Capacity
  <2>1. Distinct(tasks')
    <3> SUFFICES ASSUME NEW i \in 1 .. Len(tasks'), NEW j \in 1 .. Len(tasks'),
                        tasks'[i] = tasks'[j]
                 PROVE  i = j
      BY DEF Distinct
    <3>1. i - 1 = j - 1 /\ i \in Int /\ j \in Int
      BY <1>6, <1>11
    <3> QED
      BY <3>1
  <2>2. Len(tasks') <= Cardinality(Unretired) /\ Cardinality(Unretired) \in Nat
    BY <1>6, <1>11, <2>1, Fits DEF Table
  <2> QED
    BY <1>6, <2>2, Sized DEF Table
<1>14. ASSUME NEW t \in Tasks, t \in Range(new)
       PROVE  slot'[t] \in 0 .. Capacity - 1 /\ slot'[t] + 1 \in 1 .. Len(tasks')
              /\ tasks'[slot'[t] + 1] = t
  <2>1. PICK k \in 1 .. Len(new) : new[k] = t
    BY <1>7, <1>14
  <2>2. slot'[t] = n + k - 1
    BY <1>3, <1>8, <1>14, <2>1
  <2>3. slot'[t] + 1 = n + k /\ slot'[t] \in 0 .. Capacity - 1 /\ n + k \in 1 .. n + Len(new)
    BY <1>6, <1>13, <2>2, Sized
  <2> QED
    BY <1>6, <2>1, <2>3
<1>15. ASSUME NEW t \in Tasks, t \notin Range(new)
       PROVE  /\ slot'[t] \in 0 .. Capacity - 1
              /\ "HELD" \in state'[t] => slot'[t] + 1 \in 1 .. Len(tasks') /\ tasks'[slot'[t] + 1] = t
  <2>1. slot'[t] = slot[t] /\ ("HELD" \in state'[t] <=> "HELD" \in state[t])
    BY <1>3, <1>15
  <2>2. "HELD" \in state[t] => slot[t] + 1 \in 1 .. n /\ tasks[slot[t] + 1] = t
    BY DEF Table, n
  <2>3. \A i \in 1 .. n : i \in 1 .. Len(tasks')
    BY <1>6
  <2>4. slot[t] \in 0 .. Capacity - 1
    BY DEF Table
  <2> QED
    BY <1>6, <2>1, <2>2, <2>3, <2>4
<1>16. slot' \in [Tasks -> 0 .. Capacity - 1]
  <2>1. \A t \in Tasks : slot'[t] \in 0 .. Capacity - 1
    BY <1>14, <1>15
  <2> QED
    BY <1>3, <2>1
<1>17. IsFiniteSet(Unretired') /\ live' = Cardinality(Unretired') /\ live' <= Capacity
  BY <1>3, <1>12 DEF Table
<1> QED
  BY <1>6, <1>11, <1>14, <1>15, <1>16, <1>17, Zenon DEF Table

\* retire: the swap moves the last task of the table and its slot with it.
LEMMA FinishTable ==
  ASSUME Typed, Queues, Table, Finish
  PROVE  Table'
<1>0. PICK t \in Tasks : t = owner.cur
  BY DEF Typed, Finish, Polling, OwnerAt
<1>1. "HELD" \in state[t] /\ Finishing(t)
  BY <1>0 DEF Queues, Word, Finish, OwnerAt, Polling, Finishing
<1>2. PICK i \in Int : i = slot[t] + 1
  BY DEF Table
<1>3. i \in 1 .. Len(tasks) /\ tasks[i] = t
  BY <1>1, <1>2 DEF Table
<1> DEFINE n == Len(tasks)
           w == ((state[t] \ {"RUNNING", "WOKEN"}) \cup {"DONE"}) \ {"HELD"}
<1>4. /\ state' = [state EXCEPT ![t] = w]
      /\ tasks' = SwapRemove(i) /\ slot' = Moved(i) /\ live' = live - 1
      /\ owner' = [owner EXCEPT !.pc = "collect", !.cur = Root]
      /\ UNCHANGED future
  BY <1>0, <1>1, <1>2 DEF Finish
<1>5. /\ tasks \in Seq(Tasks) /\ n \in Nat \ {0} /\ i \in 1 .. n
      /\ \A j \in 1 .. n : tasks[j] \in Tasks /\ slot[tasks[j]] = j - 1 /\ "HELD" \in state[tasks[j]]
  BY <1>3 DEF Table
<1>6. /\ "HELD" \notin state'[t] /\ \A u \in Tasks : u # t => state'[u] = state[u]
  BY <1>4 DEF Typed
<1>7. tasks' = [j \in 1 .. n - 1 |-> IF j = i THEN tasks[n] ELSE tasks[j]]
  BY <1>4 DEF SwapRemove
<1> HIDE DEF n
<1>8. tasks' \in Seq(Tasks) /\ Len(tasks') = n - 1
  BY <1>5, <1>7
<1>9. slot' = IF i < n THEN [slot EXCEPT ![tasks[n]] = i - 1] ELSE slot
  <2>1. CASE i < n
    <3>1. SwapRemove(i)[i] = tasks[n]
      BY <1>4, <1>5, <1>7, <2>1
    <3> QED
      BY <1>4, <2>1, <3>1 DEF Moved, n
  <2>2. CASE ~(i < n)
    BY <1>4, <2>2 DEF Moved, n
  <2> QED
    BY <2>1, <2>2
<1>10. slot \in [Tasks -> 0 .. Capacity - 1]
  BY DEF Table
<1>11. i - 1 \in 0 .. Capacity - 1 /\ slot' \in [Tasks -> 0 .. Capacity - 1]
  <2>1. i - 1 = slot[t]
    BY <1>2, <1>10
  <2> QED
    BY <1>9, <1>10, <2>1, Zenon
<1>12. ASSUME NEW j \in 1 .. Len(tasks')
       PROVE  "HELD" \in state'[tasks'[j]] /\ slot'[tasks'[j]] = j - 1
  <2>1. j \in 1 .. n /\ j # n /\ n \in 1 .. n /\ j \in 1 .. n - 1
    BY <1>5, <1>8
  <2>2. CASE j = i
    <3>1. tasks'[j] = tasks[n] /\ i < n
      BY <1>5, <1>7, <2>1, <2>2
    <3>2. tasks[n] \in Tasks /\ tasks[n] # t
      BY <1>3, <1>5, <2>1, <2>2
    <3> QED
      BY <1>5, <1>6, <1>9, <1>10, <2>1, <2>2, <3>1, <3>2, Zenon
  <2>3. CASE j # i
    <3>1. tasks'[j] = tasks[j]
      BY <1>7, <2>1, <2>3
    <3>2. tasks[j] \in Tasks /\ tasks[j] # t /\ tasks[j] # tasks[n]
      <4>1. j - 1 # i - 1 /\ j - 1 # n - 1
        BY <1>5, <2>1, <2>3
      <4> QED
        BY <1>3, <1>5, <2>1, <4>1, Zenon
    <3> QED
      BY <1>5, <1>6, <1>9, <1>10, <2>1, <3>1, <3>2, Zenon
  <2> QED
    BY <2>2, <2>3
<1>13. ASSUME NEW u \in Tasks, "HELD" \in state'[u]
       PROVE  slot'[u] + 1 \in 1 .. Len(tasks') /\ tasks'[slot'[u] + 1] = u
  <2>1. u # t /\ "HELD" \in state[u]
    BY <1>6, <1>13
  <2>2. PICK k \in 1 .. n : k = slot[u] + 1 /\ tasks[k] = u
    BY <2>1 DEF Table, n
  <2>3. k # i
    BY <1>3, <2>1, <2>2
  <2>4. CASE k = n
    <3>1. i < n /\ tasks[n] = u /\ i \in 1 .. n - 1
      BY <1>5, <2>2, <2>3, <2>4
    <3>2. slot'[u] = i - 1
      BY <1>9, <1>10, <3>1
    <3>3. slot'[u] + 1 = i
      BY <1>5, <3>2
    <3> QED
      BY <1>7, <1>8, <3>1, <3>3, Zenon
  <2>5. CASE k # n
    <3>1. k \in 1 .. n - 1 /\ k - 1 # n - 1 /\ n \in 1 .. n
      BY <1>5, <2>2, <2>5
    <3>2. tasks[n] # u
      BY <1>5, <2>2, <3>1
    <3>3. slot'[u] = slot[u]
      BY <1>9, <1>10, <3>2
    <3> QED
      BY <1>7, <1>8, <2>2, <2>3, <3>1, <3>3
  <2> QED
    BY <2>4, <2>5
<1>14. Unretired' = Unretired \ {t} /\ t \in Unretired
  <2>1. future[t] = "dropped"
    BY <1>1 DEF Queues, Word
  <2>2. \A u \in Tasks : (Finishing(u) <=> u = t) /\ ~Finishing(u)'
    BY <1>0, <1>1, <1>4 DEF Finishing, Typed
  <2> QED
    BY <1>4, <2>1, <2>2 DEF Unretired
<1>15. IsFiniteSet(Unretired') /\ live' = Cardinality(Unretired') /\ live' <= Capacity
  <2>1. IsFiniteSet(Unretired) /\ live = Cardinality(Unretired) /\ live <= Capacity
    BY DEF Table
  <2>2. IsFiniteSet(Unretired \ {t}) /\ Cardinality(Unretired \ {t}) = Cardinality(Unretired) - 1
    BY <1>14, <2>1, CountLess
  <2>3. Cardinality(Unretired) \in Nat
    BY <1>14, <2>1, CountLess
  <2> QED
    BY <1>4, <1>14, <2>1, <2>2, <2>3, Sized
<1> QED
  BY <1>8, <1>11, <1>12, <1>13, <1>15 DEF Table

\* The owner's steps keep the table.
LEMMA OwnerTable ==
  ASSUME Typed, Queues, Table, OwnerTurn
  PROVE  Table'
<1> USE DEF queues, Owner, OwnerAt
<1>0. owner \in [pc : OwnerPcs, cur : Futures, ran : BOOLEAN, at : Levels]
  BY DEF Typed
<1>1. CASE \/ RootAnswered \/ RootPoll \/ TickIdle \/ TakeNone \/ CheckRung \/ CheckPending \/ Park
           \/ Interrupt \/ TimerInterrupt
  <2>1. (owner.pc = "finish" <=> owner'.pc = "finish") /\ owner'.cur = owner.cur
    BY <1>0, <1>1, Zenon DEF RootAnswered, RootPoll, TickIdle, TakeNone, CheckRung, CheckPending, Park,
                      Interrupt, TimerInterrupt
  <2>2. UNCHANGED <<state, future, tasks, slot, live>>
    BY <1>1 DEF RootAnswered, RootPoll, TickIdle, TakeNone, CheckRung, CheckPending, Park,
                Interrupt, TimerInterrupt
  <2>3. Unretired' = Unretired
    BY <2>1, <2>2 DEF Unretired, Finishing
  <2> QED
    BY <2>2, <2>3, TableStays
<1>2. ASSUME NEW t \in Tasks, TickDue(t) \/ PollWaking(t) PROVE Table'
  <2>1. (owner.pc # "finish" /\ owner'.pc # "finish") /\ owner'.cur = owner.cur
    BY <1>0, <1>2, Zenon DEF TickDue, PollWaking
  <2>2. UNCHANGED <<future, tasks, slot, live>>
    BY <1>2 DEF TickDue, PollWaking
  <2>3. Unretired' = Unretired
    BY <2>1, <2>2 DEF Unretired, Finishing
  <2>4. state' = [state EXCEPT ![t] = Scheduled(state[t])]
    BY <1>2 DEF TickDue, PollWaking, WakeHere
  <2> QED
    BY <2>2, <2>3, <2>4, ScheduledHolds, TableStays, Zenon
<1>3. CASE Take
  <2>1. PICK l \in Levels : l = LevelAt(Serving) /\ ready[l] \in Seq(Tasks) \ {<<>>}
    BY <1>3, Serves DEF Take
  <2>2. PICK t \in Tasks : t = Head(ready[l])
    BY <2>1
  <2>3. /\ state' = [state EXCEPT ![t] = (state[t] \ {"SCHEDULED"}) \cup {"RUNNING"}]
        /\ owner' = [owner EXCEPT !.cur = t, !.ran = TRUE, !.pc = "poll"]
        /\ owner.pc = "take"
        /\ UNCHANGED <<future, tasks, slot, live>>
    BY <1>3, <2>1, <2>2 DEF Take
  <2>4. \A u \in Tasks : "HELD" \in state'[u] <=> "HELD" \in state[u]
    BY <2>3 DEF Typed
  <2>5. owner'.pc = "poll"
    BY <1>0, <2>3
  <2>6. Unretired' = Unretired
    BY <2>3, <2>5 DEF Unretired, Finishing
  <2> QED
    BY <2>3, <2>4, <2>6, TableStays
<1>4. ASSUME NEW done \in BOOLEAN, Poll(done) PROVE Table'
  <2>0. PICK t \in Tasks : t = owner.cur
    BY <1>4 DEF Poll, Typed, Polling
  <2>1. /\ future' = [future EXCEPT ![t] = IF done THEN "dropped" ELSE future[t]]
        /\ owner' = [owner EXCEPT !.pc = IF done THEN "finish" ELSE "pending"]
        /\ owner.pc = "poll"
        /\ UNCHANGED <<state, tasks, slot, live>>
    BY <1>4, <2>0 DEF Poll
  <2>2. owner'.pc = (IF done THEN "finish" ELSE "pending") /\ owner'.cur = t
    BY <1>0, <2>0, <2>1
  <2>3. Word(t) /\ Polling
    BY <2>1 DEF Queues, Polling
  <2>4. future[t] = "some"
    BY <2>0, <2>1, <2>3 DEF Word, Finishing, Typed
  <2>5. /\ future'[t] = IF done THEN "dropped" ELSE "some"
        /\ \A u \in Tasks : u # t => future'[u] = future[u]
    BY <2>1, <2>4 DEF Typed
  <2>6. ASSUME NEW u \in Tasks PROVE u \in Unretired' <=> u \in Unretired
    BY <2>1, <2>2, <2>4, <2>5 DEF Unretired, Finishing
  <2>7. Unretired' = Unretired
    BY <2>6 DEF Unretired
  <2> QED
    BY <2>1, <2>7, TableStays
<1>5. CASE Pending
  <2>0. PICK t \in Tasks : t = owner.cur
    BY <1>5 DEF Pending, Typed, Polling
  <2>1. /\ state' = [state EXCEPT ![t] = Unpolled(state[t])]
        /\ owner' = [owner EXCEPT !.pc = "collect", !.cur = Root]
        /\ owner.pc = "pending"
        /\ UNCHANGED <<future, tasks, slot, live>>
    BY <1>5, <2>0 DEF Pending
  <2>2. \A u \in Tasks : "HELD" \in state'[u] <=> "HELD" \in state[u]
    BY <2>1 DEF Typed, Unpolled
  <2>3. owner'.pc = "collect"
    BY <1>0, <2>1
  <2>4. Unretired' = Unretired
    BY <2>1, <2>3 DEF Unretired, Finishing
  <2> QED
    BY <2>1, <2>2, <2>4, TableStays
<1>6. Sleepers \subseteq Tasks
  BY Sized
<1> QED
  BY <1>1, <1>2, <1>3, <1>4, <1>5, <1>6, CollectTable, FinishTable DEF OwnerTurn, OwnerStep

\* A level has never more than its slice to spend.
LEMMA NextCredited ==
  ASSUME Typed, Credited, [Next]_vars
  PROVE  Credited'
<1>0. LEVELS \in Nat \ {0} /\ level \in Levels /\ \A l \in Levels : SLICE[l + 1] \in Nat \ {0}
  <2>1. LEVELS \in Nat \ {0} /\ SLICE \in Seq(Nat \ {0})
    BY Sized DEF LEVELS
  <2>2. \A l \in Levels : l + 1 \in 1 .. Len(SLICE)
    BY <2>1 DEF Levels, LEVELS
  <2> QED
    BY <2>1, <2>2 DEF Typed
<1>1. LevelAt(0) = level
  BY <1>0 DEF LevelAt, Levels
<1>2. ASSUME NEW k \in Nat PROVE CreditAt(k) \in 0 .. SLICE[LevelAt(k) + 1]
  <2>1. LevelAt(k) \in Levels
    BY Passing
  <2>2. SLICE[LevelAt(k) + 1] \in Nat
    BY <1>0, <2>1
  <2> QED
    BY <1>1, <2>2 DEF CreditAt, Credited
<1>3. CASE Take
  <2>1. Serving \in Turns /\ Turns \subseteq Nat
    BY <1>3, Serves DEF Take, Turns
  <2>2. CreditAt(Serving) \in 0 .. SLICE[LevelAt(Serving) + 1] /\ CreditAt(Serving) > 0
    BY <1>2, <2>1 DEF Turns
  <2>3. level' = LevelAt(Serving) /\ credit' = CreditAt(Serving) - 1
    BY <1>3 DEF Take, Spent
  <2>4. SLICE[LevelAt(Serving) + 1] \in Nat
    BY <1>0, <2>1, Passing
  <2> QED
    BY <2>2, <2>3, <2>4 DEF Credited
<1>4. CASE TakeNone
  <2>1. Rounds \in Nat
    BY <1>0 DEF Rounds
  <2> QED
    BY <1>2, <1>4, <2>1 DEF TakeNone, Credited
<1>5. CASE UNCHANGED <<level, credit>>
  BY <1>5 DEF Credited
<1>6. Next => Take \/ TakeNone \/ UNCHANGED <<level, credit>>
  BY Zenon DEF Next, OwnerStep, Interrupt, TimerInterrupt, Continue, Mark, PushInbox, Ring, Ipi, Spawn,
         Post, local, queues, RootAnswered, RootPoll, TickIdle, TickDue, Collect, Poll, PollWaking,
         Pending, Finish, CheckRung, CheckPending, Park
<1> QED
  BY <1>3, <1>4, <1>5, <1>6 DEF vars, local

-----------------------------------------------------------------------------
(* The invariant, and what it says. *)

\* The invariant holds when the core starts.
LEMMA InitIInv == Init => IInv
<1> SUFFICES ASSUME Init PROVE IInv
  OBVIOUS
<1>1. Typed /\ Watch
  BY InitWatch
<1>2. 0 \in Levels /\ \A t \in Tasks : Priority[t] \in Levels
  BY Sized DEF Levels, LEVELS
<1>3. /\ \A l \in Levels : inbox[l] = <<>> /\ ready[l] = <<>>
      /\ \A x \in Threads : thread[x].pc = "idle"
      /\ \A t \in Tasks : state[t] = {} /\ future[t] = "unborn" /\ slot[t] = 0
      /\ ~Polling /\ owner.pc # "finish" /\ handed = {} /\ tasks = <<>>
  BY DEF Init, Polling
<1>4. \A t \in Tasks : PushersOf(t) = {} /\ InboxOf(t) = {} /\ ReadyOf(t) = {}
  <2> SUFFICES ASSUME NEW t \in Tasks PROVE PushersOf(t) = {} /\ InboxOf(t) = {} /\ ReadyOf(t) = {}
    OBVIOUS
  <2>1. inbox[Priority[t]] = <<>> /\ ready[Priority[t]] = <<>> /\ DOMAIN <<>> = {}
    BY <1>2, <1>3
  <2>2. InboxOf(t) = {} /\ ReadyOf(t) = {}
    BY <2>1 DEF InboxOf, ReadyOf
  <2>3. PushersOf(t) = {}
    BY <1>3 DEF PushersOf, At
  <2> QED
    BY <2>2, <2>3
<1>5. \A t \in Tasks : Once(t)
  BY <1>3, <1>4 DEF Once, Lone
<1>6. \A t \in Tasks : Word(t)
  BY <1>3, <1>4 DEF Word, Finishing
<1>7. OnLevel /\ Born
  BY <1>3 DEF OnLevel, Born, At
<1>8. Table
  <2>1. Unretired = {}
    BY <1>3 DEF Unretired, Finishing
  <2>2. IsFiniteSet({}) /\ Cardinality({}) = 0
    BY CountNone
  <2>3. slot \in [Tasks -> 0 .. Capacity - 1]
    BY Sized DEF Init
  <2>4. tasks \in Seq(Tasks) /\ Len(tasks) = 0
    BY <1>3
  <2>5. \A t \in Tasks : "HELD" \notin state[t]
    BY <1>3
  <2>6. live = Cardinality(Unretired) /\ live <= Capacity /\ IsFiniteSet(Unretired)
    BY <2>1, <2>2, Sized DEF Init
  <2>7. 1 .. Len(tasks) = {}
    BY <2>4
  <2> QED
    BY <2>3, <2>4, <2>5, <2>6, <2>7 DEF Table
<1>9. Credited
  BY Sized DEF Credited, Init, LEVELS
<1> QED
  BY <1>1, <1>5, <1>6, <1>7, <1>8, <1>9 DEF IInv, Queues

\* Every step of the owner, of the interrupts and of the threads keeps it.
LEMMA NextIInv == IInv /\ [Next]_vars => IInv'
<1> SUFFICES ASSUME IInv, [Next]_vars PROVE IInv'
  OBVIOUS
<1>0. Typed /\ Watch /\ Queues /\ Table /\ Credited
  BY DEF IInv
<1>1. Typed' /\ Watch'
  BY <1>0, NextWatch
<1>2. Credited'
  BY <1>0, NextCredited
<1>3. CASE OwnerTurn
  BY <1>0, <1>1, <1>2, <1>3, OwnerQueued, OwnerTable DEF IInv
<1>4. ASSUME NEW x \in Threads, ThreadTurn(x) PROVE IInv'
  BY <1>0, <1>1, <1>2, <1>4, ThreadsQueued, ThreadsTable DEF IInv
<1>5. CASE UNCHANGED vars
  <2>1. UNCHANGED <<state, future, inbox, ready, thread, handed, owner, tasks, slot, live>>
    BY <1>5 DEF vars, local
  <2>2. (Polling' <=> Polling) /\ Unretired' = Unretired
    BY <2>1 DEF Polling, Unretired, Finishing
  <2>3. Queues'
    BY <1>0, <2>1, <2>2, OwnerQuiet
  <2>4. Table'
    BY <1>0, <2>1, <2>2, TableStays
  <2> QED
    BY <1>1, <1>2, <2>3, <2>4 DEF IInv
<1> QED
  BY <1>3, <1>4, <1>5 DEF Next, OwnerTurn, ThreadTurn

\* The invariant says what the properties say.
LEMMA IInvExact == IInv => TasksExact
<1> SUFFICES ASSUME IInv PROVE TasksExact
  OBVIOUS
<1>0. Typed /\ Queues /\ Table /\ Credited
  BY DEF IInv
<1>1. Len(tasks) <= Cardinality(Unretired) /\ Cardinality(Unretired) \in Nat
  <2>1. \A i \in 1 .. Len(tasks) : tasks[i] \in Unretired
    BY <1>0, HeldLive DEF Table
  <2> QED
    BY <1>0, <2>1, TableDistinct, Fits DEF Table
<1>2. TypeOK
  <2>1. live \in 0 .. Capacity /\ Len(tasks) <= live
    BY <1>0, <1>1, Sized DEF Table
  <2> QED
    BY <1>0, <2>1, Zenon DEF TypeOK, Typed, Table, Credited
<1>3. QueuedOnce
  <2> SUFFICES ASSUME NEW t \in Tasks
               PROVE  /\ Holders(t) = IF "SCHEDULED" \in state[t] THEN 1 ELSE 0
                      /\ "DONE" \in state[t] => "SCHEDULED" \notin state[t]
                      /\ "RUNNING" \in state[t] => owner.cur = t /\ "SCHEDULED" \notin state[t]
    BY DEF QueuedOnce
  <2>1. Once(t) /\ Word(t)
    BY <1>0 DEF Queues
  <2>2. Holders(t) = Cardinality(PushersOf(t)) + Cardinality(InboxOf(t)) + Cardinality(ReadyOf(t))
    BY DEF Holders, PushersOf, InboxOf, ReadyOf
  <2>3. /\ Cardinality(PushersOf(t)) = IF PushersOf(t) = {} THEN 0 ELSE 1
        /\ Cardinality(InboxOf(t)) = IF InboxOf(t) = {} THEN 0 ELSE 1
        /\ Cardinality(ReadyOf(t)) = IF ReadyOf(t) = {} THEN 0 ELSE 1
    BY <2>1, LoneCount DEF Once
  <2> DEFINE p == PushersOf(t)
             i == InboxOf(t)
             r == ReadyOf(t)
  <2>4. /\ p # {} => i = {} /\ r = {}
        /\ i # {} => r = {}
        /\ "SCHEDULED" \in state[t] <=> p # {} \/ i # {} \/ r # {}
    BY <2>1 DEF Once
  <2> HIDE DEF p, i, r
  <2>5. Cardinality(p) + Cardinality(i) + Cardinality(r) = IF "SCHEDULED" \in state[t] THEN 1 ELSE 0
    <3>1. /\ Cardinality(p) = IF p = {} THEN 0 ELSE 1
          /\ Cardinality(i) = IF i = {} THEN 0 ELSE 1
          /\ Cardinality(r) = IF r = {} THEN 0 ELSE 1
      BY <2>3 DEF p, i, r
    <3> QED
      BY <2>4, <3>1
  <2>6. Holders(t) = IF "SCHEDULED" \in state[t] THEN 1 ELSE 0
    BY <2>2, <2>5 DEF p, i, r
  <2> QED
    BY <2>1, <2>6 DEF Word
<1>4. TableExact
  <2>1. ASSUME NEW t \in Tasks
        PROVE  "HELD" \in state[t] <=> slot[t] + 1 \in DOMAIN tasks /\ tasks[slot[t] + 1] = t
    BY <1>0 DEF Table
  <2>2. \A i, j \in DOMAIN tasks : tasks[i] = tasks[j] => i = j
    <3>1. DOMAIN tasks = 1 .. Len(tasks)
      BY <1>0 DEF Table
    <3> QED
      BY <1>0, <3>1, TableDistinct DEF Distinct
  <2>3. Unretired = {t \in Tasks : \/ future[t] = "some"
                                   \/ owner.cur = t /\ OwnerAt("finish")}
    BY DEF Unretired, Finishing, OwnerAt
  <2> QED
    BY <1>0, <2>1, <2>2, <2>3 DEF TableExact, Table
<1> QED
  BY <1>2, <1>3, <1>4 DEF TasksExact

\* The inductive invariant holds in every reachable state.
THEOREM Invariance == Spec => []IInv
  BY InitIInv, NextIInv, PTL DEF Spec

\* Whatever wakes, polls and retirements interleave, the queues, the table and
\* the task words describe one set of tasks: each queued at most once, at its
\* own level, and held at the slot it remembers (task.rs, exec.rs).
THEOREM Exact == Spec => []TasksExact
  BY IInvExact, Invariance, PTL

=============================================================================
