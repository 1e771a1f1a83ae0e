------------------------------- MODULE Executor -------------------------------
(***************************************************************************)
(* One core's executor (crates/sys/rt): the owner loop of `block_on`, the  *)
(* inbox other cores push to, the task state word, the weighted ready      *)
(* queues, the task table, and the doorbell the core parks on.             *)
(*                                                                         *)
(* Actors are the owning core and Threads, which are other cores or        *)
(* interrupt handlers holding wakers or a Handle.  Every compare-and-swap  *)
(* loop is one step; everything the owner does to state nobody else reads  *)
(* rides on the atomic access beside it.  The root future of `block_on` is *)
(* Root and never completes, so the loop is also that of `run`.            *)
(***************************************************************************)
EXTENDS Integers, Sequences, FiniteSets, Functions

CONSTANTS
    Tasks,      \* futures that may be spawned
    Threads,    \* cores and interrupt handlers that are not the owner
    Wakes,      \* Wakes[x]: the futures whose wakers x comes to hold
    Spawners,   \* those that hold a Handle
    Sleepers,   \* tasks that wait on the executor's timers
    Priority,   \* Priority[t]: the level of t, 0 being the most urgent
    SLICE,      \* SLICE[l + 1]: polls level l is given in its turn
    Capacity,   \* tasks the executor was sized for
    Root,       \* the future given to `block_on`
    Halt        \* how the core stops: "hlt" (atomic with enabling) or "wfi"

LEVELS == Len(SLICE)
Levels == 0..LEVELS - 1

ASSUME Sized ==
    /\ SLICE \in Seq(Nat \ {0}) /\ LEVELS > 0
    /\ Priority \in [Tasks -> Levels]
    /\ Capacity \in Nat \ {0}
    /\ Root \notin Tasks
    /\ Wakes \in [Threads -> SUBSET (Tasks \cup {Root})]
    /\ Spawners \subseteq Threads /\ Sleepers \subseteq Tasks
    /\ Halt \in {"hlt", "wfi"}

VARIABLES
    state,      \* Task::state, as the set of its bits
    future,     \* "unborn", "some", or "dropped"
    inbox,      \* Shared::inbox per level, oldest first
    live,       \* Shared::live
    ready,      \* Local::ready per level
    level,      \* Local::level
    credit,     \* Local::credit
    tasks,      \* Executor::tasks
    slot,       \* Task::slot
    rung,       \* Blocker::rung
    doorbell,   \* Percpu::doorbell of the owner's core
    irq,        \* a wake interrupt sent to the core and not yet taken
    owner,      \* [pc, cur, ran, at]: where the owner's loop is
    thread,     \* [pc, task] of each thread
    event,      \* what a future waits for has happened, and no poll saw it
    handed      \* futures polled at least once, which hand out their waker

local == <<ready, level, credit, tasks, slot, owner>>
vars == <<state, future, inbox, live, rung, doorbell, irq, thread, event,
          handed, local>>

BITS == {"SCHEDULED", "RUNNING", "WOKEN", "DONE", "HELD"}
Futures == Tasks \cup {Root}

Init ==
    /\ state = [t \in Tasks |-> {}]
    /\ future = [t \in Tasks |-> "unborn"]
    /\ inbox = [l \in Levels |-> <<>>]
    /\ live = 0
    /\ ready = [l \in Levels |-> <<>>]
    /\ level = 0
    /\ credit = SLICE[1]
    /\ tasks = <<>>
    /\ slot = [t \in Tasks |-> 0]
    /\ rung = TRUE
    /\ doorbell = FALSE
    /\ irq = FALSE
    /\ owner = [pc |-> "root", cur |-> Root, ran |-> FALSE, at |-> 0]
    /\ thread = [x \in Threads |-> [pc |-> "idle", task |-> Root]]
    /\ event = [f \in Futures |-> FALSE]
    /\ handed = {}

-----------------------------------------------------------------------------
(* The task word. *)

\* Task::schedule's transition: nothing for a task queued or finished, a note
\* for one being polled, and otherwise the right to queue it.
ScheduledBlind(s) ==
    IF s \cap {"DONE", "SCHEDULED"} # {} THEN s ELSE s \cup {"SCHEDULED"}

Scheduled(s) ==
    IF s \cap {"DONE", "SCHEDULED"} # {} THEN s
    ELSE IF "RUNNING" \in s THEN s \cup {"WOKEN"}
    ELSE s \cup {"SCHEDULED"}

\* Whether this schedule won the right to queue the task.
Wins(s) == "SCHEDULED" \notin s /\ "SCHEDULED" \in Scheduled(s)

\* What run leaves behind a pending poll.
Unpolled(s) ==
    IF "WOKEN" \in s THEN (s \ {"RUNNING", "WOKEN"}) \cup {"SCHEDULED"}
    ELSE s \ {"RUNNING"}

\* Inbox::push, and whether the inbox was empty, so that the pusher must ring.
Push(t) == inbox' = [inbox EXCEPT ![Priority[t]] = Append(@, t)]
FirstNever(t) == FALSE
First(t) == inbox[Priority[t]] = <<>>

\* Shared::queue on the owning core: `wake` sets the flag and spares the
\* interrupt.
QueueHere(t) ==
    /\ Push(t)
    /\ doorbell' = (doorbell \/ First(t))

-----------------------------------------------------------------------------
(* Other cores and interrupt handlers. *)

At(x, pc) == thread[x].pc = pc
Step(x, pc) ==
    thread' = [thread EXCEPT ![x] = [pc |-> pc, task |-> IF pc = "idle" THEN Root ELSE @.task]]

\* Handle::spawn_with: claim a place, make the task, win its first schedule.
\* A full executor refuses and changes nothing.
Room == live < Capacity

Spawn(x, t) ==
    /\ At(x, "idle")
    /\ future[t] = "unborn"
    /\ Room
    /\ live' = live + 1
    /\ future' = [future EXCEPT ![t] = "some"]
    /\ state' = [state EXCEPT ![t] = Scheduled(@)]
    /\ thread' = [thread EXCEPT ![x] = [pc |-> "push", task |-> t]]
    /\ UNCHANGED <<inbox, rung, doorbell, irq, event, handed, local>>

\* A device or another task makes true what f waits for, then wakes it.
Post(x, f) ==
    /\ At(x, "idle")
    /\ f \in handed
    /\ event' = [event EXCEPT ![f] = f = Root \/ future[f] = "some"]
    /\ thread' = [thread EXCEPT ![x] = [pc |-> "mark", task |-> f]]
    /\ UNCHANGED <<state, future, inbox, live, rung, doorbell, irq, handed, local>>

\* The wake itself: Blocker::wake_by_ref stores its flag, a task's waker
\* schedules the task.
Mark(x) ==
    LET f == thread[x].task IN
    /\ At(x, "mark")
    /\ IF f = Root
       THEN /\ rung' = TRUE
            /\ Step(x, "ring")
            /\ UNCHANGED state
       ELSE /\ state' = [state EXCEPT ![f] = Scheduled(@)]
            /\ Step(x, IF Wins(state[f]) THEN "push" ELSE "idle")
            /\ UNCHANGED rung
    /\ UNCHANGED <<future, inbox, live, doorbell, irq, event, handed, local>>

\* Inbox::push from another core.
PushInbox(x) ==
    LET t == thread[x].task IN
    /\ At(x, "push")
    /\ Push(t)
    /\ Step(x, IF First(t) THEN "ring" ELSE "idle")
    /\ UNCHANGED <<state, future, live, rung, doorbell, irq, event, handed, local>>

\* Machine::wake: the flag first, and an interrupt only if it was clear.
Ring(x) ==
    /\ At(x, "ring")
    /\ doorbell' = TRUE
    /\ Step(x, IF doorbell THEN "idle" ELSE "ipi")
    /\ UNCHANGED <<state, future, inbox, live, rung, irq, event, handed, local>>

Ipi(x) ==
    /\ At(x, "ipi")
    /\ irq' = TRUE
    /\ Step(x, "idle")
    /\ UNCHANGED <<state, future, inbox, live, rung, doorbell, event, handed, local>>

-----------------------------------------------------------------------------
(* The owner's loop. *)

OwnerAt(pc) == owner.pc = pc
Owner(pc) == owner' = [owner EXCEPT !.pc = pc]
queues == <<ready, level, credit, tasks, slot>>

\* blocker.answered(): the flag is spent before the poll it allows.
RootAnswered ==
    /\ OwnerAt("root")
    /\ rung' = FALSE
    /\ owner' = [owner EXCEPT !.pc = IF rung THEN "rootpoll" ELSE "tick", !.ran = FALSE]
    /\ UNCHANGED <<state, future, inbox, live, doorbell, irq, thread, event, handed, queues>>

RootPoll ==
    /\ OwnerAt("rootpoll")
    /\ event' = [event EXCEPT ![Root] = FALSE]
    /\ handed' = handed \cup {Root}
    /\ Owner("tick")
    /\ UNCHANGED <<state, future, inbox, live, rung, doorbell, irq, thread, queues>>

\* The owner wakes t: from a timer that came due or from inside a poll.
WakeHere(t) ==
    /\ event' = [event EXCEPT ![t] = TRUE]
    /\ state' = [state EXCEPT ![t] = Scheduled(@)]
    /\ IF Wins(state[t]) THEN QueueHere(t) ELSE UNCHANGED <<inbox, doorbell>>

\* Timers::advance finds nothing due, or a sleeping task whose time has come.
TickIdle ==
    /\ OwnerAt("tick")
    /\ owner' = [owner EXCEPT !.pc = "collect"]
    /\ UNCHANGED <<state, future, inbox, live, rung, doorbell, irq, thread, event,
                   handed, queues>>

TickDue(t) ==
    /\ OwnerAt("tick")
    /\ t \in handed
    /\ future[t] = "some"
    /\ WakeHere(t)
    /\ owner' = [owner EXCEPT !.pc = "collect", !.ran = TRUE]
    /\ UNCHANGED <<future, live, rung, irq, thread, handed, queues>>

\* The tasks of s not yet in the table, in their order.
Unheld(s) ==
    LET f[i \in 0..Len(s)] ==
            IF i = 0 THEN <<>>
            ELSE IF "HELD" \in state[s[i]] THEN f[i - 1]
            ELSE Append(f[i - 1], s[i])
    IN f[Len(s)]

\* collect, one level: everything drained joins the ready queue, and a task
\* seen for the first time enters the table at the end.
Collect ==
    LET l == owner.at
        new == Unheld(inbox[l])
        Place(t) == CHOOSE i \in 1..Len(new): new[i] = t
    IN
    /\ OwnerAt("collect")
    /\ inbox' = [inbox EXCEPT ![l] = <<>>]
    /\ ready' = [ready EXCEPT ![l] = @ \o inbox[l]]
    /\ tasks' = tasks \o new
    /\ slot' = [t \in Tasks |-> IF t \in Range(new) THEN Len(tasks) + Place(t) - 1
                                ELSE slot[t]]
    /\ state' = [t \in Tasks |-> state[t] \cup (IF t \in Range(new) THEN {"HELD"} ELSE {})]
    /\ owner' = IF l + 1 < LEVELS THEN [owner EXCEPT !.at = l + 1]
                ELSE [owner EXCEPT !.pc = "take", !.at = 0]
    /\ UNCHANGED <<future, live, level, credit, rung, doorbell, irq, thread, event, handed>>

\* Local::take: a level keeps the core until its slice or its queue runs out.
\* The level and the credit after the loop moved on k times, and the rounds of
\* the loop that find something to serve.
LevelAt(k) == (level + k) % LEVELS
CreditAt(k) == IF k = 0 THEN credit ELSE SLICE[LevelAt(k) + 1]
Rounds == 2 * LEVELS
Turns == {k \in 0..Rounds - 1: CreditAt(k) > 0 /\ ready[LevelAt(k)] # <<>>}
Serving == CHOOSE k \in Turns: \A j \in Turns: k <= j

SpentNone(c) == c
Spent(c) == c - 1

\* Task::run up to the poll: the queued flag is spent first.  A finished task
\* is in no queue (QueuedOnce), so the early return for one is not taken.
Take ==
    LET l == LevelAt(Serving)
        t == Head(ready[l])
    IN
    /\ OwnerAt("take")
    /\ Turns # {}
    /\ level' = l
    /\ credit' = Spent(CreditAt(Serving))
    /\ ready' = [ready EXCEPT ![l] = Tail(@)]
    /\ state' = [state EXCEPT ![t] = (@ \ {"SCHEDULED"}) \cup {"RUNNING"}]
    /\ owner' = [owner EXCEPT !.cur = t, !.ran = TRUE, !.pc = "poll"]
    /\ UNCHANGED <<future, inbox, live, tasks, slot, rung, doorbell, irq, thread,
                   event, handed>>

\* Nothing ready: run_until_idle returns, and only a round in which nothing
\* ran goes on to park.
TakeNone ==
    /\ OwnerAt("take")
    /\ Turns = {}
    /\ level' = LevelAt(Rounds)
    /\ credit' = CreditAt(Rounds)
    /\ Owner(IF owner.ran THEN "root" ELSE "rung")
    /\ UNCHANGED <<state, future, inbox, live, ready, tasks, slot, rung, doorbell,
                   irq, thread, event, handed>>

\* The poll sees the event if it happened.  It may end pending or finished,
\* having woken nothing, itself or another task.
Poll(done) ==
    /\ OwnerAt("poll")
    /\ event' = [event EXCEPT ![owner.cur] = FALSE]
    /\ handed' = handed \cup {owner.cur}
    /\ future' = [future EXCEPT ![owner.cur] = IF done THEN "dropped" ELSE @]
    /\ Owner(IF done THEN "finish" ELSE "pending")
    /\ UNCHANGED <<state, inbox, live, rung, doorbell, irq, thread, queues>>

PollWaking(t) ==
    /\ OwnerAt("poll")
    /\ t \in handed \cup {owner.cur}
    /\ t # Root /\ future[t] = "some"
    /\ event' = [event EXCEPT ![owner.cur] = FALSE, ![t] = TRUE]
    /\ state' = [state EXCEPT ![t] = Scheduled(@)]
    /\ IF Wins(state[t]) THEN QueueHere(t) ELSE UNCHANGED <<inbox, doorbell>>
    /\ handed' = handed \cup {owner.cur}
    /\ Owner("pending")
    /\ UNCHANGED <<future, live, rung, irq, thread, queues>>

\* Task::run after a pending poll: a wake that came meanwhile queues it again.
Pending ==
    LET t == owner.cur IN
    /\ OwnerAt("pending")
    /\ state' = [state EXCEPT ![t] = Unpolled(@)]
    /\ IF "SCHEDULED" \in Unpolled(state[t]) THEN QueueHere(t)
       ELSE UNCHANGED <<inbox, doorbell>>
    /\ owner' = [owner EXCEPT !.pc = "collect", !.cur = Root]
    /\ UNCHANGED <<future, live, rung, irq, thread, event, handed, queues>>

\* retire: out of the table by a swap with its last entry, whose slot moves.
SwapRemove(i) ==
    LET n == Len(tasks) IN
    [j \in 1..n - 1 |-> IF j = i THEN tasks[n] ELSE tasks[j]]

Moved(i) ==
    IF i < Len(tasks) THEN [slot EXCEPT ![SwapRemove(i)[i]] = i - 1] ELSE slot

\* Task::run after a finished poll, and then retire.
Finish ==
    LET t == owner.cur
        i == slot[t] + 1
        done == (state[t] \ {"RUNNING", "WOKEN"}) \cup {"DONE"}
    IN
    /\ OwnerAt("finish")
    /\ state' = [state EXCEPT ![t] = done \ {"HELD"}]
    /\ IF "HELD" \in done
       THEN /\ tasks' = SwapRemove(i)
            /\ slot' = Moved(i)
            /\ live' = live - 1
       ELSE UNCHANGED <<tasks, slot, live>>
    /\ owner' = [owner EXCEPT !.pc = "collect", !.cur = Root]
    /\ UNCHANGED <<future, inbox, ready, level, credit, rung, doorbell, irq, thread,
                   event, handed>>

\* !blocker.rung() && !pending(), two reads, then park.
CheckRung ==
    /\ OwnerAt("rung")
    /\ Owner(IF rung THEN "root" ELSE "inboxes")
    /\ UNCHANGED <<state, future, inbox, live, rung, doorbell, irq, thread, event,
                   handed, queues>>

CheckPending ==
    /\ OwnerAt("inboxes")
    /\ Owner(IF \E l \in Levels: inbox[l] # <<>> THEN "root" ELSE "park")
    /\ UNCHANGED <<state, future, inbox, live, rung, doorbell, irq, thread, event,
                   handed, queues>>

\* park: interrupts off, answered(), and then the halt.  `hlt` is entered in
\* the instruction that turns interrupts on; `wfi` follows that instruction.
Answered == doorbell

Park ==
    /\ OwnerAt("park")
    /\ doorbell' = FALSE
    /\ Owner(IF Answered THEN "root" ELSE IF Halt = "hlt" THEN "halt" ELSE "wfi")
    /\ UNCHANGED <<state, future, inbox, live, rung, irq, thread, event, handed, queues>>

\* The wake interrupt, whose handler only acknowledges it.  It ends a halt.
Interrupt ==
    /\ irq
    /\ irq' = FALSE
    /\ Owner(IF OwnerAt("halt") THEN "root" ELSE owner.pc)
    /\ UNCHANGED <<state, future, inbox, live, rung, doorbell, thread, event, handed,
                   queues>>

\* The periodic tick also ends a halt, on a core whose timer was started.
TimerInterrupt ==
    /\ OwnerAt("halt")
    /\ Owner("root")
    /\ UNCHANGED <<state, future, inbox, live, rung, doorbell, irq, thread, event,
                   handed, queues>>

Wfi ==
    /\ OwnerAt("wfi")
    /\ Owner("halt")
    /\ UNCHANGED <<state, future, inbox, live, rung, doorbell, irq, thread, event,
                   handed, queues>>

-----------------------------------------------------------------------------
Continue(x) == Mark(x) \/ PushInbox(x) \/ Ring(x) \/ Ipi(x)

OwnerStep ==
    \/ RootAnswered \/ RootPoll
    \/ TickIdle \/ (\E t \in Sleepers: TickDue(t))
    \/ Collect \/ Take \/ TakeNone
    \/ (\E done \in BOOLEAN: Poll(done)) \/ (\E t \in Tasks: PollWaking(t))
    \/ Pending \/ Finish
    \/ CheckRung \/ CheckPending \/ Park

Next ==
    \/ OwnerStep
    \/ Interrupt
    \/ TimerInterrupt
    \/ \E x \in Threads:
        \/ \E t \in Tasks: x \in Spawners /\ Spawn(x, t)
        \/ \E f \in Wakes[x]: Post(x, f)
        \/ Continue(x)

\* A core keeps executing, an interrupt sent is taken, and a thread that began
\* a wake finishes it: weak fairness of OwnerStep, Interrupt and Continue, said
\* of the states they pass through.  The loop is always enabled unless halted,
\* and every pass of it enters and leaves "take".  Nothing says a timer was
\* started, that tasks are spawned, or that devices answer.
Fairness ==
    /\ []<>(owner.pc \in {"take", "halt"}) /\ []<>(owner.pc # "take")
    /\ []<>~irq
    /\ \A x \in Threads: []<>At(x, "idle")

Spec == Init /\ [][Next]_vars /\ Fairness

\* The same loop on a core whose halt is a second instruction.
WfiSpec == Init /\ [][Next \/ Wfi]_vars

-----------------------------------------------------------------------------
(* Properties. *)

\* Every variable of the executor keeps its type; live never exceeds the
\* capacity `claim` checks, and the table never outgrows the vector it was
\* given in `new`.
TypeOK ==
    /\ state \in [Tasks -> SUBSET BITS]
    /\ future \in [Tasks -> {"unborn", "some", "dropped"}]
    /\ \A l \in Levels: inbox[l] \in Seq(Tasks) /\ ready[l] \in Seq(Tasks)
    /\ live \in 0..Capacity
    /\ level \in Levels
    /\ credit \in 0..SLICE[level + 1]
    /\ tasks \in Seq(Tasks) /\ Len(tasks) <= live
    /\ slot \in [Tasks -> 0..Capacity - 1]
    /\ {rung, doorbell, irq} \subseteq BOOLEAN
    /\ handed \subseteq Futures
    /\ event \in [Futures -> BOOLEAN]

\* How many places hold a queue reference to t.
Holders(t) ==
    Cardinality({x \in Threads: At(x, "push") /\ thread[x].task = t})
    + Cardinality({i \in DOMAIN inbox[Priority[t]]: inbox[Priority[t]][i] = t})
    + Cardinality({i \in DOMAIN ready[Priority[t]]: ready[Priority[t]][i] = t})

\* SCHEDULED means "queued, and nobody else's to queue": whatever wakes race
\* the poll, a task is held by exactly one queue or pusher when the bit is set
\* and by none when it is not, so a task being polled is in no queue for a
\* second poll to come from, and its inbox link has one writer.
QueuedOnce ==
    \A t \in Tasks:
        /\ Holders(t) = IF "SCHEDULED" \in state[t] THEN 1 ELSE 0
        /\ "DONE" \in state[t] => "SCHEDULED" \notin state[t]
        /\ "RUNNING" \in state[t] => owner.cur = t /\ "SCHEDULED" \notin state[t]

\* The table names each held task at the slot the task remembers, through any
\* order of swaps, and live counts exactly the futures not yet retired.
TableExact ==
    /\ \A t \in Tasks:
        "HELD" \in state[t] <=>
            slot[t] + 1 \in DOMAIN tasks /\ tasks[slot[t] + 1] = t
    /\ \A i, j \in DOMAIN tasks: tasks[i] = tasks[j] => i = j
    /\ live = Cardinality({t \in Tasks:
                              \/ future[t] = "some"
                              \/ owner.cur = t /\ OwnerAt("finish")})

\* The queues, the table and the task bits describe one set of tasks: whatever
\* wakes, polls and retirements interleave, each live task is in the table once
\* and in at most one queue (task.rs, exec.rs).
TasksExact == TypeOK /\ QueuedOnce /\ TableExact

\* A halted core has nothing to do: with work in the inbox, the root woken or
\* the doorbell rung, an interrupt is on its way or the waker that owes it
\* has not got to it yet.  This is what `park` promises of a wake that
\* arrived while the caller decided it had no work.
NoWakeSleptThrough ==
    OwnerAt("halt") =>
        /\ \A l \in Levels: ready[l] = <<>>
        /\ doorbell => irq \/ \E x \in Threads: At(x, "ipi")
        /\ (rung \/ \E l \in Levels: inbox[l] # <<>>)
             => irq \/ \E x \in Threads: thread[x].pc \in {"ring", "ipi"}

\* Every event a live task waits for is followed by a poll that sees it,
\* whatever its priority and however busy the others keep the core.
EventServed ==
    \A t \in Tasks:
        (event[t] /\ future[t] = "some") ~> (OwnerAt("poll") /\ owner.cur = t)

\* The root future is polled after its event too, provided the core's tasks
\* do not keep `run_until_idle` from ever returning.
RootServed ==
    []<>(owner.pc \in {"root", "halt"}) => (event[Root] ~> ~event[Root])

\* Nobody waits for good: every task's event, of any level, is seen by a poll,
\* and the root's too whenever the core keeps coming back to it (exec.rs).
Served == EventServed /\ RootServed

=============================================================================
