--------------------------- MODULE CompletionSlab ---------------------------
(***************************************************************************)
(* The lock-free completion slab (crates/sys/core/src/completion.rs) and   *)
(* the AtomicWaker each slot holds (waker.rs).                             *)
(*                                                                         *)
(* Tasks reserve a slot, poll it and may drop their future; completers     *)
(* publish results; cancellers run cancel_all.  The payload of a result is *)
(* the id it was published under.  Accesses are sequentially consistent.   *)
(* One step is one atomic access, except where the next access is one that *)
(* no other thread can tell from it: a load of the state word with the id  *)
(* load after it, and whatever is stored while CLAIM, REGISTERING or       *)
(* WAKING is held together with the store that gives it up.                *)
(***************************************************************************)
EXTENDS Integers, FiniteSets

CONSTANTS Tasks, Completers, Cancellers,
          N,             \* slots
          MaxRequests,   \* bound: requests reserved in one behaviour
          None

ASSUME SlabSize == N \in Nat \ {0}
ASSUME Roles == /\ Tasks \cap Completers = {} /\ Tasks \cap Cancellers = {} /\ Completers \cap Cancellers = {}
                /\ None \notin Tasks /\ None \notin Nat

VARIABLES
  state,     \* slot -> bits set in its state word
  id,        \* slot -> request it holds, 0 for none
  result,    \* slot -> payload, None when empty
  wstate,    \* slot -> bits set in its waker's state word
  cell,      \* slot -> task whose waker is stored, or None
  next,      \* next_request
  th,        \* thread -> where it is and what it holds
  woken,     \* tasks whose waker fired since they were last polled
  called     \* ids somebody has called complete for

slots == <<state, id, result>>
waker == <<wstate, cell>>
vars == <<state, id, result, wstate, cell, next, th, woken, called>>

Threads == Tasks \cup Completers \cup Cancellers
Slots == 1 .. N
Resting == [pc |-> "idle", at |-> 1, want |-> 0, seen |-> {}, held |-> None]

Init ==
  /\ state = [s \in Slots |-> {}] /\ id = [s \in Slots |-> 0]
  /\ result = [s \in Slots |-> None]
  /\ wstate = [s \in Slots |-> {}] /\ cell = [s \in Slots |-> None]
  /\ next = 1
  /\ th = [t \in Threads |-> Resting]
  /\ woken = {} /\ called = {}

At(t, l) == th[t].pc = l
S(t) == th[t].at
Go(t, l) == th' = [th EXCEPT ![t].pc = l]

\* Moves a scan to the next slot, or ends the operation.
Scan(t, l) ==
  th' = [th EXCEPT ![t] = IF S(t) = N THEN Resting
                          ELSE [@ EXCEPT !.pc = l, !.at = S(t) + 1, !.seen = {}, !.held = None]]

Set(s, bits) == state' = [state EXCEPT ![s] = bits]
CompareExchange(s, old, new) == state[s] = old /\ Set(s, new)

-----------------------------------------------------------------------------
(* CompletionSlab::reserve                                                 *)

ReserveTry(t) ==
  /\ \/ At(t, "reserve")
     \/ /\ At(t, "idle")
        /\ next + Cardinality({u \in Tasks : th[u].pc \in {"reserve", "publish"}}) <= MaxRequests
  /\ \/ CompareExchange(S(t), {}, {"reserving"}) /\ Go(t, "publish")
     \/ state[S(t)] # {} /\ Scan(t, "reserve") /\ UNCHANGED state
  /\ UNCHANGED <<id, result, next, woken, called>> /\ UNCHANGED waker

ReservePublish(t) ==
  /\ At(t, "publish")
  /\ id' = [id EXCEPT ![S(t)] = next] /\ next' = next + 1
  /\ Set(S(t), {"occupied"})
  /\ th' = [th EXCEPT ![t].pc = "run", ![t].want = next]
  /\ UNCHANGED <<result, woken, called>> /\ UNCHANGED waker

-----------------------------------------------------------------------------
(* CompletionSlab::poll                                                    *)

\* The future is ready, with the result or with None.
Resolve(t) == th' = [th EXCEPT ![t] = Resting]

\* The executor polls a task it holds, and a parked one once it was woken.
Polled(t) == At(t, "run") \/ (At(t, "parked") /\ t \in woken)

\* One turn of the loop: the state and id loads, and the branch on them.
Poll(t) ==
  /\ Polled(t) \/ At(t, "loop")
  /\ woken' = IF Polled(t) THEN woken \ {t} ELSE woken
  /\ \/ id[S(t)] # th[t].want /\ Resolve(t)
     \/ /\ id[S(t)] = th[t].want
        /\ Go(t, IF "ready" \notin state[S(t)] THEN "register"
                 ELSE IF "claim" \in state[S(t)] THEN "loop" ELSE "consume")
  /\ UNCHANGED <<next, called>> /\ UNCHANGED slots /\ UNCHANGED waker

Consume(t) ==
  /\ At(t, "consume")
  /\ \/ /\ CompareExchange(S(t), {"occupied", "ready"}, {"occupied", "ready", "claim"})
        /\ Go(t, "taking")
     \/ state[S(t)] # {"occupied", "ready"} /\ Go(t, "loop") /\ UNCHANGED state
  /\ UNCHANGED <<id, result, next, woken, called>> /\ UNCHANGED waker

Taking(t) ==
  /\ At(t, "taking")
  /\ Resolve(t)
  /\ result' = [result EXCEPT ![S(t)] = None] /\ id' = [id EXCEPT ![S(t)] = 0]
  /\ Set(S(t), {})
  /\ UNCHANGED <<next, woken, called>> /\ UNCHANGED waker

\* Parks without looking at the slot again.
RecheckBlind(t) ==
  /\ At(t, "recheck") /\ Go(t, "parked")
  /\ UNCHANGED <<next, woken, called>> /\ UNCHANGED slots /\ UNCHANGED waker

\* The loads after registration.
Recheck(t) ==
  /\ At(t, "recheck")
  /\ \/ id[S(t)] # th[t].want /\ Resolve(t)
     \/ /\ id[S(t)] = th[t].want
        /\ Go(t, IF "ready" \in state[S(t)] THEN "loop" ELSE "parked")
  /\ UNCHANGED <<next, woken, called>> /\ UNCHANGED slots /\ UNCHANGED waker

-----------------------------------------------------------------------------
(* AtomicWaker::register                                                   *)

Register(t) ==
  /\ At(t, "register")
  /\ \/ /\ wstate[S(t)] = {} /\ wstate' = [wstate EXCEPT ![S(t)] = {"registering"}]
        /\ Go(t, "settle") /\ UNCHANGED woken
     \/ /\ wstate[S(t)] # {} /\ UNCHANGED wstate
        /\ woken' = woken \cup {t} /\ Go(t, "recheck")
  /\ UNCHANGED <<cell, next, called>> /\ UNCHANGED slots

\* Stores the waker and leaves REGISTERING; a wake deferred meanwhile fires it.
Settle(t) ==
  /\ At(t, "settle")
  /\ wstate' = [wstate EXCEPT ![S(t)] = {}]
  /\ \/ /\ wstate[S(t)] = {"registering"}
        /\ cell' = [cell EXCEPT ![S(t)] = t] /\ UNCHANGED woken
     \/ /\ wstate[S(t)] # {"registering"}
        /\ cell' = [cell EXCEPT ![S(t)] = None]
        /\ woken' = woken \cup {t}
  /\ Go(t, "recheck")
  /\ UNCHANGED <<next, called>> /\ UNCHANGED slots

-----------------------------------------------------------------------------
(* AtomicWaker::take, which a completion and a cancellation both run       *)

AfterTake(t) == IF t \in Completers THEN "fire" ELSE "empty"

Take(t) ==
  /\ At(t, "take")
  /\ wstate' = [wstate EXCEPT ![S(t)] = @ \cup {"waking"}]
  /\ Go(t, IF wstate[S(t)] = {} THEN "taken" ELSE AfterTake(t))
  /\ UNCHANGED <<cell, next, woken, called>> /\ UNCHANGED slots

Taken(t) ==
  /\ At(t, "taken")
  /\ th' = [th EXCEPT ![t].pc = AfterTake(t), ![t].held = cell[S(t)]]
  /\ cell' = [cell EXCEPT ![S(t)] = None]
  /\ wstate' = [wstate EXCEPT ![S(t)] = @ \ {"waking"}]
  /\ UNCHANGED <<next, woken, called>> /\ UNCHANGED slots

\* Fires what was taken.  A bulk cancellation scans on, anything else is over.
Fire(t) ==
  /\ At(t, "fire")
  /\ woken' = woken \cup ({th[t].held} \ {None})
  /\ IF t \in Cancellers THEN Scan(t, "bulk") ELSE th' = [th EXCEPT ![t] = Resting]
  /\ UNCHANGED <<next, called>> /\ UNCHANGED slots /\ UNCHANGED waker

-----------------------------------------------------------------------------
(* CompletionSlab::complete                                                *)

\* The two loads for one slot of the scan.
Match(t, r) ==
  /\ \/ At(t, "idle") /\ r \notin called /\ called' = called \cup {r}
     \/ At(t, "scan") /\ r = th[t].want /\ UNCHANGED called
  /\ IF state[S(t)] = {"occupied"} /\ id[S(t)] = r
     THEN th' = [th EXCEPT ![t].pc = "claim", ![t].want = r]
     ELSE th' = [th EXCEPT ![t] = IF S(t) = N THEN Resting
                                  ELSE [@ EXCEPT !.pc = "scan", !.at = S(t) + 1, !.want = r]]
  /\ UNCHANGED <<next, woken>> /\ UNCHANGED slots /\ UNCHANGED waker

\* Takes the slot over without comparing the state word first.
ClaimBlind(t) ==
  /\ At(t, "claim") /\ Set(S(t), {"occupied", "claim"}) /\ Go(t, "verify")
  /\ UNCHANGED <<id, result, next, woken, called>> /\ UNCHANGED waker

Claim(t) ==
  /\ At(t, "claim")
  /\ \/ CompareExchange(S(t), {"occupied"}, {"occupied", "claim"}) /\ Go(t, "verify")
     \/ state[S(t)] # {"occupied"} /\ Scan(t, "scan") /\ UNCHANGED state
  /\ UNCHANGED <<id, result, next, woken, called>> /\ UNCHANGED waker

\* The id is read again under the claim: a slot reused meanwhile is given back.
Verify(t) ==
  /\ At(t, "verify")
  /\ \/ /\ id[S(t)] # th[t].want
        /\ Set(S(t), {"occupied"}) /\ Scan(t, "scan") /\ UNCHANGED result
     \/ /\ id[S(t)] = th[t].want
        /\ result' = [result EXCEPT ![S(t)] = th[t].want]
        /\ Set(S(t), {"occupied", "ready"}) /\ Go(t, "take")
  /\ UNCHANGED <<id, next, woken, called>> /\ UNCHANGED waker

-----------------------------------------------------------------------------
(* CompletionSlab::claim_and_clear, from cancel and from cancel_all        *)

\* cancel_all picks up the id each slot holds.
Bulk(t) ==
  /\ At(t, "idle") \/ At(t, "bulk")
  /\ IF id[S(t)] = 0 THEN Scan(t, "bulk")
     ELSE th' = [th EXCEPT ![t].pc = "clear", ![t].want = id[S(t)]]
  /\ UNCHANGED <<next, woken, called>> /\ UNCHANGED slots /\ UNCHANGED waker

\* CompletionFuture::drop cancels between polls.
Drop(t) ==
  /\ At(t, "run") \/ At(t, "parked")
  /\ Go(t, "clear")
  /\ UNCHANGED <<next, woken, called>> /\ UNCHANGED slots /\ UNCHANGED waker

\* Nothing of this request is left in the slot.
Gone(t) == IF t \in Cancellers THEN Scan(t, "bulk") ELSE th' = [th EXCEPT ![t] = Resting]

ClearCheck(t) ==
  /\ At(t, "clear")
  /\ \/ ("occupied" \notin state[S(t)] \/ id[S(t)] # th[t].want) /\ Gone(t)
     \/ /\ "occupied" \in state[S(t)] /\ id[S(t)] = th[t].want
        /\ "claim" \notin state[S(t)]
        /\ th' = [th EXCEPT ![t].pc = "grab", ![t].seen = state[S(t)]]
  /\ UNCHANGED <<next, woken, called>> /\ UNCHANGED slots /\ UNCHANGED waker

Grab(t) ==
  /\ At(t, "grab")
  /\ \/ CompareExchange(S(t), th[t].seen, th[t].seen \cup {"claim"}) /\ Go(t, "wipe")
     \/ /\ state[S(t)] # th[t].seen /\ UNCHANGED state
        /\ th' = [th EXCEPT ![t].pc = "clear", ![t].seen = {}]
  /\ UNCHANGED <<id, result, next, woken, called>> /\ UNCHANGED waker

Wipe(t) ==
  /\ At(t, "wipe")
  /\ \/ /\ id[S(t)] # th[t].want
        /\ Set(S(t), th[t].seen) /\ Gone(t) /\ UNCHANGED result
     \/ /\ id[S(t)] = th[t].want
        /\ result' = [result EXCEPT ![S(t)] = None]
        /\ th' = [th EXCEPT ![t].pc = "take", ![t].seen = {}] /\ UNCHANGED state
  /\ UNCHANGED <<id, next, woken, called>> /\ UNCHANGED waker

Empty(t) ==
  /\ At(t, "empty")
  /\ id' = [id EXCEPT ![S(t)] = 0] /\ Set(S(t), {}) /\ Go(t, "fire")
  /\ UNCHANGED <<result, next, woken, called>> /\ UNCHANGED waker

-----------------------------------------------------------------------------
TaskStep(t) ==
  \/ ReservePublish(t) \/ Poll(t) \/ Consume(t) \/ Taking(t) \/ Recheck(t)
  \/ Register(t) \/ Settle(t)

WakeStep(t) == Take(t) \/ Taken(t) \/ Fire(t)
ClearStep(t) == ClearCheck(t) \/ Grab(t) \/ Wipe(t) \/ Empty(t)
CompleteStep(t) == Claim(t) \/ Verify(t)

Next ==
  \/ \E t \in Tasks : ReserveTry(t) \/ Drop(t) \/ TaskStep(t)
  \/ \E t \in Completers : CompleteStep(t) \/ \E r \in 1 .. next - 1 : Match(t, r)
  \/ \E t \in Cancellers : Bulk(t)
  \/ \E t \in Threads : WakeStep(t)
  \/ \E t \in Tasks \cup Cancellers : ClearStep(t)

\* A thread inside an operation keeps running; nobody has to start one.
Fairness ==
  /\ \A t \in Tasks : WF_vars(TaskStep(t) \/ WakeStep(t) \/ ClearStep(t))
  /\ \A t \in Completers : WF_vars(CompleteStep(t) \/ WakeStep(t))
  /\ \A t \in Cancellers : WF_vars(WakeStep(t) \/ ClearStep(t))

Spec == Init /\ [][Next]_vars /\ Fairness

-----------------------------------------------------------------------------
Bits == {"occupied", "ready", "claim", "reserving"}

\* State words, ids and waker words stay within their ranges, and a slot whose
\* state word is clear holds no request and no result.
TypeOK ==
  /\ state \in [Slots -> SUBSET Bits] /\ wstate \in [Slots -> SUBSET {"registering", "waking"}]
  /\ id \in [Slots -> Nat] /\ result \in [Slots -> Nat \cup {None}]
  /\ cell \in [Slots -> Tasks \cup {None}] /\ next \in Nat \ {0}
  /\ woken \subseteq Tasks
  /\ \A s \in Slots : state[s] = {} => id[s] = 0 /\ result[s] = None

Claiming(t) ==
  \/ th[t].pc \in {"taking", "verify", "wipe", "empty"}
  \/ th[t].pc \in {"take", "taken"} /\ t \notin Completers

\* The CLAIM bit has one owner: no two of complete, poll and claim_and_clear are
\* ever inside the same slot's result cell, even across reuse of the slot
\* (completion.rs:49, "`RESERVING` and `CLAIM` serialize `result`").
ClaimSerializes ==
  \A s \in Slots :
    LET owners == {t \in Threads : S(t) = s /\ Claiming(t)} IN
    /\ Cardinality(owners) <= 1
    /\ "claim" \in state[s] <=> owners # {}

\* The waker cell likewise has one writer, whichever of a registration and a
\* take got to its state word first (waker.rs:23).
WakerSerializes ==
  \A s \in Slots :
    Cardinality({t \in Threads : S(t) = s /\ th[t].pc \in {"settle", "taken"}}) <= 1

\* Neither cell of a slot ever has two users, and an empty slot names no request
\* and holds no result: the two words of completion.rs and waker.rs are all the
\* locking there is.
CellsSerialize == TypeOK /\ ClaimSerializes /\ WakerSerializes

NoBulkCancel == \A t \in Cancellers : At(t, "idle")

\* While nobody cancels in bulk, a future parked on a request whose result is
\* ready is polled again: no wake is lost between complete and registration,
\* not even when a stale completion meets the slot's next owner
\* (completion.rs:280, waker.rs:39).
ReadyWakes ==
  []NoBulkCancel =>
    \A t \in Tasks :
      (At(t, "parked") /\ id[S(t)] = th[t].want /\ "ready" \in state[S(t)])
        ~> ~ At(t, "parked")

\* No thread is still inside a slot, or about to fire t's waker.
Settled(t) == \A u \in Threads : th[u].held # t /\ ~ Claiming(u)

\* claim_and_clear empties a slot "dropping any pending result and waking a
\* parked task" (completion.rs:199): once the cancellation is over, no task
\* stays parked and unwoken on a request that left the slab.
CancelWakes ==
  \A t \in Tasks :
    At(t, "parked") /\ id[S(t)] # th[t].want /\ Settled(t) => t \in woken
=============================================================================
