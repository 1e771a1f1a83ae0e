------------------------ MODULE CompletionSlabProofs ------------------------
(* The completion slab for every number of threads, slots and requests: the   *)
(* state word and the waker word of a slot are all the locking its cells need. *)
EXTENDS CompletionSlab, FiniteSetTheorems, TLAPS

Roaming == {"idle", "clear", "grab", "wipe", "take", "taken", "empty", "fire"}
TaskPcs == Roaming \cup {"reserve", "publish", "run", "loop", "consume", "taking", "register", "settle",
                         "recheck", "parked"}
CompleterPcs == {"idle", "scan", "claim", "verify", "take", "taken", "fire"}
CancellerPcs == Roaming \cup {"bulk"}

Thread == [pc : TaskPcs \cup CompleterPcs \cup CancellerPcs, at : Slots, want : Nat,
           seen : SUBSET Bits, held : Tasks \cup {None}]

InRole(t, l) ==
  /\ t \in Tasks => l \in TaskPcs
  /\ t \in Completers => l \in CompleterPcs
  /\ t \in Cancellers => l \in CancellerPcs

\* Threads have their type, and run only what their role runs.
ThreadsOK ==
  /\ th \in [Threads -> Thread]
  /\ \A t \in Threads : InRole(t, th[t].pc)

Unclaimed == {{"occupied"}, {"occupied", "ready"}}
Claimed == {{"occupied", "claim"}, {"occupied", "ready", "claim"}}

\* The values a state word takes, and those that keep other threads out.
Words == {{}, {"reserving"}} \cup Unclaimed \cup Claimed
Locked == {{"reserving"}} \cup Claimed

\* What a thread may count on in the slot it is at, by where it is.
Holds(t) == Claiming(t) \/ th[t].pc = "publish"
Waking(t) == th[t].pc \in {"settle", "taken"}

Owns(t) ==
  /\ th[t].pc = "publish" => state[S(t)] = {"reserving"}
  /\ th[t].pc = "taking" => state[S(t)] = {"occupied", "ready", "claim"}
  /\ th[t].pc = "verify" => state[S(t)] = {"occupied", "claim"}
  /\ th[t].pc \in {"grab", "wipe"} => th[t].seen \in Unclaimed
  /\ th[t].pc = "wipe" => state[S(t)] = th[t].seen \cup {"claim"}
  /\ th[t].pc \in {"take", "taken", "empty"} /\ t \notin Completers =>
       state[S(t)] \in Claimed /\ result[S(t)] = None
  /\ th[t].pc = "settle" => "registering" \in wstate[S(t)]
  /\ th[t].pc = "taken" => wstate[S(t)] = {"waking"}

\* The inductive invariant: a locked word has exactly one holder, a waker cell at
\* most one user, and each thread finds in its slot what it left there.
Locking ==
  /\ \A s \in Slots : state[s] \in Words
  /\ \A s \in Slots : state[s] \in Locked <=> \E t \in Threads : S(t) = s /\ Holds(t)
  /\ \A t, u \in Threads : S(t) = S(u) /\ Holds(t) /\ Holds(u) => t = u
  /\ \A t, u \in Threads : S(t) = S(u) /\ Waking(t) /\ Waking(u) => t = u
  /\ \A t \in Threads : Waking(t) => wstate[S(t)] # {}
  /\ \A t \in Threads : Owns(t)

IInv == TypeOK /\ ThreadsOK /\ Locking

\* A set with no two elements has at most one.
LEMMA AtMostOne ==
  ASSUME NEW Z, \A x, y \in Z : x = y
  PROVE  Cardinality(Z) <= 1
<1>1. CASE Z = {}
  BY <1>1, FS_EmptySet
<1>2. CASE Z # {}
  <2>1. PICK a \in Z : TRUE
    BY <1>2
  <2>2. Z = {a}
    BY <2>1
  <2>3. Cardinality({a}) = 1
    BY FS_Singleton, Zenon
  <2> QED
    BY <2>2, <2>3
<1> QED
  BY <1>1, <1>2

\* The strengthened invariant is what completion.rs and waker.rs promise.
LEMMA LockingSerializes == IInv => CellsSerialize
<1> SUFFICES ASSUME IInv PROVE CellsSerialize
  OBVIOUS
<1> USE DEF IInv
<1>1. ClaimSerializes
  <2> SUFFICES ASSUME NEW s \in Slots
               PROVE  LET owners == {t \in Threads : S(t) = s /\ Claiming(t)} IN
                      Cardinality(owners) <= 1 /\ ("claim" \in state[s] <=> owners # {})
    BY DEF ClaimSerializes
  <2> DEFINE owners == {t \in Threads : S(t) = s /\ Claiming(t)}
  <2>1. \A x, y \in owners : x = y
    BY DEF Locking, Holds
  <2>2. Cardinality(owners) <= 1
    BY <2>1, AtMostOne
  <2>3. ASSUME "claim" \in state[s] PROVE owners # {}
    <3>1. state[s] \in Locked /\ state[s] # {"reserving"}
      BY <2>3 DEF Locking, Words, Locked, Unclaimed
    <3>2. PICK t \in Threads : S(t) = s /\ Holds(t)
      BY <3>1 DEF Locking
    <3>3. th[t].pc # "publish"
      BY <3>1, <3>2 DEF Locking, Owns
    <3> QED
      BY <3>2, <3>3 DEF Holds
  <2>4. ASSUME owners # {} PROVE "claim" \in state[s]
    <3>1. PICK t \in Threads : S(t) = s /\ Claiming(t)
      BY <2>4
    <3>2. Owns(t) /\ (th[t].pc = "empty" => t \notin Completers)
      BY DEF Locking, ThreadsOK, InRole, CompleterPcs
    <3> QED
      BY <3>1, <3>2 DEF Claiming, Owns, Claimed
  <2> QED
    BY <2>2, <2>3, <2>4
<1>2. WakerSerializes
  <2> SUFFICES ASSUME NEW s \in Slots
               PROVE  Cardinality({t \in Threads : S(t) = s /\ th[t].pc \in {"settle", "taken"}}) <= 1
    BY DEF WakerSerializes
  <2>1. \A x, y \in {t \in Threads : S(t) = s /\ th[t].pc \in {"settle", "taken"}} : x = y
    BY DEF Locking, Waking
  <2> QED
    BY <2>1, AtMostOne
<1> QED
  BY <1>1, <1>2 DEF CellsSerialize

-----------------------------------------------------------------------------
\* One thread moves, and touches no slot but the one it is at.
Alone(t) ==
  /\ \A u \in Threads \ {t} : th'[u] = th[u]
  /\ \A s \in Slots \ {S(t)} : state'[s] = state[s] /\ result'[s] = result[s] /\ wstate'[s] = wstate[s]

\* What it may do to the state word: nothing and without holding it; lock it;
\* unlock it; or keep it locked.
Passes(t) == ~Holds(t) /\ ~Holds(t)' /\ state' = state /\ result' = result
Acquires(t) == /\ state[S(t)] \notin Locked /\ state'[S(t)] \in Locked
               /\ ~Holds(t) /\ Holds(t)' /\ S(t)' = S(t)
Releases(t) == state'[S(t)] \in Words \ Locked /\ Holds(t) /\ ~Holds(t)'
Keeps(t) == state'[S(t)] \in Locked /\ Holds(t) /\ Holds(t)' /\ S(t)' = S(t)

\* And to the waker word: nothing but a wake it defers; lock it; unlock it.
Defers(t) == /\ ~Waking(t) /\ ~Waking(t)'
             /\ \/ wstate'[S(t)] = wstate[S(t)]
                \/ wstate[S(t)] # {} /\ wstate'[S(t)] = wstate[S(t)] \cup {"waking"}
Enters(t) == wstate[S(t)] = {} /\ wstate'[S(t)] # {} /\ Waking(t)' /\ S(t)' = S(t)
Leaves(t) == wstate'[S(t)] = {} /\ Waking(t) /\ ~Waking(t)'

\* Such a step keeps every other thread's claims, and so the whole of Locking.
LEMMA StepKeepsLocking ==
  ASSUME TypeOK, ThreadsOK, ThreadsOK', Locking, NEW t \in Threads, Alone(t),
         Passes(t) \/ Acquires(t) \/ Releases(t) \/ Keeps(t),
         Defers(t) \/ Enters(t) \/ Leaves(t),
         Owns(t)'
  PROVE  Locking'
<1>0. S(t) \in Slots /\ S(t)' \in Slots
  BY DEF ThreadsOK, Thread, S
<1>1. \A u \in Threads : u # t => /\ S(u)' = S(u) /\ (Holds(u)' <=> Holds(u)) /\ (Waking(u)' <=> Waking(u))
                                 /\ th'[u] = th[u]
  BY DEF Alone, S, Holds, Claiming, Waking
<1>2. \A u \in Threads : u # t /\ S(u) = S(t) /\ Holds(u) => state[S(t)] \in Locked /\ ~Holds(t)
  BY <1>0 DEF Locking
<1>3. \A u \in Threads : u # t /\ S(u) = S(t) /\ Waking(u) => wstate[S(t)] # {} /\ ~Waking(t)
  BY DEF Locking
<1>4. \A u \in Threads : u # t /\ Holds(u) =>
        state'[S(u)] = state[S(u)] /\ result'[S(u)] = result[S(u)]
  <2> SUFFICES ASSUME NEW u \in Threads, u # t, Holds(u)
               PROVE  state'[S(u)] = state[S(u)] /\ result'[S(u)] = result[S(u)]
    OBVIOUS
  <2>0. S(u) \in Slots
    BY DEF ThreadsOK, Thread, S
  <2>1. CASE S(u) = S(t)
    BY <1>2, <2>1 DEF Passes, Acquires, Releases, Keeps
  <2>2. CASE S(u) # S(t)
    BY <2>0, <2>2 DEF Alone
  <2> QED
    BY <2>1, <2>2
<1>5. \A u \in Threads : u # t /\ Waking(u) =>
        \/ wstate'[S(u)] = wstate[S(u)]
        \/ wstate'[S(u)] = wstate[S(u)] \cup {"waking"}
  <2> SUFFICES ASSUME NEW u \in Threads, u # t, Waking(u)
               PROVE  \/ wstate'[S(u)] = wstate[S(u)]
                      \/ wstate'[S(u)] = wstate[S(u)] \cup {"waking"}
    OBVIOUS
  <2>0. S(u) \in Slots
    BY DEF ThreadsOK, Thread, S
  <2>1. CASE S(u) = S(t)
    BY <1>3, <2>1 DEF Defers, Enters, Leaves
  <2>2. CASE S(u) # S(t)
    BY <2>0, <2>2 DEF Alone
  <2> QED
    BY <2>1, <2>2
<1>6. \A u \in Threads : Owns(u)'
  <2> SUFFICES ASSUME NEW u \in Threads, u # t PROVE Owns(u)'
    OBVIOUS
  <2>0. Owns(u) /\ S(u)' = S(u) /\ th'[u] = th[u]
    BY <1>1 DEF Locking
  <2>1. Holds(u) => state'[S(u)] = state[S(u)] /\ result'[S(u)] = result[S(u)]
    BY <1>4
  <2>2. Waking(u) => wstate'[S(u)] = wstate[S(u)] \/ wstate'[S(u)] = wstate[S(u)] \cup {"waking"}
    BY <1>5
  <2>3. th[u].pc \in {"publish", "taking", "verify", "wipe"} => Holds(u)
    BY DEF Holds, Claiming
  <2>4. th[u].pc \in {"take", "taken", "empty"} /\ u \notin Completers => Holds(u)
    BY DEF Holds, Claiming
  <2>5. th[u].pc \in {"settle", "taken"} => Waking(u)
    BY DEF Waking
  <2> QED
    BY <2>0, <2>1, <2>2, <2>3, <2>4, <2>5 DEF Owns
<1>7. \A u, v \in Threads : S(u)' = S(v)' /\ Holds(u)' /\ Holds(v)' => u = v
  <2>1. \A u \in Threads : u # t /\ S(u)' = S(t)' /\ Holds(u)' /\ Holds(t)' => FALSE
    BY <1>1, <1>2 DEF Passes, Acquires, Releases, Keeps
  <2>2. \A u, v \in Threads : u # t /\ v # t /\ S(u)' = S(v)' /\ Holds(u)' /\ Holds(v)' => u = v
    BY <1>1 DEF Locking
  <2> QED
    BY <2>1, <2>2
<1>8. \A u, v \in Threads : S(u)' = S(v)' /\ Waking(u)' /\ Waking(v)' => u = v
  <2>1. \A u \in Threads : u # t /\ S(u)' = S(t)' /\ Waking(u)' /\ Waking(t)' => FALSE
    BY <1>1, <1>3 DEF Defers, Enters, Leaves
  <2>2. \A u, v \in Threads : u # t /\ v # t /\ S(u)' = S(v)' /\ Waking(u)' /\ Waking(v)' => u = v
    BY <1>1 DEF Locking
  <2> QED
    BY <2>1, <2>2
<1>9. \A u \in Threads : Waking(u)' => wstate'[S(u)'] # {}
  <2>1. Waking(t)' => wstate'[S(t)'] # {}
    BY DEF Defers, Enters, Leaves
  <2>2. \A u \in Threads : u # t /\ Waking(u)' => wstate'[S(u)'] # {}
    BY <1>1, <1>5 DEF Locking
  <2> QED
    BY <2>1, <2>2
<1>10. \A s \in Slots : state'[s] \in Words
  <2>1. \A s \in Slots \ {S(t)} : state'[s] \in Words
    BY DEF Alone, Locking
  <2>2. state'[S(t)] \in Words
    BY <1>0 DEF Locking, Passes, Acquires, Releases, Keeps, Words, Locked
  <2> QED
    BY <2>1, <2>2
<1>11. \A s \in Slots : state'[s] \in Locked <=> \E u \in Threads : S(u)' = s /\ Holds(u)'
  <2> SUFFICES ASSUME NEW s \in Slots
               PROVE  state'[s] \in Locked <=> \E u \in Threads : S(u)' = s /\ Holds(u)'
    OBVIOUS
  <2>0. state[s] \in Locked <=> \E u \in Threads : S(u) = s /\ Holds(u)
    BY DEF Locking
  <2>1. CASE Passes(t)
    BY <2>0, <2>1, <1>1 DEF Passes
  <2>2. CASE s # S(t) /\ ~Passes(t)
    <3>1. state'[s] = state[s]
      BY <2>2 DEF Alone
    <3>2. ~(Holds(t)' /\ S(t)' = s) /\ S(t) # s
      BY <2>2 DEF Acquires, Releases, Keeps
    <3> QED
      BY <3>1, <3>2, <2>0, <1>1
  <2>3. CASE s = S(t) /\ (Acquires(t) \/ Keeps(t))
    BY <2>3 DEF Acquires, Keeps
  <2>4. CASE s = S(t) /\ Releases(t)
    BY <2>4, <1>1, <1>2 DEF Releases
  <2> QED
    BY <2>1, <2>2, <2>3, <2>4
<1> QED
  BY <1>6, <1>7, <1>8, <1>9, <1>10, <1>11 DEF Locking

-----------------------------------------------------------------------------
(* Where a step leaves its thread.                                         *)

\* Replacing one thread's record by one its role allows keeps ThreadsOK.
LEMMA MoveTo ==
  ASSUME ThreadsOK, NEW t \in Threads, NEW r \in Thread, InRole(t, r.pc), th' = [th EXCEPT ![t] = r]
  PROVE  ThreadsOK' /\ th'[t] = r /\ \A u \in Threads \ {t} : th'[u] = th[u]
<1>1. th'[t] = r /\ (\A u \in Threads \ {t} : th'[u] = th[u]) /\ th' \in [Threads -> Thread]
  BY DEF ThreadsOK
<1>2. \A u \in Threads : InRole(u, th'[u].pc)
  BY <1>1 DEF ThreadsOK
<1> QED
  BY <1>1, <1>2 DEF ThreadsOK, InRole

\* A thread that goes on elsewhere keeps the rest of its record.
LEMMA GoTo ==
  ASSUME ThreadsOK, NEW t \in Threads, NEW l \in TaskPcs \cup CompleterPcs \cup CancellerPcs,
         InRole(t, l), Go(t, l)
  PROVE  /\ ThreadsOK' /\ th'[t] = [th[t] EXCEPT !.pc = l]
         /\ th'[t].pc = l /\ S(t)' = S(t) /\ th'[t].seen = th[t].seen
         /\ \A u \in Threads \ {t} : th'[u] = th[u]
<1> DEFINE r == [th[t] EXCEPT !.pc = l]
<1>1. th[t] \in Thread
  BY DEF ThreadsOK
<1>2. r \in Thread /\ r.pc = l /\ r.at = th[t].at /\ r.seen = th[t].seen
  BY <1>1 DEF Thread
<1>3. th' = [th EXCEPT ![t] = r]
  BY DEF Go
<1> HIDE DEF r
<1>4. ThreadsOK' /\ th'[t] = r /\ \A u \in Threads \ {t} : th'[u] = th[u]
  BY <1>2, <1>3, MoveTo, Zenon
<1> QED
  BY <1>2, <1>4 DEF r, S

\* So does one whose operation is over.
LEMMA Rests ==
  ASSUME ThreadsOK, NEW t \in Threads, th' = [th EXCEPT ![t] = Resting]
  PROVE  /\ ThreadsOK' /\ th'[t].pc = "idle"
         /\ \A u \in Threads \ {t} : th'[u] = th[u]
<1>1. Resting \in Thread /\ Resting.pc = "idle"
  <2>1. 1 \in Slots /\ {} \in SUBSET Bits /\ "idle" \in TaskPcs
    BY SlabSize DEF Slots, TaskPcs, Roaming
  <2> QED
    BY <2>1 DEF Resting, Thread
<1>2. InRole(t, Resting.pc)
  BY <1>1 DEF InRole, TaskPcs, CompleterPcs, CancellerPcs, Roaming
<1> QED
  BY <1>1, <1>2, MoveTo, Zenon

\* And one whose scan moves on.
LEMMA Scans ==
  ASSUME ThreadsOK, NEW t \in Threads, NEW l \in TaskPcs \cup CompleterPcs \cup CancellerPcs,
         InRole(t, l), Scan(t, l)
  PROVE  /\ ThreadsOK' /\ th'[t].pc \in {"idle", l}
         /\ \A u \in Threads \ {t} : th'[u] = th[u]
<1>1. CASE S(t) = N
  <2>1. th' = [th EXCEPT ![t] = Resting]
    BY <1>1 DEF Scan
  <2> QED
    BY <2>1, Rests, Zenon
<1>2. CASE S(t) # N
  <2> DEFINE r == [th[t] EXCEPT !.pc = l, !.at = S(t) + 1, !.seen = {}, !.held = None]
  <2>1. th[t] \in Thread /\ S(t) + 1 \in Slots
    BY <1>2, SlabSize DEF ThreadsOK, Thread, S, Slots
  <2>2. r \in Thread /\ r.pc = l
    BY <2>1, Zenon DEF Thread, Bits
  <2>3. th' = [th EXCEPT ![t] = r]
    BY <1>2 DEF Scan
  <2> HIDE DEF r
  <2> QED
    BY <2>2, <2>3, MoveTo, Zenon
<1> QED
  BY <1>1, <1>2

-----------------------------------------------------------------------------
(* Steps that leave both words of every slot alone.                        *)

\* The places where a thread neither holds the state word nor the waker's.
Free == {"idle", "reserve", "run", "loop", "consume", "register", "recheck", "parked", "fire",
         "scan", "claim", "bulk", "clear", "grab"}

\* A step between two such places, on unchanged words, keeps the invariant.
LEMMA FreeStep ==
  ASSUME IInv, TypeOK', ThreadsOK', NEW t \in Threads, \A u \in Threads \ {t} : th'[u] = th[u],
         th[t].pc \in Free, th'[t].pc \in Free, th'[t].pc = "grab" => th'[t].seen \in Unclaimed,
         state' = state, result' = result, wstate' = wstate
  PROVE  IInv'
<1>1. ~Holds(t) /\ ~Waking(t) /\ ~Holds(t)' /\ ~Waking(t)'
  BY DEF Free, Holds, Claiming, Waking
<1>2. Owns(t)'
  BY DEF Free, Owns
<1>3. Alone(t) /\ Passes(t) /\ Defers(t)
  BY <1>1 DEF Alone, Passes, Defers
<1> QED
  BY <1>2, <1>3, StepKeepsLocking DEF IInv

\* A step that changes no slot, and wakes only tasks, keeps TypeOK.
LEMMA TypeKept ==
  ASSUME TypeOK, UNCHANGED slots, UNCHANGED waker, next' = next, woken' \subseteq Tasks
  PROVE  TypeOK' /\ state' = state /\ result' = result /\ wstate' = wstate
BY DEF TypeOK, slots, waker

\* Which places belong to a task, a completer and a canceller.
LEMMA Places ==
  /\ \A t \in Tasks, l \in TaskPcs : InRole(t, l)
  /\ \A t \in Completers, l \in CompleterPcs : InRole(t, l)
  /\ \A t \in Cancellers, l \in CancellerPcs : InRole(t, l)
BY Roles DEF InRole

\* The loads of poll, before and after a registration, and a drop.
LEMMA TaskLooks ==
  ASSUME IInv, NEW t \in Tasks, Poll(t) \/ Recheck(t) \/ Drop(t)
  PROVE  IInv'
<1> USE DEF IInv
<1>0. t \in Threads
  BY DEF Threads
<1>1. TypeOK' /\ state' = state /\ result' = result /\ wstate' = wstate
  <2>1. UNCHANGED slots /\ UNCHANGED waker /\ next' = next /\ woken' \subseteq Tasks
    BY DEF Poll, Recheck, Drop, TypeOK
  <2> QED
    BY <2>1, TypeKept
<1>2. th[t].pc \in Free
  BY DEF Poll, Polled, Recheck, Drop, At, Free
<1>3. Resolve(t) \/ \E l \in {"register", "loop", "consume", "parked", "clear"} : Go(t, l)
  BY DEF Poll, Recheck, Drop
<1>4. CASE Resolve(t)
  <2>1. ThreadsOK' /\ th'[t].pc = "idle" /\ \A u \in Threads \ {t} : th'[u] = th[u]
    BY <1>0, <1>4, Rests, Zenon DEF Resolve
  <2> QED
    BY <1>0, <1>1, <1>2, <2>1, FreeStep DEF Free
<1>5. ASSUME NEW l \in {"register", "loop", "consume", "parked", "clear"}, Go(t, l) PROVE IInv'
  <2>1. l \in TaskPcs /\ l \in Free /\ l # "grab"
    BY DEF TaskPcs, Roaming, Free
  <2>2. ThreadsOK' /\ th'[t].pc = l /\ \A u \in Threads \ {t} : th'[u] = th[u]
    BY <1>0, <1>5, <2>1, GoTo, Places, Zenon
  <2> QED
    BY <1>0, <1>1, <1>2, <2>1, <2>2, FreeStep
<1> QED
  BY <1>3, <1>4, <1>5

\* cancel_all's scan and the check of claim_and_clear.
LEMMA ClearLooks ==
  ASSUME IInv, NEW t \in Tasks \cup Cancellers, (t \in Cancellers /\ Bulk(t)) \/ ClearCheck(t)
  PROVE  IInv'
<1> USE DEF IInv
<1>0. t \in Threads
  BY DEF Threads
<1>1. TypeOK' /\ state' = state /\ result' = result /\ wstate' = wstate
  <2>1. UNCHANGED slots /\ UNCHANGED waker /\ next' = next /\ woken' \subseteq Tasks
    BY DEF Bulk, ClearCheck, TypeOK
  <2> QED
    BY <2>1, TypeKept
<1>2. th[t].pc \in Free
  BY DEF Bulk, ClearCheck, At, Free
<1>3. \/ t \in Cancellers /\ Scan(t, "bulk")
      \/ th' = [th EXCEPT ![t] = Resting]
      \/ th' = [th EXCEPT ![t].pc = "clear", ![t].want = id[S(t)]]
      \/ /\ "occupied" \in state[S(t)] /\ "claim" \notin state[S(t)]
         /\ th' = [th EXCEPT ![t].pc = "grab", ![t].seen = state[S(t)]]
  BY DEF Bulk, ClearCheck, Gone
<1>4. CASE t \in Cancellers /\ Scan(t, "bulk")
  <2>1. "bulk" \in CancellerPcs
    BY DEF CancellerPcs
  <2>2. ThreadsOK' /\ th'[t].pc \in {"idle", "bulk"} /\ \A u \in Threads \ {t} : th'[u] = th[u]
    BY <1>0, <1>4, <2>1, Scans, Places
  <2> QED
    BY <1>0, <1>1, <1>2, <2>2, FreeStep DEF Free
<1>5. CASE th' = [th EXCEPT ![t] = Resting]
  <2>1. ThreadsOK' /\ th'[t].pc = "idle" /\ \A u \in Threads \ {t} : th'[u] = th[u]
    BY <1>0, <1>5, Rests, Zenon
  <2> QED
    BY <1>0, <1>1, <1>2, <2>1, FreeStep DEF Free
<1>10. th[t] \in Thread /\ S(t) \in Slots
  BY <1>0 DEF ThreadsOK, Thread, S
<1>11. InRole(t, "clear") /\ InRole(t, "grab")
  BY Roles DEF InRole, TaskPcs, CancellerPcs, Roaming
<1>6. CASE th' = [th EXCEPT ![t].pc = "clear", ![t].want = id[S(t)]]
  <2> DEFINE r == [th[t] EXCEPT !.pc = "clear", !.want = id[S(t)]]
  <2>1. r \in Thread /\ r.pc = "clear"
    <3>1. "clear" \in TaskPcs /\ id[S(t)] \in Nat
      BY <1>10 DEF TaskPcs, Roaming, TypeOK
    <3> QED
      BY <1>10, <3>1, Zenon DEF Thread
  <2>2. th' = [th EXCEPT ![t] = r]
    BY <1>6, Zenon
  <2> HIDE DEF r
  <2>3. ThreadsOK' /\ th'[t].pc = "clear" /\ \A u \in Threads \ {t} : th'[u] = th[u]
    BY <1>0, <1>11, <2>1, <2>2, MoveTo, Zenon
  <2> QED
    BY <1>0, <1>1, <1>2, <2>3, FreeStep DEF Free
<1>7. CASE /\ "occupied" \in state[S(t)] /\ "claim" \notin state[S(t)]
           /\ th' = [th EXCEPT ![t].pc = "grab", ![t].seen = state[S(t)]]
  <2> DEFINE r == [th[t] EXCEPT !.pc = "grab", !.seen = state[S(t)]]
  <2>1. state[S(t)] \in Unclaimed
    BY <1>7, <1>10 DEF Locking, Words, Unclaimed, Claimed
  <2>2. r \in Thread /\ r.pc = "grab" /\ r.seen = state[S(t)]
    <3>1. "grab" \in TaskPcs /\ state[S(t)] \in SUBSET Bits
      BY <1>10 DEF TaskPcs, Roaming, TypeOK
    <3> QED
      BY <1>10, <3>1, Zenon DEF Thread
  <2>3. th' = [th EXCEPT ![t] = r]
    BY <1>7, Zenon
  <2> HIDE DEF r
  <2>4. ThreadsOK' /\ th'[t] = r /\ \A u \in Threads \ {t} : th'[u] = th[u]
    BY <1>0, <1>11, <2>2, <2>3, MoveTo, Zenon
  <2> QED
    BY <1>0, <1>1, <1>2, <2>1, <2>2, <2>4, FreeStep DEF Free
<1> QED
  BY <1>3, <1>4, <1>5, <1>6, <1>7

\* The scans of reserve and complete, and compare-and-swaps that lose.
LEMMA OthersLook ==
  ASSUME IInv, NEW t \in Threads, NEW l \in Free \ {"grab"}, InRole(t, l),
         l \in TaskPcs \cup CompleterPcs \cup CancellerPcs,
         th[t].pc \in Free, Go(t, l) \/ Scan(t, l) \/ th' = [th EXCEPT ![t] = Resting],
         UNCHANGED slots, UNCHANGED waker, next' = next, woken' \subseteq Tasks
  PROVE  IInv'
<1> USE DEF IInv
<1>1. TypeOK' /\ state' = state /\ result' = result /\ wstate' = wstate
  BY TypeKept
<1>2. ThreadsOK' /\ th'[t].pc \in {"idle", l} /\ \A u \in Threads \ {t} : th'[u] = th[u]
  BY GoTo, Scans, Rests, Zenon
<1>3. th'[t].pc \in Free /\ th'[t].pc # "grab"
  BY <1>2 DEF Free
<1> QED
  BY <1>1, <1>2, <1>3, FreeStep

\* Fire ends an operation, or moves a bulk cancellation on.
LEMMA FireKeeps ==
  ASSUME IInv, NEW t \in Threads, Fire(t)
  PROVE  IInv'
<1> USE DEF IInv
<1>1. th[t].held \in Tasks \cup {None}
  BY DEF ThreadsOK, Thread
<1>2. woken' \subseteq Tasks
  BY <1>1 DEF Fire, TypeOK
<1>3. th[t].pc = "fire" /\ UNCHANGED slots /\ UNCHANGED waker /\ next' = next
  BY DEF Fire, At
<1>4. CASE t \in Cancellers
  <2>1. InRole(t, "bulk") /\ Scan(t, "bulk") /\ "bulk" \in CancellerPcs
    BY <1>4, Places DEF Fire, CancellerPcs
  <2> QED
    BY <1>2, <1>3, <2>1, OthersLook DEF Free
<1>5. CASE t \notin Cancellers
  <2>1. InRole(t, "idle") /\ th' = [th EXCEPT ![t] = Resting] /\ "idle" \in TaskPcs
    BY <1>5 DEF Fire, InRole, TaskPcs, CompleterPcs, CancellerPcs, Roaming
  <2> QED
    BY <1>2, <1>3, <2>1, OthersLook, Zenon DEF Free
<1> QED
  BY <1>4, <1>5

\* complete looks at one slot of its scan.
LEMMA MatchKeeps ==
  ASSUME IInv, NEW t \in Completers, NEW r \in 1 .. next - 1, Match(t, r)
  PROVE  IInv'
<1> USE DEF IInv
<1>0. t \in Threads /\ th[t] \in Thread /\ S(t) \in Slots /\ r \in Nat
  BY DEF Threads, ThreadsOK, Thread, S, TypeOK
<1>1. TypeOK' /\ state' = state /\ result' = result /\ wstate' = wstate
  <2>1. UNCHANGED slots /\ UNCHANGED waker /\ next' = next /\ woken' \subseteq Tasks
    BY DEF Match, TypeOK
  <2> QED
    BY <2>1, TypeKept
<1>2. th[t].pc \in Free
  BY DEF Match, At, Free
<1>3. "claim" \in CompleterPcs /\ "scan" \in CompleterPcs
  BY DEF CompleterPcs
<1>4. CASE th' = [th EXCEPT ![t].pc = "claim", ![t].want = r]
  <2> DEFINE q == [th[t] EXCEPT !.pc = "claim", !.want = r]
  <2>1. q \in Thread /\ q.pc = "claim"
    BY <1>0, <1>3, Zenon DEF Thread
  <2>2. th' = [th EXCEPT ![t] = q]
    BY <1>4, Zenon
  <2> HIDE DEF q
  <2>3. ThreadsOK' /\ th'[t].pc = "claim" /\ \A u \in Threads \ {t} : th'[u] = th[u]
    BY <1>0, <1>3, <2>1, <2>2, MoveTo, Places, Zenon
  <2> QED
    BY <1>0, <1>1, <1>2, <2>3, FreeStep DEF Free
<1>5. CASE th' = [th EXCEPT ![t] = Resting]
  <2>1. InRole(t, "idle") /\ "idle" \in TaskPcs
    BY Places, Roles DEF InRole, TaskPcs, CompleterPcs, Roaming
  <2>2. UNCHANGED slots /\ UNCHANGED waker /\ next' = next /\ woken' \subseteq Tasks
    BY DEF Match, TypeOK
  <2> QED
    BY <1>0, <1>2, <1>5, <2>1, <2>2, OthersLook, Zenon DEF Free
<1>6. CASE S(t) # N /\ th' = [th EXCEPT ![t] = [th[t] EXCEPT !.pc = "scan", !.at = S(t) + 1, !.want = r]]
  <2> DEFINE q == [th[t] EXCEPT !.pc = "scan", !.at = S(t) + 1, !.want = r]
  <2>0. S(t) + 1 \in Slots
    BY <1>0, <1>6, SlabSize DEF Slots
  <2>1. q \in Thread /\ q.pc = "scan"
    BY <1>0, <1>3, <2>0, Zenon DEF Thread
  <2>2. th' = [th EXCEPT ![t] = q]
    BY <1>6
  <2> HIDE DEF q
  <2>3. ThreadsOK' /\ th'[t].pc = "scan" /\ \A u \in Threads \ {t} : th'[u] = th[u]
    BY <1>0, <1>3, <2>1, <2>2, MoveTo, Places, Zenon
  <2> QED
    BY <1>0, <1>1, <1>2, <2>3, FreeStep DEF Free
<1> QED
  BY <1>4, <1>5, <1>6 DEF Match

-----------------------------------------------------------------------------
(* Steps on the state word.                                                *)

\* A compare-and-swap that wins takes the slot's lock.
LEMMA AcquireStep ==
  ASSUME IInv, NEW t \in Threads, NEW l \in {"publish", "taking", "verify", "wipe"},
         l \in TaskPcs \cup CompleterPcs \cup CancellerPcs, InRole(t, l),
         NEW w \in Locked, state[S(t)] \notin Locked, th[t].pc \in Free, Go(t, l), Set(S(t), w),
         l = "publish" => w = {"reserving"},
         l = "taking" => w = {"occupied", "ready", "claim"},
         l = "verify" => w = {"occupied", "claim"},
         l = "wipe" => w = th[t].seen \cup {"claim"} /\ th[t].seen \in Unclaimed,
         id' = id, result' = result, next' = next, woken' = woken, UNCHANGED waker
  PROVE  IInv'
<1> USE DEF IInv
<1>0. S(t) \in Slots /\ w \in SUBSET Bits /\ w # {}
  BY DEF ThreadsOK, Thread, S, Locked, Claimed, Bits
<1>1. state' = [state EXCEPT ![S(t)] = w] /\ state'[S(t)] = w /\ \A s \in Slots \ {S(t)} : state'[s] = state[s]
  BY <1>0 DEF Set, TypeOK
<1>2. TypeOK'
  BY <1>0, <1>1 DEF TypeOK, waker
<1>3. /\ ThreadsOK' /\ th'[t].pc = l /\ S(t)' = S(t) /\ th'[t].seen = th[t].seen
      /\ \A u \in Threads \ {t} : th'[u] = th[u]
  BY GoTo, ZenonT(40)
<1>4. ~Holds(t) /\ Holds(t)' /\ ~Waking(t) /\ ~Waking(t)'
  BY <1>3 DEF Free, Holds, Claiming, Waking
<1>5. Alone(t) /\ Acquires(t) /\ Defers(t)
  BY <1>0, <1>1, <1>3, <1>4 DEF Alone, Acquires, Defers, waker
<1>6. Owns(t)'
  BY <1>1, <1>3 DEF Owns
<1> QED
  BY <1>2, <1>3, <1>5, <1>6, StepKeepsLocking

\* A store by the holder gives the lock up.
LEMMA ReleaseStep ==
  ASSUME IInv, NEW t \in Threads, ThreadsOK', \A u \in Threads \ {t} : th'[u] = th[u],
         Holds(t), ~Waking(t), NEW w \in Words \ Locked, Set(S(t), w),
         th'[t].pc \in Free \ {"grab"} \/ (th'[t].pc = "take" /\ t \in Completers),
         \A s \in Slots \ {S(t)} : result'[s] = result[s],
         TypeOK', UNCHANGED waker
  PROVE  IInv'
<1> USE DEF IInv
<1>0. S(t) \in Slots
  BY DEF ThreadsOK, Thread, S
<1>1. state'[S(t)] = w /\ \A s \in Slots \ {S(t)} : state'[s] = state[s]
  BY <1>0 DEF Set, TypeOK
<1>2. ~Holds(t)' /\ ~Waking(t)' /\ Owns(t)'
  BY DEF Free, Holds, Claiming, Waking, Owns
<1>3. Alone(t) /\ Releases(t) /\ Defers(t)
  BY <1>0, <1>1, <1>2 DEF Alone, Releases, Defers, waker
<1> QED
  BY <1>2, <1>3, StepKeepsLocking, ZenonT(40)

\* reserve: the swap from an empty word, or the next slot.
LEMMA ReserveTryKeeps ==
  ASSUME IInv, NEW t \in Tasks, ReserveTry(t)
  PROVE  IInv'
<1> USE DEF IInv
<1>0. t \in Threads /\ th[t].pc \in Free
  BY DEF Threads, ReserveTry, At, Free
<1>1. /\ "publish" \in TaskPcs /\ "reserve" \in TaskPcs /\ InRole(t, "publish") /\ InRole(t, "reserve")
      /\ {"reserving"} \in Locked /\ {} \notin Locked
  BY Places DEF TaskPcs, Locked, Claimed
<1>2. CASE CompareExchange(S(t), {}, {"reserving"}) /\ Go(t, "publish")
  BY <1>0, <1>1, <1>2, AcquireStep, Zenon DEF CompareExchange, ReserveTry
<1>3. CASE Scan(t, "reserve") /\ UNCHANGED state
  BY <1>0, <1>1, <1>3, OthersLook DEF ReserveTry, slots, Free, TypeOK
<1> QED
  BY <1>2, <1>3 DEF ReserveTry

\* reserve publishes the request under the id it drew.
LEMMA ReservePublishKeeps ==
  ASSUME IInv, NEW t \in Tasks, ReservePublish(t)
  PROVE  IInv'
<1> USE DEF IInv
<1>0. t \in Threads /\ th[t] \in Thread /\ S(t) \in Slots
  BY DEF Threads, ThreadsOK, Thread, S
<1>1. next \in Nat /\ next' \in Nat \ {0}
  BY DEF ReservePublish, TypeOK
<1> DEFINE q == [th[t] EXCEPT !.pc = "run", !.want = next]
<1>2. q \in Thread /\ q.pc = "run" /\ "run" \in TaskPcs
  <2>1. "run" \in TaskPcs
    BY DEF TaskPcs
  <2> QED
    BY <1>0, <1>1, <2>1, Zenon DEF Thread
<1>3. th' = [th EXCEPT ![t] = q]
  BY Zenon DEF ReservePublish
<1> HIDE DEF q
<1>4. ThreadsOK' /\ th'[t].pc = "run" /\ \A u \in Threads \ {t} : th'[u] = th[u]
  BY <1>0, <1>2, <1>3, MoveTo, Places, Zenon
<1>5. TypeOK'
  <2>1. /\ state' = [state EXCEPT ![S(t)] = {"occupied"}] /\ id' = [id EXCEPT ![S(t)] = next]
        /\ result' = result /\ woken' = woken /\ wstate' = wstate /\ cell' = cell
    BY DEF ReservePublish, Set, waker
  <2>2. {"occupied"} \in SUBSET Bits /\ {"occupied"} # {}
    BY DEF Bits
  <2> QED
    BY <1>0, <1>1, <2>1, <2>2 DEF TypeOK
<1>6. Holds(t) /\ ~Waking(t) /\ {"occupied"} \in Words \ Locked
  BY DEF ReservePublish, At, Holds, Waking, Words, Locked, Unclaimed, Claimed
<1> QED
  BY <1>0, <1>4, <1>5, <1>6, ReleaseStep, Zenon DEF ReservePublish, Free

\* poll takes a result that is ready: the swap, and the slot emptied under it.
LEMMA ConsumeKeeps ==
  ASSUME IInv, NEW t \in Tasks, Consume(t)
  PROVE  IInv'
<1> USE DEF IInv
<1>0. t \in Threads /\ th[t].pc \in Free
  BY DEF Threads, Consume, At, Free
<1>1. /\ "taking" \in TaskPcs /\ "loop" \in TaskPcs /\ InRole(t, "taking") /\ InRole(t, "loop")
      /\ {"occupied", "ready", "claim"} \in Locked /\ {"occupied", "ready"} \notin Locked
  BY Places DEF TaskPcs, Locked, Claimed
<1>2. CASE /\ CompareExchange(S(t), {"occupied", "ready"}, {"occupied", "ready", "claim"})
           /\ Go(t, "taking")
  BY <1>0, <1>1, <1>2, AcquireStep, Zenon DEF CompareExchange, Consume
<1>3. CASE Go(t, "loop") /\ UNCHANGED state
  BY <1>0, <1>1, <1>3, OthersLook DEF Consume, slots, Free, TypeOK
<1> QED
  BY <1>2, <1>3 DEF Consume

\* The result is taken out and the slot emptied under the claim.
LEMMA TakingKeeps ==
  ASSUME IInv, NEW t \in Tasks, Taking(t)
  PROVE  IInv'
<1> USE DEF IInv
<1>0. t \in Threads /\ S(t) \in Slots
  BY DEF Threads, ThreadsOK, Thread, S
<1>1. ThreadsOK' /\ th'[t].pc = "idle" /\ \A u \in Threads \ {t} : th'[u] = th[u]
  BY <1>0, Rests, Zenon DEF Taking, Resolve
<1>2. /\ result' = [result EXCEPT ![S(t)] = None] /\ id' = [id EXCEPT ![S(t)] = 0]
      /\ state' = [state EXCEPT ![S(t)] = {}] /\ next' = next /\ woken' = woken
      /\ wstate' = wstate /\ cell' = cell
  BY DEF Taking, Set, waker
<1>3. TypeOK'
  BY <1>0, <1>2 DEF TypeOK, Bits
<1>4. \A s \in Slots \ {S(t)} : result'[s] = result[s]
  BY <1>2 DEF TypeOK
<1>5. Holds(t) /\ ~Waking(t) /\ {} \in Words \ Locked
  BY DEF Taking, At, Holds, Claiming, Waking, Words, Locked, Unclaimed, Claimed
<1> QED
  BY <1>0, <1>1, <1>3, <1>4, <1>5, ReleaseStep DEF Taking, Free

\* complete claims the slot it matched, or scans on.
LEMMA ClaimKeeps ==
  ASSUME IInv, NEW t \in Completers, Claim(t)
  PROVE  IInv'
<1> USE DEF IInv
<1>0. t \in Threads /\ th[t].pc \in Free
  BY DEF Threads, Claim, At, Free
<1>1. /\ "verify" \in CompleterPcs /\ "scan" \in CompleterPcs /\ InRole(t, "verify") /\ InRole(t, "scan")
      /\ {"occupied", "claim"} \in Locked /\ {"occupied"} \notin Locked
  BY Places DEF CompleterPcs, Locked, Claimed
<1>2. CASE CompareExchange(S(t), {"occupied"}, {"occupied", "claim"}) /\ Go(t, "verify")
  BY <1>0, <1>1, <1>2, AcquireStep, Zenon DEF CompareExchange, Claim
<1>3. CASE Scan(t, "scan") /\ UNCHANGED state
  BY <1>0, <1>1, <1>3, OthersLook DEF Claim, slots, Free, TypeOK
<1> QED
  BY <1>2, <1>3 DEF Claim

\* Under the claim, complete gives a reused slot back or publishes the result.
LEMMA VerifyKeeps ==
  ASSUME IInv, NEW t \in Completers, Verify(t)
  PROVE  IInv'
<1> USE DEF IInv
<1>0. t \in Threads /\ S(t) \in Slots /\ th[t].want \in Nat
  BY DEF Threads, ThreadsOK, Thread, S
<1>1. /\ "take" \in CompleterPcs /\ "scan" \in CompleterPcs /\ InRole(t, "take") /\ InRole(t, "scan")
      /\ {"occupied"} \in Words \ Locked /\ {"occupied", "ready"} \in Words \ Locked
  BY Places DEF CompleterPcs, Words, Locked, Claimed, Unclaimed
<1>2. Holds(t) /\ ~Waking(t)
  BY DEF Verify, At, Holds, Claiming, Waking
<1>3. id' = id /\ next' = next /\ woken' = woken /\ wstate' = wstate /\ cell' = cell /\ UNCHANGED waker
  BY DEF Verify, waker
<1>4. CASE Set(S(t), {"occupied"}) /\ Scan(t, "scan") /\ UNCHANGED result
  <2>1. ThreadsOK' /\ th'[t].pc \in {"idle", "scan"} /\ \A u \in Threads \ {t} : th'[u] = th[u]
    BY <1>0, <1>1, <1>4, Scans
  <2>2. state' = [state EXCEPT ![S(t)] = {"occupied"}] /\ {"occupied"} \in SUBSET Bits /\ {"occupied"} # {}
    BY <1>4 DEF Set, Bits
  <2>3. TypeOK'
    BY <1>0, <1>3, <1>4, <2>2 DEF TypeOK
  <2> QED
    BY <1>0, <1>1, <1>2, <1>3, <1>4, <2>1, <2>3, ReleaseStep DEF Free
<1>5. CASE /\ result' = [result EXCEPT ![S(t)] = th[t].want]
           /\ Set(S(t), {"occupied", "ready"}) /\ Go(t, "take")
  <2>1. ThreadsOK' /\ th'[t].pc = "take" /\ \A u \in Threads \ {t} : th'[u] = th[u]
    BY <1>0, <1>1, <1>5, GoTo, Zenon
  <2>2. /\ state' = [state EXCEPT ![S(t)] = {"occupied", "ready"}]
        /\ {"occupied", "ready"} \in SUBSET Bits /\ {"occupied", "ready"} # {}
    BY <1>5 DEF Set, Bits
  <2>3. TypeOK'
    BY <1>0, <1>3, <1>5, <2>2 DEF TypeOK
  <2>4. \A s \in Slots \ {S(t)} : result'[s] = result[s]
    BY <1>5 DEF TypeOK
  <2> QED
    BY <1>0, <1>1, <1>2, <1>3, <1>5, <2>1, <2>3, <2>4, ReleaseStep
<1> QED
  BY <1>4, <1>5 DEF Verify

\* claim_and_clear takes the slot with the word it saw.
LEMMA GrabKeeps ==
  ASSUME IInv, NEW t \in Tasks \cup Cancellers, Grab(t)
  PROVE  IInv'
<1> USE DEF IInv
<1>0. t \in Threads /\ th[t].pc = "grab" /\ th[t] \in Thread
  BY DEF Threads, Grab, At, ThreadsOK
<1>1. th[t].seen \in Unclaimed /\ th[t].seen \cup {"claim"} \in Locked /\ th[t].seen \notin Locked
  <2>1. th[t].seen \in Unclaimed
    BY <1>0 DEF Locking, Owns
  <2> QED
    BY <2>1 DEF Unclaimed, Locked, Claimed
<1>2. /\ "wipe" \in TaskPcs /\ InRole(t, "wipe") /\ "clear" \in TaskPcs /\ InRole(t, "clear")
  BY Roles DEF InRole, TaskPcs, CancellerPcs, Roaming
<1>3. CASE CompareExchange(S(t), th[t].seen, th[t].seen \cup {"claim"}) /\ Go(t, "wipe")
  BY <1>0, <1>1, <1>2, <1>3, AcquireStep DEF CompareExchange, Grab, Free
<1>4. CASE UNCHANGED state /\ th' = [th EXCEPT ![t].pc = "clear", ![t].seen = {}]
  <2> DEFINE q == [th[t] EXCEPT !.pc = "clear", !.seen = {}]
  <2>1. q \in Thread /\ q.pc = "clear"
    BY <1>0, <1>2, Zenon DEF Thread
  <2>2. th' = [th EXCEPT ![t] = q]
    BY <1>4, Zenon
  <2> HIDE DEF q
  <2>3. ThreadsOK' /\ th'[t].pc = "clear" /\ \A u \in Threads \ {t} : th'[u] = th[u]
    BY <1>0, <1>2, <2>1, <2>2, MoveTo, Zenon
  <2>4. TypeOK' /\ state' = state /\ result' = result /\ wstate' = wstate
    BY <1>4, TypeKept DEF Grab, slots, TypeOK
  <2> QED
    BY <1>0, <2>3, <2>4, FreeStep DEF Free
<1> QED
  BY <1>3, <1>4 DEF Grab

\* Under the claim it gives a reused slot back, or drops the result and goes on
\* to the waker.
LEMMA WipeKeeps ==
  ASSUME IInv, NEW t \in Tasks \cup Cancellers, Wipe(t)
  PROVE  IInv'
<1> USE DEF IInv
<1>0. t \in Threads /\ t \notin Completers /\ th[t].pc = "wipe" /\ th[t] \in Thread /\ S(t) \in Slots
  BY Roles DEF Threads, Wipe, At, ThreadsOK, Thread, S
<1>1. /\ th[t].seen \in Unclaimed /\ state[S(t)] = th[t].seen \cup {"claim"}
  BY <1>0 DEF Locking, Owns
<1>2. th[t].seen \in Words \ Locked /\ state[S(t)] \in Claimed /\ th[t].seen \in SUBSET Bits /\ th[t].seen # {}
  BY <1>1 DEF Unclaimed, Locked, Claimed, Words, Bits
<1>3. Holds(t) /\ ~Waking(t)
  BY <1>0 DEF Holds, Claiming, Waking
<1>4. /\ id' = id /\ next' = next /\ woken' = woken /\ UNCHANGED waker
      /\ wstate' = wstate /\ cell' = cell
  BY DEF Wipe, waker
<1>5. CASE Set(S(t), th[t].seen) /\ Gone(t) /\ UNCHANGED result
  <2>1. ThreadsOK' /\ th'[t].pc \in {"idle", "bulk"} /\ \A u \in Threads \ {t} : th'[u] = th[u]
    <3>1. CASE t \in Cancellers /\ Scan(t, "bulk")
      BY <1>0, <3>1, Scans, Places DEF CancellerPcs
    <3>2. CASE th' = [th EXCEPT ![t] = Resting]
      BY <1>0, <3>2, Rests, Zenon
    <3> QED
      BY <1>5, <3>1, <3>2 DEF Gone
  <2>2. TypeOK'
    BY <1>0, <1>2, <1>4, <1>5 DEF TypeOK, Set
  <2> QED
    BY <1>0, <1>2, <1>3, <1>4, <1>5, <2>1, <2>2, ReleaseStep DEF Free
<1>6. CASE /\ result' = [result EXCEPT ![S(t)] = None] /\ UNCHANGED state
           /\ th' = [th EXCEPT ![t].pc = "take", ![t].seen = {}]
  <2> DEFINE q == [th[t] EXCEPT !.pc = "take", !.seen = {}]
  <2>1. "take" \in TaskPcs /\ InRole(t, "take")
    BY Roles DEF InRole, TaskPcs, CompleterPcs, CancellerPcs, Roaming
  <2>2. q \in Thread /\ q.pc = "take" /\ q.at = S(t)
    BY <1>0, <2>1, Zenon DEF Thread, S
  <2>3. th' = [th EXCEPT ![t] = q]
    BY <1>6, Zenon
  <2> HIDE DEF q
  <2>4. ThreadsOK' /\ th'[t] = q /\ \A u \in Threads \ {t} : th'[u] = th[u]
    BY <1>0, <2>1, <2>2, <2>3, MoveTo, Zenon
  <2>5. TypeOK'
    BY <1>0, <1>4, <1>6 DEF TypeOK
  <2>6. S(t)' = S(t) /\ Holds(t)' /\ ~Waking(t)' /\ result'[S(t)] = None
    BY <1>0, <1>6, <2>2, <2>4 DEF S, Holds, Claiming, Waking, TypeOK
  <2>7. Alone(t) /\ Keeps(t) /\ Defers(t)
    BY <1>0, <1>2, <1>3, <1>4, <1>6, <2>4, <2>6, Zenon DEF Alone, Keeps, Defers, TypeOK, Locked
  <2>8. Owns(t)'
    BY <1>2, <1>6, <2>2, <2>4, <2>6 DEF Owns
  <2> QED
    BY <1>0, <2>4, <2>5, <2>7, <2>8, StepKeepsLocking
<1> QED
  BY <1>5, <1>6 DEF Wipe

\* The emptied slot is given up.
LEMMA EmptyKeeps ==
  ASSUME IInv, NEW t \in Tasks \cup Cancellers, Empty(t)
  PROVE  IInv'
<1> USE DEF IInv
<1>0. t \in Threads /\ t \notin Completers /\ th[t].pc = "empty" /\ S(t) \in Slots
  BY Roles DEF Threads, Empty, At, ThreadsOK, Thread, S
<1>1. result[S(t)] = None
  BY <1>0 DEF Locking, Owns
<1>2. "fire" \in TaskPcs /\ InRole(t, "fire")
  BY Roles DEF InRole, TaskPcs, CompleterPcs, CancellerPcs, Roaming
<1>3. ThreadsOK' /\ th'[t].pc = "fire" /\ \A u \in Threads \ {t} : th'[u] = th[u]
  BY <1>0, <1>2, GoTo, Zenon DEF Empty
<1>4. TypeOK'
  <2>1. /\ id' = [id EXCEPT ![S(t)] = 0] /\ state' = [state EXCEPT ![S(t)] = {}]
        /\ result' = result /\ next' = next /\ woken' = woken /\ wstate' = wstate /\ cell' = cell
    BY DEF Empty, Set, waker
  <2> QED
    BY <1>0, <1>1, <2>1 DEF TypeOK
<1>5. Holds(t) /\ ~Waking(t) /\ {} \in Words \ Locked
  BY <1>0 DEF Holds, Claiming, Waking, Words, Locked, Unclaimed, Claimed
<1> QED
  BY <1>0, <1>3, <1>4, <1>5, ReleaseStep DEF Empty, Free

-----------------------------------------------------------------------------
(* Steps on the waker word.                                                *)

\* register takes the waker word, or finds it taken and wakes the task.
LEMMA RegisterKeeps ==
  ASSUME IInv, NEW t \in Tasks, Register(t)
  PROVE  IInv'
<1> USE DEF IInv
<1>0. t \in Threads /\ th[t].pc = "register" /\ S(t) \in Slots
  BY DEF Threads, Register, At, ThreadsOK, Thread, S
<1>1. "settle" \in TaskPcs /\ InRole(t, "settle") /\ "recheck" \in TaskPcs /\ InRole(t, "recheck")
  BY Places DEF TaskPcs
<1>2. CASE /\ wstate[S(t)] = {} /\ wstate' = [wstate EXCEPT ![S(t)] = {"registering"}]
           /\ Go(t, "settle") /\ UNCHANGED woken
  <2>1. ThreadsOK' /\ th'[t].pc = "settle" /\ S(t)' = S(t) /\ \A u \in Threads \ {t} : th'[u] = th[u]
    BY <1>0, <1>1, <1>2, GoTo, Zenon
  <2>2. TypeOK' /\ state' = state /\ result' = result
    BY <1>0, <1>2 DEF Register, TypeOK, slots
  <2>3. wstate'[S(t)] = {"registering"} /\ \A s \in Slots \ {S(t)} : wstate'[s] = wstate[s]
    BY <1>0, <1>2 DEF TypeOK
  <2>4. ~Holds(t) /\ ~Holds(t)' /\ Waking(t)'
    BY <1>0, <2>1 DEF Holds, Claiming, Waking
  <2>5. Alone(t) /\ Passes(t) /\ Enters(t)
    BY <1>2, <2>1, <2>2, <2>3, <2>4 DEF Alone, Passes, Enters
  <2>6. Owns(t)'
    BY <2>1, <2>3 DEF Owns
  <2> QED
    BY <1>0, <2>1, <2>2, <2>5, <2>6, StepKeepsLocking
<1>3. CASE UNCHANGED wstate /\ woken' = woken \cup {t} /\ Go(t, "recheck")
  <2>1. UNCHANGED slots /\ UNCHANGED waker /\ next' = next /\ woken' \subseteq Tasks
    BY <1>3 DEF Register, waker, TypeOK
  <2> QED
    BY <1>0, <1>1, <1>3, <2>1, OthersLook DEF Free
<1> QED
  BY <1>2, <1>3 DEF Register

\* The registration leaves the waker word free, whatever was deferred to it.
LEMMA SettleKeeps ==
  ASSUME IInv, NEW t \in Tasks, Settle(t)
  PROVE  IInv'
<1> USE DEF IInv
<1>0. t \in Threads /\ th[t].pc = "settle" /\ S(t) \in Slots
  BY DEF Threads, Settle, At, ThreadsOK, Thread, S
<1>1. "recheck" \in TaskPcs /\ InRole(t, "recheck")
  BY Places DEF TaskPcs
<1>2. ThreadsOK' /\ th'[t].pc = "recheck" /\ S(t)' = S(t) /\ \A u \in Threads \ {t} : th'[u] = th[u]
  BY <1>0, <1>1, GoTo, Zenon DEF Settle
<1>3. TypeOK' /\ state' = state /\ result' = result
  BY <1>0 DEF Settle, TypeOK, slots
<1>4. wstate'[S(t)] = {} /\ \A s \in Slots \ {S(t)} : wstate'[s] = wstate[s]
  BY <1>0 DEF Settle, TypeOK
<1>5. ~Holds(t) /\ ~Holds(t)' /\ Waking(t) /\ ~Waking(t)'
  BY <1>0, <1>2 DEF Holds, Claiming, Waking
<1>6. Alone(t) /\ Passes(t) /\ Leaves(t)
  BY <1>2, <1>3, <1>4, <1>5 DEF Alone, Passes, Leaves
<1>7. Owns(t)'
  BY <1>2 DEF Owns
<1> QED
  BY <1>0, <1>2, <1>3, <1>6, <1>7, StepKeepsLocking

\* take locks the waker word, or leaves a note for who has it.
LEMMA TakeKeeps ==
  ASSUME IInv, NEW t \in Threads, Take(t)
  PROVE  IInv'
<1> USE DEF IInv
<1> DEFINE l == IF wstate[S(t)] = {} THEN "taken" ELSE AfterTake(t)
<1>0. th[t].pc = "take" /\ S(t) \in Slots
  BY DEF Take, At, ThreadsOK, Thread, S
<1>1. l \in TaskPcs \cup CompleterPcs \cup CancellerPcs /\ InRole(t, l)
  BY Roles DEF AfterTake, InRole, TaskPcs, CompleterPcs, CancellerPcs, Roaming
<1>2. ThreadsOK' /\ th'[t].pc = l /\ S(t)' = S(t) /\ \A u \in Threads \ {t} : th'[u] = th[u]
  <2> HIDE DEF l
  <2>1. Go(t, l)
    BY DEF Take, l
  <2> QED
    BY <1>1, <2>1, GoTo, Zenon
<1>3. TypeOK' /\ state' = state /\ result' = result
  <2>1. wstate[S(t)] \cup {"waking"} \in SUBSET {"registering", "waking"}
    BY <1>0 DEF TypeOK
  <2> QED
    BY <1>0, <2>1 DEF Take, TypeOK, slots
<1>4. /\ wstate'[S(t)] = wstate[S(t)] \cup {"waking"}
      /\ \A s \in Slots \ {S(t)} : wstate'[s] = wstate[s]
  BY <1>0 DEF Take, TypeOK
<1>5. Alone(t)
  BY <1>2, <1>3, <1>4 DEF Alone
<1>6. Passes(t) \/ Keeps(t)
  <2>1. CASE t \in Completers
    BY <1>0, <1>2, <1>3, <2>1 DEF Passes, Holds, Claiming, AfterTake
  <2>2. CASE t \notin Completers
    <3>1. Holds(t) /\ Holds(t)'
      BY <1>0, <1>2, <2>2 DEF Holds, Claiming, AfterTake
    <3>2. state[S(t)] \in Locked
      BY <1>0, <2>2 DEF Locking, Owns, Locked
    <3> QED
      BY <1>2, <1>3, <3>1, <3>2 DEF Keeps
  <2> QED
    BY <2>1, <2>2
<1>7. Defers(t) \/ Enters(t)
  BY <1>0, <1>2, <1>4 DEF Defers, Enters, Waking, AfterTake
<1>8. Owns(t)'
  BY <1>0, <1>2, <1>3, <1>4 DEF Locking, Owns, AfterTake
<1> QED
  BY <1>2, <1>3, <1>5, <1>6, <1>7, <1>8, StepKeepsLocking

\* It takes the waker out and frees the word.
LEMMA TakenKeeps ==
  ASSUME IInv, NEW t \in Threads, Taken(t)
  PROVE  IInv'
<1> USE DEF IInv
<1> DEFINE q == [th[t] EXCEPT !.pc = AfterTake(t), !.held = cell[S(t)]]
<1>0. th[t].pc = "taken" /\ th[t] \in Thread /\ S(t) \in Slots /\ cell[S(t)] \in Tasks \cup {None}
  BY DEF Taken, At, ThreadsOK, Thread, S, TypeOK
<1>1. AfterTake(t) \in TaskPcs \cup CompleterPcs \cup CancellerPcs /\ InRole(t, AfterTake(t))
  BY Roles DEF AfterTake, InRole, TaskPcs, CompleterPcs, CancellerPcs, Roaming
<1>2. q \in Thread /\ q.pc = AfterTake(t) /\ q.at = S(t)
  BY <1>0, <1>1, Zenon DEF Thread, S
<1>3. th' = [th EXCEPT ![t] = q]
  BY Zenon DEF Taken
<1> HIDE DEF q
<1>4. ThreadsOK' /\ th'[t] = q /\ \A u \in Threads \ {t} : th'[u] = th[u]
  BY <1>1, <1>2, <1>3, MoveTo, ZenonT(40)
<1>5. wstate[S(t)] = {"waking"}
  BY <1>0 DEF Locking, Owns
<1>6. wstate'[S(t)] = {} /\ \A s \in Slots \ {S(t)} : wstate'[s] = wstate[s]
  BY <1>0, <1>5 DEF Taken, TypeOK
<1>7. TypeOK' /\ state' = state /\ result' = result
  BY <1>0, <1>5 DEF Taken, TypeOK, slots
<1>8. Alone(t) /\ S(t)' = S(t) /\ th'[t].pc = AfterTake(t)
  BY <1>2, <1>4, <1>6, <1>7 DEF Alone, S
<1>9. Passes(t) \/ Keeps(t)
  <2>1. CASE t \in Completers
    BY <1>0, <1>7, <1>8, <2>1 DEF Passes, Holds, Claiming, AfterTake
  <2>2. CASE t \notin Completers
    <3>1. Holds(t) /\ Holds(t)'
      BY <1>0, <1>8, <2>2 DEF Holds, Claiming, AfterTake
    <3>2. state[S(t)] \in Locked
      BY <1>0, <2>2 DEF Locking, Owns, Locked
    <3> QED
      BY <1>7, <1>8, <3>1, <3>2 DEF Keeps
  <2> QED
    BY <2>1, <2>2
<1>10. Leaves(t)
  BY <1>0, <1>6, <1>8 DEF Leaves, Waking, AfterTake
<1>11. Owns(t)'
  BY <1>0, <1>7, <1>8, ZenonT(40) DEF Locking, Owns, AfterTake
<1> QED
  BY <1>4, <1>7, <1>8, <1>9, <1>10, <1>11, StepKeepsLocking, Zenon

-----------------------------------------------------------------------------
\* Nothing is reserved or parked at boot.
LEMMA InitIInv == Init => IInv
<1> SUFFICES ASSUME Init PROVE IInv
  OBVIOUS
<1>1. /\ Resting \in Thread /\ Resting.pc = "idle" /\ \A t \in Threads : InRole(t, "idle")
  <2>1. 1 \in Slots /\ {} \in SUBSET Bits /\ "idle" \in TaskPcs
    BY SlabSize DEF Slots, TaskPcs, Roaming
  <2>2. \A t \in Threads : InRole(t, "idle")
    BY DEF InRole, TaskPcs, CompleterPcs, CancellerPcs, Roaming
  <2> QED
    BY <2>1, <2>2 DEF Resting, Thread
<1>2. ThreadsOK /\ \A t \in Threads : th[t].pc = "idle"
  BY <1>1 DEF Init, ThreadsOK
<1>3. TypeOK
  BY DEF Init, TypeOK
<1>4. \A t \in Threads : ~Holds(t) /\ ~Waking(t) /\ Owns(t)
  BY <1>2 DEF Holds, Claiming, Waking, Owns
<1>5. \A s \in Slots : state[s] \in Words /\ state[s] \notin Locked
  BY DEF Init, Words, Locked, Claimed
<1> QED
  BY <1>2, <1>3, <1>4, <1>5 DEF IInv, Locking

\* Every step of every thread keeps the invariant.
LEMMA NextIInv == IInv /\ [Next]_vars => IInv'
<1> SUFFICES ASSUME IInv, [Next]_vars PROVE IInv'
  OBVIOUS
<1>1. ASSUME NEW t \in Tasks, ReserveTry(t) \/ Drop(t) \/ TaskStep(t) PROVE IInv'
  BY <1>1, ReserveTryKeeps, TaskLooks, ReservePublishKeeps, ConsumeKeeps, TakingKeeps, RegisterKeeps,
     SettleKeeps DEF TaskStep
<1>2. ASSUME NEW t \in Completers, CompleteStep(t) \/ \E r \in 1 .. next - 1 : Match(t, r) PROVE IInv'
  BY <1>2, ClaimKeeps, VerifyKeeps, MatchKeeps DEF CompleteStep
<1>3. ASSUME NEW t \in Cancellers, Bulk(t) PROVE IInv'
  BY <1>3, ClearLooks
<1>4. ASSUME NEW t \in Threads, WakeStep(t) PROVE IInv'
  BY <1>4, TakeKeeps, TakenKeeps, FireKeeps DEF WakeStep
<1>5. ASSUME NEW t \in Tasks \cup Cancellers, ClearStep(t) PROVE IInv'
  BY <1>5, ClearLooks, GrabKeeps, WipeKeeps, EmptyKeeps DEF ClearStep
<1>6. CASE UNCHANGED vars
  <2>1. UNCHANGED <<state, id, result, wstate, cell, next, th, woken>>
    BY <1>6 DEF vars, slots, waker
  <2>2. TypeOK' /\ ThreadsOK'
    BY <2>1 DEF IInv, TypeOK, ThreadsOK
  <2>3. \A t \in Threads : /\ S(t)' = S(t) /\ (Holds(t)' <=> Holds(t))
                           /\ (Waking(t)' <=> Waking(t)) /\ (Owns(t)' <=> Owns(t))
    BY <2>1 DEF S, Holds, Claiming, Waking, Owns
  <2>4. Locking'
    BY <2>1, <2>3, Zenon DEF IInv, Locking
  <2> QED
    BY <2>2, <2>4 DEF IInv
<1> QED
  BY <1>1, <1>2, <1>3, <1>4, <1>5, <1>6 DEF Next

\* Whatever complete, poll, cancel and cancel_all interleave, on any number of
\* threads and slots, no two are ever inside one slot's result cell or waker
\* cell, and an empty slot holds no request (completion.rs:49, waker.rs:23).
THEOREM Serialized == Spec => []CellsSerialize
<1>1. Init => IInv
  BY InitIInv
<1>2. IInv /\ [Next]_vars => IInv'
  BY NextIInv
<1>3. IInv => CellsSerialize
  BY LockingSerializes
<1> QED
  BY <1>1, <1>2, <1>3, PTL DEF Spec
=============================================================================
