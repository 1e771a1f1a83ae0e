---------------------------- MODULE DeviceRings -----------------------------
(***************************************************************************)
(* The split virtqueue (device/virtio queue.rs) and the table of requests  *)
(* in flight (request.rs), as functions of their states.                   *)
(*                                                                         *)
(* The driver half keeps a stack of free descriptors and the two indices   *)
(* it has seen; the descriptor table and the two rings are memory shared   *)
(* with the device, whose half is what the queue's documents let a device  *)
(* do: take the chains it is offered, in order, and return each of them    *)
(* once, in any order. A 16-bit index wraps after ROUNDS rounds of a ring  *)
(* here, where 2^16 is some power-of-two multiple of its size. What a free *)
(* descriptor or a passed ring entry last held is not kept: nothing reads  *)
(* it again.                                                               *)
(***************************************************************************)
EXTENDS Integers, Sequences, SequencesExt, FiniteSets

CONSTANTS ROUNDS,     \* rounds of a ring after which its indices wrap
          GENERATIONS \* 2^32: where a request generation wraps

End == -1

Failed == [failed |-> TRUE]

NoSegment == [buf |-> "none"]

NoDescriptor == [seg |-> NoSegment, next |-> End]

NoEntry == [head |-> End, written |-> 0]

\* Queue::new: every descriptor free, descriptor zero on top of the stack.
NewQueue(size) ==
  [size |-> size, free |-> [i \in 1..size |-> size - i],
   desc |-> [d \in 0..(size - 1) |-> NoDescriptor],
   avail |-> [i \in 0..(size - 1) |-> End], availIdx |-> 0,
   used |-> [i \in 0..(size - 1) |-> NoEntry], usedIdx |-> 0, usedSeen |-> 0,
   \* the device's half: the next offer it looks at, and the chains it holds
   offered |-> 0, held |-> {}]

INDEX(size) == ROUNDS * size

Next16(q, i) == (i + 1) % INDEX(q.size)

(* ------------------------------ the driver ------------------------------ *)

MayPush(q, count) == count > 0 /\ count <= Len(q.free)

\* The chain takes its descriptors off the top of the stack, the head first.
Chained(q, count) == [k \in 1..count |-> q.free[Len(q.free) + 1 - k]]

Push(q, segments) ==
  LET count == Len(segments)
      chain == Chained(q, count)
      at(d) == CHOOSE k \in 1..count : chain[k] = d
  IN [q EXCEPT !.desc = [d \in DOMAIN q.desc |->
                           IF d \notin {chain[k] : k \in 1..count} THEN q.desc[d]
                           ELSE [seg |-> segments[at(d)],
                                 next |-> IF at(d) = count THEN End ELSE chain[at(d) + 1]]],
               !.free = SubSeq(@, 1, Len(@) - count),
               !.avail = [@ EXCEPT ![q.availIdx % q.size] = chain[1]],
               !.availIdx = Next16(q, @)]

\* The descriptors a head leads to; a walk that meets a descriptor twice or
\* leaves the table fails.
RECURSIVE Walk(_, _, _)
Walk(desc, index, seen) ==
  IF index \notin DOMAIN desc \/ index \in {seen[k] : k \in 1..Len(seen)} THEN <<End>>
  ELSE LET chain == Append(seen, index)
       IN IF desc[index].next = End THEN chain ELSE Walk(desc, desc[index].next, chain)

Chain(q, head) == Walk(q.desc, head, <<>>)

FreeChain(q, chain) == q.free \o chain

\* Queue::pop. A chain that cannot be freed leaves the index where it was.
Returned(q) == q.usedIdx # q.usedSeen

Pop(q) ==
  LET entry == q.used[q.usedSeen % q.size]
      chain == Chain(q, entry.head)
  IN IF chain = <<End>> \/ Len(q.free) + Len(chain) > q.size THEN Failed
     ELSE [q EXCEPT !.free = FreeChain(q, chain), !.usedSeen = Next16(q, @),
                    !.used = [@ EXCEPT ![q.usedSeen % q.size] = NoEntry],
                    !.desc = [d \in DOMAIN @ |-> IF d \in ToSet(chain) THEN NoDescriptor ELSE @[d]]]

Popped(q) == q.used[q.usedSeen % q.size]

(* ------------------------------ the device ------------------------------ *)

MayTake(q) == q.offered # q.availIdx

Take(q) == [q EXCEPT !.held = @ \cup {q.avail[q.offered % q.size]}, !.offered = Next16(q, @),
                     !.avail = [@ EXCEPT ![q.offered % q.size] = End]]

HeadSegment(q, head) == q.desc[head].seg

GiveBack(q, head, written) ==
  [q EXCEPT !.held = @ \ {head}, !.usedIdx = Next16(q, @),
            !.used = [@ EXCEPT ![q.usedIdx % q.size] = [head |-> head, written |-> written]]]

(* ------------------------- requests in flight --------------------------- *)

NewRequests(size) == [d \in 0..(size - 1) |-> [state |-> "Free", gen |-> 0]]

Issue(r, head) == [r EXCEPT ![head].state = "Pending"]

Token(r, head) == [head |-> head, gen |-> r[head].gen]

Cancel(r, token) ==
  [r EXCEPT ![token.head].state = IF @ = "Pending" /\ r[token.head].gen = token.gen
                                    THEN "Cancelled" ELSE @]

Delivers(r, head) == r[head].state = "Pending"

Complete(r, head) == [r EXCEPT ![head] = [state |-> "Free", gen |-> (@.gen + 1) % GENERATIONS]]

(* ------------------------- what a queue may hold ------------------------ *)

\* The offers between two indices of a ring.
Between(from, to, ring, size) ==
  {ring[(from + k) % size] : k \in 0..(((to - from) % INDEX(size)) - 1)}

\* The chains the driver has out: offered, held by the device, or returned.
Outstanding(q) ==
  Between(q.offered, q.availIdx, q.avail, q.size) \cup q.held
    \cup {e.head : e \in Between(q.usedSeen, q.usedIdx, q.used, q.size)}

\* Every descriptor is free or in exactly one chain that is out.
Conserved(q) ==
  LET out == Outstanding(q)
      owned == [h \in out |-> ToSet(Chain(q, h))]
  IN /\ Cardinality(ToSet(q.free)) = Len(q.free)
     /\ \A h \in out : End \notin owned[h] /\ owned[h] \cap ToSet(q.free) = {}
     /\ \A h, g \in out : h # g => owned[h] \cap owned[g] = {}
     /\ ToSet(q.free) \cup UNION {owned[h] : h \in out} = DOMAIN q.desc

-----------------------------------------------------------------------------
(***************************************************************************)
(* A pair of NVMe queues, as device/nvme queue.rs and lib.rs drive the I/O *)
(* pair and the admin pair: commands are written at the tail and announced *)
(* by the doorbell, completions are new while their phase bit is the one   *)
(* the driver expects. The controller's half is what the queues let a      *)
(* controller do: fetch commands in order, answer them in any order, and   *)
(* never overrun a completion it has not been told the driver took. What a *)
(* fetched command or a taken completion held, its phase apart, is not     *)
(* kept. A doorbell that lies outside the mapped window cannot be written. *)
(***************************************************************************)

NoCommand == [cid |-> -1]

NewRing(n) ==
  [n |-> n, sq |-> [i \in 0..(n - 1) |-> NoCommand], tail |-> 0,
   cq |-> [i \in 0..(n - 1) |-> [cid |-> 0, ok |-> TRUE, phase |-> FALSE]],
   head |-> 0, phase |-> TRUE,
   \* what the doorbells last said
   rung |-> 0, told |-> 0,
   \* the controller's half
   fetched |-> 0, held |-> {}, answered |-> 0, ephase |-> TRUE]

(* ------------------------------ the driver ------------------------------ *)

\* write_command and the tail; the controller learns of it by the doorbell.
WriteCommand(r, command) ==
  [r EXCEPT !.sq = [@ EXCEPT ![r.tail] = command], !.tail = (@ + 1) % r.n]

Submit(r, command) ==
  LET written == WriteCommand(r, command) IN [written EXCEPT !.rung = written.tail]

Completed(r) == r.cq[r.head].phase = r.phase

Completion(r) == r.cq[r.head]

\* The head moves on without ever turning the phase.
AdvanceFlat(r) == [r EXCEPT !.head = (@ + 1) % r.n, !.told = (r.head + 1) % r.n]

Passed(r) == [r.cq EXCEPT ![r.head] = [cid |-> 0, ok |-> TRUE, phase |-> @.phase]]

\* The head and its phase; the controller learns of it by the doorbell.
MoveHead(r) ==
  [r EXCEPT !.head = (@ + 1) % r.n, !.phase = IF r.head + 1 = r.n THEN ~@ ELSE @]

Advance(r) ==
  LET moved == MoveHead(r) IN [moved EXCEPT !.cq = Passed(r), !.told = moved.head]

(* ---------------------------- the controller ---------------------------- *)

MayFetch(r) == r.fetched # r.rung

Fetch(r) == [r EXCEPT !.held = @ \cup {r.sq[r.fetched]}, !.fetched = (@ + 1) % r.n,
                      !.sq = [@ EXCEPT ![r.fetched] = NoCommand]]

MayAnswer(r) == (r.answered + 1) % r.n # r.told

Answer(r, command, ok) ==
  [r EXCEPT !.held = @ \ {command},
            !.cq = [@ EXCEPT ![r.answered] = [cid |-> command.cid, ok |-> ok, phase |-> r.ephase]],
            !.answered = (@ + 1) % r.n,
            !.ephase = IF r.answered + 1 = r.n THEN ~@ ELSE @]

(* ------------------------- what a pair may hold ------------------------- *)

\* The entries of a ring between two of its indices.
Span(r, from, to) == {(from + k) % r.n : k \in 0..(((to - from) % r.n) - 1)}

\* The commands the controller knows of and has not seen taken back, each named
\* by where it is.
Out(r) ==
  {<<"sq", i, r.sq[i].cid>> : i \in Span(r, r.fetched, r.rung)}
    \cup {<<"held", c, c.cid>> : c \in r.held}
    \cup {<<"cq", i, r.cq[i].cid>> : i \in Span(r, r.told, r.answered)}
=============================================================================
