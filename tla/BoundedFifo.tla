---------------------------- MODULE BoundedFifo ----------------------------
(***************************************************************************)
(* What a molt ring promises its two endpoints: a queue of at most         *)
(* Capacity values, filled at one end by a single producer and emptied in  *)
(* order at the other by a single consumer.  A refused push and an empty   *)
(* pop change nothing, so they are stuttering steps here.                  *)
(***************************************************************************)
EXTENDS Naturals, Sequences

CONSTANTS Capacity,   \* entries the queue can hold
          Values      \* what may be queued

VARIABLE queue

Init == queue = << >>

Push(v) == /\ Len(queue) < Capacity
           /\ queue' = Append(queue, v)

Pop == /\ queue # << >>
       /\ queue' = Tail(queue)

\* The ring is dropped with whatever it still holds.
Discard == queue' = << >>

Next == (\E v \in Values : Push(v)) \/ Pop \/ Discard

Spec == Init /\ [][Next]_queue
=============================================================================
