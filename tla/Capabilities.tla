---------------------------- MODULE Capabilities ----------------------------
(***************************************************************************)
(* A table of resources behind capabilities (sys/core capability.rs) and   *)
(* the ring a service answers on (sys/core ring.rs), as functions of their *)
(* states, for the network services.                                       *)
(*                                                                         *)
(* A capability is its slot and the generation the slot had when it was    *)
(* handed out. A 32-bit generation does not wrap here.                     *)
(***************************************************************************)
EXTENDS Integers, Sequences, FiniteSets, SequencesExt

None == [none |-> TRUE]

Empty == [gen |-> 1, owner |-> 0, used |-> FALSE, resource |-> 0]

NewTable(n) == [i \in 1..n |-> Empty]

FreeIn(slots, Free(_)) == {i \in DOMAIN slots : Free(slots[i])}

\* The lowest slot the predicate holds of, as `iter().find` takes it; 0 if none.
First(slots, Free(_)) ==
  IF FreeIn(slots, Free) = {} THEN 0
  ELSE CHOOSE i \in FreeIn(slots, Free) : \A j \in FreeIn(slots, Free) : i <= j

IsNone(x) == x = None
Unused(slot) == ~slot.used

Room(table) == First(table, Unused)

Insert(table, i, owner, resource) ==
  [table EXCEPT ![i] = [@ EXCEPT !.owner = owner, !.used = TRUE, !.resource = resource]]

Named(table, i) == [slot |-> i, gen |-> table[i].gen]

Valid(table, cap) ==
  cap.slot \in DOMAIN table /\ table[cap.slot].gen = cap.gen /\ table[cap.slot].used

Emptied(slot) == [slot EXCEPT !.used = FALSE, !.resource = 0, !.gen = @ + 1]

Revoke(table, cap) == [table EXCEPT ![cap.slot] = Emptied(@)]

RevokeOwner(table, owner) ==
  [i \in DOMAIN table |-> IF table[i].used /\ table[i].owner = owner THEN Emptied(table[i]) ELSE table[i]]

RevokeAll(table) == [i \in DOMAIN table |-> IF table[i].used THEN Emptied(table[i]) ELSE table[i]]

Live(table) == {i \in DOMAIN table : table[i].used}

\* BufferRegistry::resolve: a buffer lasts as long as the life of the client that
\* registered it, and the region asked for may lie outside it. The scratch buffers
\* of a transport always resolve.
Resolvable(q, life) == "life" \notin DOMAIN q \/ (q.life = life /\ q.fits)

\* An answer, and the one place a service keeps an answer its ring had no room for.
Answer(id, res, val) == [id |-> id, res |-> res, val |-> val]

\* Mutant: an answer there is no room for is dropped.
PublishDrops(s, answer, room) ==
  IF Len(s.com) < room THEN [s EXCEPT !.com = Append(@, answer)] ELSE s

Publish(s, answer, room) ==
  IF Len(s.com) < room THEN [s EXCEPT !.com = Append(@, answer)] ELSE [s EXCEPT !.held = answer]

Flush(s, room) == IF s.held = None THEN s ELSE Publish([s EXCEPT !.held = None], s.held, room)
=============================================================================
