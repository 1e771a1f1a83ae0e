------------------------------- MODULE Arena --------------------------------
(***************************************************************************)
(* The free list of one class of addresses, as va.rs's Arena keeps it: a   *)
(* sequence of holes sorted by address, each stamped with the epoch whose  *)
(* flush makes it allocatable.                                             *)
(***************************************************************************)
EXTENDS Integers, Sequences

Hole(s, e, r) == [start |-> s, end |-> e, ready |-> r]

\* Arena::remove, and the gap release makes: the holes above move by one.
Remove(hs, i) == [j \in 1 .. Len(hs) - 1 |-> IF j < i THEN hs[j] ELSE hs[j + 1]]
Insert(hs, i, h) ==
  [j \in 1 .. Len(hs) + 1 |-> IF j < i THEN hs[j] ELSE IF j = i THEN h ELSE hs[j - 1]]

\* Mistakes an arena could make; each stands in for the definition after it.
CarveLosesTail(hs, i, n) == Remove(hs, i)
MergedKeepsOld(s, e, r, old) == Hole(s, e, old)

\* Arena::allocate takes the hole's first granules, and the hole with its last.
Carve(hs, i, n) ==
  IF hs[i].start + n = hs[i].end THEN Remove(hs, i)
  ELSE [hs EXCEPT ![i] = Hole(@.start + n, @.end, @.ready)]

\* Arena::release merges with a neighbour waiting on the same epoch, or with
\* any neighbour once the free list has no slot left.
Joins(full, h, e) == full \/ h.ready = e

\* A merged range waits for the open epoch, the latest of its parts.
Merged(s, e, r, old) == Hole(s, e, r)

NoSlot(hs, limit) == Len(hs) = limit

\* The partition point: holes up to it start below the end of the released range.
Below(hs, e) ==
  CHOOSE at \in 0 .. Len(hs) : /\ \A i \in 1 .. at : hs[i].start < e.end
                              /\ \A i \in at + 1 .. Len(hs) : hs[i].start >= e.end

Overlaps(hs, e) == LET at == Below(hs, e) IN at > 0 /\ hs[at].end > e.start

\* The free list with e put back, or hs itself when there is no slot for it.
Return(hs, e, limit, ready) ==
  LET at    == Below(hs, e)
      full  == NoSlot(hs, limit)
      below == at > 0 /\ hs[at].end = e.start /\ Joins(full, hs[at], ready)
      above == at < Len(hs) /\ hs[at + 1].start = e.end /\ Joins(full, hs[at + 1], ready)
  IN CASE below /\ above ->
            Remove([hs EXCEPT ![at] = Merged(@.start, hs[at + 1].end, ready, @.ready)],
                     at + 1)
       [] below /\ ~above ->
            [hs EXCEPT ![at] = Merged(@.start, e.end, ready, @.ready)]
       [] ~below /\ above ->
            [hs EXCEPT ![at + 1] = Merged(e.start, @.end, ready, @.ready)]
       [] ~below /\ ~above /\ full -> hs
       [] ~below /\ ~above /\ ~full ->
            Insert(hs, at + 1, Hole(e.start, e.end, ready))

\* Arena::settle joins the neighbours a retired flush made interchangeable: the
\* next hole h with the last one kept, or it is kept itself.
Later(a, b) == IF a > b THEN a ELSE b

Interchangeable(a, h, r) == a.end = h.start /\ a.ready <= r /\ h.ready <= r

Kept(hs, h, r) ==
  LET n == Len(hs) IN
  IF n > 0 /\ Interchangeable(hs[n], h, r)
  THEN [hs EXCEPT ![n] = Hole(hs[n].start, h.end, Later(hs[n].ready, h.ready))]
  ELSE Append(hs, h)

Settle(hs, r) ==
  LET settled[i \in 0 .. Len(hs)] ==
        IF i = 0 THEN << >> ELSE Kept(settled[i - 1], hs[i], r)
  IN settled[Len(hs)]

=============================================================================
