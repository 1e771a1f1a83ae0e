---------------------------- MODULE AddressSpace ----------------------------
(***************************************************************************)
(* molt's virtual address allocator (crates/sys/arch/src/va.rs) together   *)
(* with the shootdown round that gates reuse (shootdown.rs) and the kernel *)
(* sequence that drives both (kernel/src/space.rs, kernel/src/smp.rs).     *)
(*                                                                         *)
(* Each class has an arena of Size[k] granules and a free list of at most  *)
(* Slots[k] holes, sorted by address.  Extents are non-copy values, so the *)
(* set of the ones in circulation is part of the state.                    *)
(***************************************************************************)
EXTENDS Integers, Sequences, FiniteSets, Arena

CONSTANTS Cpus, Boot, Classes,
          Size,       \* class -> granules in its arena
          Slots,      \* class -> holes its free list can record
          MaxEpoch    \* bound: batches swept in one behaviour

ASSUME ArenaSizes == \A k \in Classes : Size[k] \in Nat \ {0} /\ Slots[k] \in Nat \ {0}
ASSUME BootCore == Boot \in Cpus
ASSUME EpochBound == MaxEpoch \in Nat \ {0}

VARIABLES
  holes,      \* class -> free list, a sequence of [start, end, ready]
  extents,    \* extents handed out, [class, start, end]
  granted,    \* of those, the ones mapped in a view
  revoked,    \* of those, the ones whose leaves were cleared again
  open, retired,                  \* Space
  epoch, asked, flushed,          \* Shootdown; epoch 0 is a closed tracker
  done,                           \* cores that ran the flush for the open round
  attending,                      \* cores that reported an executor
  cached                          \* core -> pages it may still translate

space == <<holes, extents, open, retired>>
round == <<epoch, asked, flushed, done>>
views == <<granted, revoked, cached>>
vars == <<holes, extents, granted, revoked, open, retired, epoch, asked, flushed,
          done, attending, cached>>

PagesOf(e) == {<<e.class, i>> : i \in e.start .. e.end - 1}

Init ==
  /\ holes = [k \in Classes |-> <<Hole(0, Size[k], 0)>>]
  /\ extents = {} /\ granted = {} /\ revoked = {}
  /\ open = 1 /\ retired = 0
  /\ epoch = 0 /\ asked = {} /\ flushed = {} /\ done = {}
  /\ attending = {Boot}
  /\ cached = [c \in Cpus |-> {}]

-----------------------------------------------------------------------------
\* Arena::allocate takes the first hole that is flushed and large enough.
Fits(h, n) == h.ready <= retired /\ h.end - h.start >= n

\* Space::allocate: bytes == 0 and an exhausted class change nothing.
Allocate(k, n) ==
  \E i \in DOMAIN holes[k] :
    /\ Fits(holes[k][i], n) /\ \A j \in 1 .. i - 1 : ~ Fits(holes[k][j], n)
    /\ extents' = extents \cup {[class |-> k, start |-> holes[k][i].start,
                                 end |-> holes[k][i].start + n]}
    /\ holes' = [holes EXCEPT ![k] = Carve(@, i, n)]
    /\ UNCHANGED <<granted, revoked, open, retired, attending, cached>>
    /\ UNCHANGED round

\* Platform::grant maps a fresh extent into a view.
Grant(e) ==
  /\ e \notin granted \cup revoked
  /\ granted' = granted \cup {e}
  /\ UNCHANGED <<revoked, attending, cached>> /\ UNCHANGED space /\ UNCHANGED round

\* A core walks the tables and caches what it finds.
Walk(c, e) ==
  /\ c \in attending /\ e \in granted
  /\ \E p \in PagesOf(e) : cached' = [cached EXCEPT ![c] = @ \cup {p}]
  /\ UNCHANGED <<granted, revoked, attending>> /\ UNCHANGED space /\ UNCHANGED round

\* Platform::revoke clears the leaves; every cache stays as it is.
Revoke(e) ==
  /\ e \in granted
  /\ granted' = granted \ {e} /\ revoked' = revoked \cup {e}
  /\ UNCHANGED <<attending, cached>> /\ UNCHANGED space /\ UNCHANGED round

\* Space::release.  A refusal hands the extent back and changes nothing.
Release(e) ==
  /\ e \in extents \ granted
  /\ ~ Overlaps(holes[e.class], e)
  /\ holes' = [holes EXCEPT ![e.class] = Return(@, e, Slots[e.class], open)]
  /\ holes' # holes
  /\ extents' = extents \ {e} /\ revoked' = revoked \ {e}
  /\ UNCHANGED <<granted, open, retired, attending, cached>> /\ UNCHANGED round

\* space::recycle: Space::sweep, then Shootdown::begin over smp::attending.
Begin ==
  /\ epoch = 0 /\ open < MaxEpoch
  /\ epoch' = open /\ open' = open + 1
  /\ asked' = attending /\ flushed' = {} /\ done' = {}
  /\ UNCHANGED <<holes, extents, retired, attending>> /\ UNCHANGED views

\* The task smp::flush sends to a core runs the flush instruction there.
Flush(c) ==
  /\ epoch # 0 /\ c \in asked
  /\ cached' = [cached EXCEPT ![c] = {}]
  /\ done' = done \cup {c}
  /\ UNCHANGED <<granted, revoked, attending, epoch, asked, flushed>>
  /\ UNCHANGED space

\* A round that closed with one core still owing its flush.
RoundOverEarly(c) == Cardinality(flushed \cup {c}) + 1 >= Cardinality(asked)

\* The acknowledgement that leaves nobody owing closes the round.
RoundOver(c) == flushed \cup {c} = asked

\* Shootdown::acknowledge, and Space::retire on the one that closes the round.
Acknowledge(c) ==
  /\ epoch # 0 /\ c \in done
  /\ \/ /\ ~ RoundOver(c)
        /\ flushed' = flushed \cup {c}
        /\ UNCHANGED <<holes, retired, epoch, asked, done>>
     \/ /\ RoundOver(c)
        /\ epoch' = 0 /\ asked' = {} /\ flushed' = {} /\ done' = {}
        /\ retired' = epoch
        /\ holes' = [k \in Classes |-> Settle(holes[k], epoch)]
  /\ UNCHANGED <<extents, open, attending>> /\ UNCHANGED views

\* smp::attach: a started core reports its executor.
Attend(c) ==
  /\ c \notin attending
  /\ attending' = attending \cup {c}
  /\ UNCHANGED space /\ UNCHANGED round /\ UNCHANGED views

Next ==
  \/ \E k \in Classes : \E n \in 1 .. Size[k] : Allocate(k, n)
  \/ \E e \in extents : Grant(e) \/ Revoke(e) \/ Release(e)
  \/ \E c \in Cpus, e \in extents : Walk(c, e)
  \/ Begin
  \/ \E c \in Cpus : Flush(c) \/ Acknowledge(c) \/ Attend(c)

Spec == Init /\ [][Next]_vars

-----------------------------------------------------------------------------
(* Properties.                                                             *)

AllPages == UNION {{<<k, i>> : i \in 0 .. Size[k] - 1} : k \in Classes}
HolePages(k, h) == {<<k, i>> : i \in h.start .. h.end - 1}

\* The state keeps its shape and no free list outgrows the slots it was given.
TypeOK ==
  /\ \A k \in Classes : Len(holes[k]) <= Slots[k]
  /\ granted \subseteq extents /\ revoked \subseteq extents
  /\ open \in 1 .. MaxEpoch /\ retired \in 0 .. open - 1 /\ epoch \in 0 .. open - 1
  /\ flushed \subseteq done /\ done \subseteq asked /\ asked \subseteq attending
  /\ cached \in [Cpus -> SUBSET AllPages]

\* Holes are sorted, disjoint and non-empty, and holes and extents together
\* cover each arena exactly: carving, merging across epochs and settling lose
\* no address and hand none out twice (Arena::allocate, release, settle).
EveryPageOwnedOnce ==
  /\ \A k \in Classes : \A i \in DOMAIN holes[k] :
       /\ holes[k][i].start < holes[k][i].end
       /\ i > 1 => holes[k][i - 1].end <= holes[k][i].start
  /\ \A e, f \in extents : e # f => PagesOf(e) \cap PagesOf(f) = {}
  /\ \A k \in Classes :
       LET free == UNION {HolePages(k, holes[k][i]) : i \in DOMAIN holes[k]}
           used == UNION {PagesOf(e) : e \in {x \in extents : x.class = k}}
       IN free \cap used = {} /\ free \cup used = {<<k, i>> : i \in 0 .. Size[k] - 1}

\* "Immediate coalescing" (va.rs:8): two ranges that could be handed out as one
\* are never recorded apart, so Space::largest is not understated.
Coalesced ==
  \A k \in Classes : \A i \in DOMAIN holes[k] :
    i > 1 => ~ /\ holes[k][i - 1].end = holes[k][i].start
               /\ holes[k][i - 1].ready <= retired /\ holes[k][i].ready <= retired

\* The free lists are exact: within their slots, every page owned once, and
\* nothing left apart that could be one, after any run of allocations, releases,
\* merges across epochs and retirements (va.rs).
HolesExact == TypeOK /\ EveryPageOwnedOnce /\ Coalesced

Covering(p) == {i \in DOMAIN holes[p[1]] : p \in HolePages(p[1], holes[p[1]][i])}

\* The quarantine this arena implements: a page's stamp is its hole's, and a
\* held page keeps the open epoch out of the way with 0.
Held == UNION {PagesOf(e) : e \in extents}
Fresh == UNION {PagesOf(e) : e \in extents \ revoked}
Mapped == UNION {PagesOf(e) : e \in granted}
Stamp == [p \in AllPages |-> IF Covering(p) = {} THEN 0
                            ELSE holes[p[1]][CHOOSE i \in Covering(p) : TRUE].ready]

Q == INSTANCE Quarantine WITH
  Pages <- AllPages, held <- Held, fresh <- Fresh, live <- Mapped, ready <- Stamp,
  round <- epoch

\* A page some core may still translate is never handed out for another
\* mapping, whatever ranges its hole was merged with (shootdown.rs:11).
NoStaleTranslation == Q!NoStaleTranslation

\* The hole lists implement the quarantine of single pages.
ImplementsQuarantine == Q!Spec
=============================================================================
