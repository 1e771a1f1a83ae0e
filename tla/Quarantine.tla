----------------------------- MODULE Quarantine -----------------------------
(***************************************************************************)
(* What molt's one address space promises about reuse: an address that was *)
(* taken away is handed out again only after every core that may have      *)
(* cached a translation for it has flushed.                                *)
(*                                                                         *)
(* Addresses are pages, each with the epoch it becomes allocatable in; how *)
(* free ranges are recorded and merged is left to AddressSpace, which      *)
(* implements this module.  The shootdown round (shootdown.rs) and the     *)
(* cores' translation caches are part of the promise and appear whole.     *)
(***************************************************************************)
EXTENDS Naturals

CONSTANTS Pages, Cpus

VARIABLES
  held,       \* pages inside an extent somebody owns
  fresh,      \* of those, the ones whose mapping was not taken away yet
  live,       \* of those, the ones with a leaf in some page table
  ready,      \* page -> epoch whose flush makes it allocatable
  open,       \* epoch that releases currently join
  retired,    \* last epoch every core has flushed
  round,      \* epoch of the open shootdown round, 0 when none is open
  asked,      \* cores the open round waits for
  done,       \* of those, the ones that ran the flush instruction
  flushed,    \* of those, the ones whose acknowledgement was recorded
  attending,  \* cores that reported an executor
  cached      \* core -> pages it may still translate

vars == <<held, fresh, live, ready, open, retired, round, asked, done, flushed,
          attending, cached>>

Init ==
  /\ held = {} /\ fresh = {} /\ live = {}
  /\ ready = [p \in Pages |-> 0]
  /\ open = 1 /\ retired = 0
  /\ round = 0 /\ asked = {} /\ done = {} /\ flushed = {}
  /\ attending \in SUBSET Cpus
  /\ cached = [c \in Cpus |-> {}]

\* A core that starts has cached nothing.
Attend(c) ==
  /\ c \notin attending
  /\ attending' = attending \cup {c}
  /\ UNCHANGED <<held, fresh, live, ready, open, retired, round, asked, done,
                 flushed, cached>>

Allocate(S) ==
  /\ S # {}
  /\ \A p \in S : p \notin held /\ ready[p] <= retired
  /\ held' = held \cup S /\ fresh' = fresh \cup S
  /\ ready' = [p \in Pages |-> IF p \in S THEN 0 ELSE ready[p]]
  /\ UNCHANGED <<live, open, retired, round, asked, done, flushed, attending,
                 cached>>

Grant(S) ==
  /\ S # {} /\ S \subseteq fresh \ live
  /\ live' = live \cup S
  /\ UNCHANGED <<held, fresh, ready, open, retired, round, asked, done, flushed,
                 attending, cached>>

\* The hardware fills a core's cache from a leaf that is present.
Walk(c, p) ==
  /\ c \in attending /\ p \in live
  /\ cached' = [cached EXCEPT ![c] = @ \cup {p}]
  /\ UNCHANGED <<held, fresh, live, ready, open, retired, round, asked, done,
                 flushed, attending>>

\* Step one of a revoke clears the leaves and nothing else.
Revoke(S) ==
  /\ S # {} /\ S \subseteq fresh
  /\ live' = live \ S /\ fresh' = fresh \ S
  /\ UNCHANGED <<held, ready, open, retired, round, asked, done, flushed,
                 attending, cached>>

\* The extent joins the open batch, and may take free neighbours M with it.
Release(S, M) ==
  /\ S # {} /\ S \subseteq held \ live
  /\ M \subseteq Pages \ held
  /\ held' = held \ S /\ fresh' = fresh \ S
  /\ ready' = [p \in Pages |-> IF p \in S \cup M THEN open ELSE ready[p]]
  /\ UNCHANGED <<live, open, retired, round, asked, done, flushed, attending,
                 cached>>

\* Sweep the batch and open a round over every attending core.
Begin ==
  /\ round = 0
  /\ round' = open /\ open' = open + 1
  /\ asked' = attending /\ done' = {} /\ flushed' = {}
  /\ UNCHANGED <<held, fresh, live, ready, retired, attending, cached>>

Flush(c) ==
  /\ round # 0 /\ c \in asked
  /\ cached' = [cached EXCEPT ![c] = {}]
  /\ done' = done \cup {c}
  /\ UNCHANGED <<held, fresh, live, ready, open, retired, round, asked, flushed,
                 attending>>

Acknowledge(c) ==
  /\ round # 0 /\ c \in done
  /\ flushed \cup {c} # asked
  /\ flushed' = flushed \cup {c}
  /\ UNCHANGED <<held, fresh, live, ready, open, retired, round, asked, done,
                 attending, cached>>

\* The acknowledgement that leaves nobody owing retires the epoch.  Free pages
\* whose flush is over may be restamped as their ranges merge.
Close(c) ==
  /\ round # 0 /\ c \in done
  /\ flushed \cup {c} = asked
  /\ retired' = round
  /\ round' = 0 /\ asked' = {} /\ done' = {} /\ flushed' = {}
  /\ ready' \in [Pages -> 0 .. open]
  /\ \A p \in Pages : IF ready[p] <= round THEN ready'[p] <= round
                                           ELSE ready'[p] = ready[p]
  /\ UNCHANGED <<held, fresh, live, open, attending, cached>>

Next ==
  \/ \E c \in Cpus : Attend(c) \/ Flush(c) \/ Acknowledge(c) \/ Close(c)
  \/ \E c \in Cpus, p \in Pages : Walk(c, p)
  \/ \E S \in SUBSET Pages : Allocate(S) \/ Grant(S) \/ Revoke(S)
  \/ \E S, M \in SUBSET Pages : Release(S, M)
  \/ Begin

Spec == Init /\ [][Next]_vars

-----------------------------------------------------------------------------
\* Pages, cores and epochs stay in their sets (Space, Shootdown).
TypeOK ==
  /\ held \in SUBSET Pages /\ fresh \in SUBSET Pages /\ live \in SUBSET Pages
  /\ ready \in [Pages -> Nat]
  /\ open \in Nat /\ retired \in Nat /\ round \in Nat
  /\ asked \in SUBSET Cpus /\ done \in SUBSET Cpus /\ flushed \in SUBSET Cpus
  /\ attending \in SUBSET Cpus
  /\ cached \in [Cpus -> SUBSET Pages]

\* No core translates a page that was handed out and not mapped yet: the page's
\* previous owner cannot be reached through it (shootdown.rs:11, "handing it to
\* a second domain hands over the first one's memory").
NoStaleTranslation ==
  \A c \in Cpus : cached[c] \cap (fresh \ live) = {}

\* A step hands out only pages no core can translate any more, and the epoch
\* every core has flushed never moves backwards (Space::allocate, Space::retire).
HandedOutClean ==
  [][ /\ \A p \in held' \ held : \A c \in Cpus : p \notin cached[c]
      /\ retired' >= retired ]_vars

\* A core that may translate a free page still owes the flush the page waits
\* on.  This is what makes NoStaleTranslation survive a step.
CachedWaits ==
  \A c \in Cpus : \A p \in cached[c] :
    /\ c \in attending
    /\ p \in fresh => p \in live
    /\ p \notin held =>
         /\ ready[p] > retired
         /\ (round # 0 /\ ready[p] <= round) => c \in asked \ done

\* How the epochs and the sets nest.
Nesting ==
  /\ live \subseteq fresh /\ fresh \subseteq held
  /\ retired < open
  /\ round # 0 => retired < round /\ round < open
  /\ flushed \subseteq done /\ done \subseteq asked
  /\ \A p \in Pages : ready[p] <= open

IInv == TypeOK /\ Nesting /\ CachedWaits

=============================================================================
