------------------------------ MODULE DmaSpace ------------------------------
(***************************************************************************)
(* DMA memory and the addresses a device reaches it at: the arena of       *)
(* device frames (sys/arch dma.rs, memory.rs), the first-fit IOVA space    *)
(* (sys/arch iommu.rs) and the VirtIO IOMMU that gives every endpoint a    *)
(* domain of its own (device/virtio iommu.rs), as functions of their       *)
(* states. Frames and IOVAs count pages.                                   *)
(*                                                                         *)
(* A controller `u` keeps its own record (`domains`, `space`, `active`)    *)
(* apart from the translations the hardware holds (`attached`, `table`): a *)
(* command that fails may have landed, and the two then differ.            *)
(***************************************************************************)
EXTENDS Integers, Sequences, FiniteSets, FiniteSetsExt

CONSTANTS ACTIVE,      \* mappings the controller can record
          ENDPOINTS    \* attachments the controller can record

Free == "free"

Nothing == [nothing |-> TRUE]

Run(start, n) == start .. (start + n - 1)

Overlap(a, m, b, n) == a < b + n /\ b < a + m

(* ------------------------------- the arena ------------------------------ *)

\* One slot per frame of the span, all vacant.
Over(span) == [f \in span |-> Free]

\* Lowest run of n vacant frames, as a set: empty when there is none.
Vacant(arena, n) ==
  LET fits == {f \in DOMAIN arena :
                 \A g \in Run(f, n) : g \in DOMAIN arena /\ arena[g] = Free}
  IN IF fits = {} THEN {} ELSE Run(Min(fits), n)

Claim(arena, frames, tag) == [f \in DOMAIN arena |-> IF f \in frames THEN tag ELSE arena[f]]

\* FrameTable::release of the frames behind a region the arena handed out.
Release(arena, frames) == [f \in DOMAIN arena |-> IF f \in frames THEN Free ELSE arena[f]]

\* Arena::reset: every frame the tag holds, regions still out included.
Evict(arena, tag) == [f \in DOMAIN arena |-> IF arena[f] = tag THEN Free ELSE arena[f]]

(* ----------------------------- IOVA space ------------------------------- *)

\* A range goes where it meets no live one, at the lowest address that fits.
Reserve(aperture, space, n) ==
  LET live == {s \in DOMAIN space : space[s] # Nothing}
      fits == {a \in aperture : /\ Run(a, n) \subseteq aperture
                                /\ \A s \in live : ~Overlap(a, n, space[s].start, space[s].len)}
      slots == DOMAIN space \ live
  IN IF fits = {} \/ slots = {} THEN Nothing
     ELSE [start |-> Min(fits),
           space |-> [space EXCEPT ![Min(slots)] = [start |-> Min(fits), len |-> n]]]

Unreserve(space, start, n) ==
  [s \in DOMAIN space |-> IF space[s] = [start |-> start, len |-> n] THEN Nothing ELSE space[s]]

(* -------------------------- the VirtIO IOMMU ---------------------------- *)

\* The controller, over the input pages and the domain numbers it hands out.
NewIommu(aperture, range) ==
  [aperture |-> aperture, range |-> range, domains |-> [s \in 1..ENDPOINTS |-> Nothing], space |-> [s \in 1..ACTIVE |-> Nothing],
   active |-> [s \in 1..ACTIVE |-> Nothing], attached |-> {}, table |-> {}]

first_domain(range) == IF Min(range) = 0 THEN 1 ELSE Min(range)

Entries(u) == {u.domains[s] : s \in 1..ENDPOINTS} \ {Nothing}

Records(u) == {u.active[s] : s \in 1..ACTIVE} \ {Nothing}

Vacancies(slots) == {s \in DOMAIN slots : slots[s] = Nothing}

DomainOf(u, device) == {e.domain : e \in {e \in Entries(u) : e.device = device}}

\* The search that forgets which domains are taken.
FreeDomainsAny(u) == {d \in u.range : d >= first_domain(u.range)}

FreeDomains(u) ==
  {d \in u.range : d >= first_domain(u.range) /\ \A e \in Entries(u) : e.domain # d}

\* Iommu::command: the request is pushed and waited for. A refusal comes back as
\* a status; a broken fault queue ends the call although the request may land.
Replies == {"ok", "refused", "torn"}

command(reply) == reply = "ok"

Lands(reply) == reply # "refused"

\* ATTACH; a failed command gives the domain back.
Attach(u, device, reply) ==
  IF DomainOf(u, device) # {} \/ Vacancies(u.domains) = {} \/ FreeDomains(u) = {}
    THEN [ok |-> FALSE, iommu |-> u]
  ELSE LET domain == Min(FreeDomains(u))
           entry == [device |-> device, domain |-> domain]
       IN [ok |-> command(reply),
           iommu |-> [u EXCEPT !.domains = IF command(reply)
                                             THEN [@ EXCEPT ![Min(Vacancies(u.domains))] = entry]
                                             ELSE @,
                               !.attached = IF Lands(reply) THEN @ \cup {<<device, domain>>} ELSE @]]

\* DETACH, refused while the endpoint has a mapping.
Detach(u, device, reply) ==
  IF (\E e \in Records(u) : e.device = device) \/ DomainOf(u, device) = {}
    THEN [ok |-> FALSE, iommu |-> u]
  ELSE [ok |-> command(reply),
        iommu |-> [u EXCEPT !.domains = [s \in 1..ENDPOINTS |->
                                IF command(reply) /\ u.domains[s] # Nothing
                                   /\ u.domains[s].device = device
                                  THEN Nothing ELSE u.domains[s]],
                            !.attached = IF Lands(reply) THEN {a \in @ : a[1] # device} ELSE @]]

\* MAP of a region, which comes back as a mapping or, failed, unmapped.
Map(u, device, frames, perm, reply) ==
  LET n == Cardinality(frames)
      at == Reserve(u.aperture, u.space, n)
  IN IF DomainOf(u, device) = {} \/ n = 0 \/ Vacancies(u.active) = {} \/ at = Nothing
       THEN [ok |-> FALSE, iommu |-> u, mapping |-> Nothing]
     ELSE LET domain == CHOOSE d \in DomainOf(u, device) : TRUE
              entry == [device |-> device, domain |-> domain, iova |-> at.start, len |-> n,
                        perm |-> perm]
              held == IF ~command(reply) THEN u
                      ELSE [u EXCEPT !.space = at.space,
                                     !.active = [@ EXCEPT ![Min(Vacancies(u.active))] = entry]]
          IN [ok |-> command(reply),
              iommu |-> IF ~Lands(reply) THEN held
                        ELSE [held EXCEPT !.table = @ \cup {[domain |-> domain, iova |-> at.start,
                                                             frames |-> frames, perm |-> perm]}],
              mapping |-> [device |-> device, iova |-> at.start, frames |-> frames,
                           perm |-> perm]]

\* UNMAP; after a failed command the mapping stays in the record.
Unmap(u, mapping, reply) ==
  LET n == Cardinality(mapping.frames)
      slots == {s \in 1..ACTIVE :
                  /\ u.active[s] # Nothing
                  /\ u.active[s].device = mapping.device /\ u.active[s].iova = mapping.iova
                  /\ u.active[s].len = n /\ u.active[s].perm = mapping.perm}
  IN IF slots = {} THEN [ok |-> FALSE, iommu |-> u]
     ELSE LET entry == u.active[Min(slots)]
              held == IF ~command(reply) THEN u
                      ELSE [u EXCEPT !.space = Unreserve(@, mapping.iova, n),
                                     !.active = [@ EXCEPT ![Min(slots)] = Nothing]]
          IN [ok |-> command(reply),
              iommu |-> IF ~Lands(reply) THEN held
                        ELSE [held EXCEPT !.table =
                               {t \in @ : t.domain # entry.domain \/ t.iova # entry.iova}]]

\* Iommu::reset, refused while anything is attached or mapped.
MayReset(u) == Entries(u) = {} /\ Records(u) = {}

\* What the hardware lets a device do at a mapping's address.
Reaches(u, device, mapping, access) ==
  \E a \in u.attached, t \in u.table :
    /\ a[1] = device /\ t.domain = a[2] /\ t.iova = mapping.iova
    /\ t.frames = mapping.frames /\ access \subseteq t.perm
=============================================================================
