------------------------ MODULE AddressSpaceProofs ------------------------
(***************************************************************************)
(* The free lists of AddressSpace for every arena, every number of hole    *)
(* slots and every number of cores: they stay exact, and they implement    *)
(* the quarantine of single pages.                                         *)
(***************************************************************************)
EXTENDS AddressSpace, ArenaProofs

-----------------------------------------------------------------------------
(* Pages, and the quarantine's view of a state. *)

Extents == [class : Classes, start : Nat, end : Nat]

\* Address a of class k lies in extent e.
In(e, k, a) == e.class = k /\ e.start <= a /\ a < e.end

\* AllPages is every address of every arena.
LEMMA AllPagesIs ==
  /\ \A p \in AllPages : \E k \in Classes, a \in Nat : p = <<k, a>> /\ a < Size[k]
  /\ \A k \in Classes, a \in Nat : a < Size[k] => <<k, a>> \in AllPages
  /\ \A k, a : <<k, a>> \in AllPages => k \in Classes /\ a \in Nat /\ a < Size[k]
<1>1. \A k \in Classes : Size[k] \in Nat
  BY ArenaSizes
<1> QED
  BY <1>1 DEF AllPages

\* The pages of an extent are its addresses.
LEMMA PagesOfIs ==
  ASSUME NEW e \in Extents
  PROVE  /\ \A p \in PagesOf(e) : \E a \in Nat : p = <<e.class, a>>
         /\ \A k, a : <<k, a>> \in PagesOf(e) <=> a \in Nat /\ In(e, k, a)
<1>1. e.start \in Nat /\ e.end \in Nat
  BY DEF Extents
<1> QED
  BY <1>1 DEF PagesOf, In

\* Stamp of the free lists H.
Covers(H, p) == {i \in DOMAIN H[p[1]] : p \in HolePages(p[1], H[p[1]][i])}
Stamps(H) == [p \in AllPages |-> IF Covers(H, p) = {} THEN 0
                                ELSE H[p[1]][CHOOSE i \in Covers(H, p) : TRUE].ready]

\* A free page is stamped with what it waits for, another with 0.
LEMMA StampsIs ==
  ASSUME NEW H \in [Classes -> Seq(Holes)], NEW k \in Classes, NEW a \in Nat, a < Size[k],
         Ordered(H[k])
  PROVE  /\ \A q : Waits(H[k], a, q) => Stamps(H)[<<k, a>>] = q
         /\ ~ Free(H[k], a) => Stamps(H)[<<k, a>>] = 0
<1> DEFINE p == <<k, a>>
           hs == H[k]
           C == Covers(H, p)
<1>0. hs \in Seq(Holes) /\ DOMAIN hs = 1 .. Len(hs)
  OBVIOUS
<1>1. p \in AllPages /\ p[1] = k
  BY AllPagesIs
<1>2. \A i : i \in C <=> i \in 1 .. Len(hs) /\ Over(hs, i, a)
  <2>1. /\ \A i \in 1 .. Len(hs) : Lo(hs, i) \in Nat /\ Hi(hs, i) \in Nat
    BY <1>0, Listed
  <2>2. ASSUME NEW i \in 1 .. Len(hs) PROVE p \in HolePages(k, hs[i]) <=> Over(hs, i, a)
    <3>1. HolePages(k, hs[i]) = {<<k, x>> : x \in Lo(hs, i) .. Hi(hs, i) - 1}
      BY Zenon DEF HolePages, Lo, Hi
    <3>2. Lo(hs, i) \in Nat /\ Hi(hs, i) \in Nat
      BY <2>1
    <3> HIDE DEF hs
    <3>3. a \in Lo(hs, i) .. Hi(hs, i) - 1 <=> Over(hs, i, a)
      BY <3>2 DEF Over
    <3> QED
      BY <3>1, <3>3
  <2>3. C = {i \in DOMAIN hs : p \in HolePages(k, hs[i])}
    BY <1>1, Zenon DEF Covers
  <2> HIDE DEF C, hs, p
  <2> QED
    BY <1>0, <2>2, <2>3, Zenon
<1>3. Stamps(H)[p] = IF C = {} THEN 0 ELSE Ep(hs, CHOOSE i \in C : TRUE)
  <2>1. \A x \in AllPages :
          Stamps(H)[x] = IF Covers(H, x) = {} THEN 0
                         ELSE Ep(H[x[1]], CHOOSE i \in Covers(H, x) : TRUE)
    BY Zenon DEF Stamps, Ep
  <2> HIDE DEF p
  <2> QED
    BY <1>1, <2>1, Zenon
<1>4. Ordered(hs)
  OBVIOUS
<1> HIDE DEF C, hs, p
<1>5. ASSUME NEW q, Waits(hs, a, q) PROVE Stamps(H)[p] = q
  <2>1. PICK i \in 1 .. Len(hs) : Over(hs, i, a) /\ Ep(hs, i) = q
    BY <1>5 DEF Waits
  <2> DEFINE j == CHOOSE x \in C : TRUE
  <2>2. C # {} /\ j \in C
    BY <1>2, <2>1, Zenon
  <2>3. Stamps(H)[p] = Ep(hs, j)
    BY <1>3, <2>2, Zenon
  <2> HIDE DEF j
  <2>4. j = i
    BY <1>0, <1>2, <1>4, <2>1, <2>2, OneHole
  <2> QED
    BY <2>1, <2>3, <2>4, Zenon
<1>6. ASSUME ~ Free(hs, a) PROVE Stamps(H)[p] = 0
  <2>1. C = {}
    BY <1>2, <1>6 DEF Free
  <2> QED
    BY <1>3, <2>1, Zenon
<1> QED
  BY <1>5, <1>6, Zenon DEF hs, p

-----------------------------------------------------------------------------
(* The arenas and the extents together. *)

\* What an arena keeps, retired and open being the space's epochs.
ListOK(hs, limit, rd, op) ==
  /\ hs \in Seq(Holes) /\ Ordered(hs) /\ Len(hs) <= limit /\ Apart(hs, rd)
  /\ \A a, q \in Nat : Waits(hs, a, q) => q <= op
Lists(H, rd, op) ==
  H \in [Classes -> Seq(Holes)] /\ \A k \in Classes : ListOK(H[k], Slots[k], rd, op)

\* Extents are not empty and no address is in two of them.
Spread(E) ==
  /\ E \in SUBSET Extents
  /\ \A e \in E : e.start < e.end
  /\ \A e, f \in E, k \in Classes, a \in Nat : In(e, k, a) /\ In(f, k, a) => e = f

\* Every address of an arena is free or in an extent, and never both.
Used(E, k, a) == \E e \in E : In(e, k, a)
Cover(H, E) ==
  \A k \in Classes, a \in Nat : /\ Free(H[k], a) \/ Used(E, k, a) <=> a < Size[k]
                                /\ ~ (Free(H[k], a) /\ Used(E, k, a))

\* A free address waits for some epoch, and in an ordered list for one.
LEMMA FreeWaits ==
  ASSUME NEW hs \in Seq(Holes), NEW a \in Nat
  PROVE  /\ Free(hs, a) <=> \E q \in Nat : Waits(hs, a, q)
         /\ \A q : Waits(hs, a, q) => q \in Nat
         /\ Ordered(hs) => \A q, s : Waits(hs, a, q) /\ Waits(hs, a, s) => q = s
<1>1. \A i \in 1 .. Len(hs) : Ep(hs, i) \in Nat
  BY Listed
<1>2. Free(hs, a) <=> \E q \in Nat : Waits(hs, a, q)
  BY <1>1 DEF Free, Waits
<1>3. \A q : Waits(hs, a, q) => q \in Nat
  BY <1>1 DEF Waits
<1>4. ASSUME Ordered(hs), NEW q, NEW s, Waits(hs, a, q), Waits(hs, a, s) PROVE q = s
  <2>1. PICK i \in 1 .. Len(hs) : Over(hs, i, a) /\ Ep(hs, i) = q
    BY <1>4 DEF Waits
  <2>2. PICK j \in 1 .. Len(hs) : Over(hs, j, a) /\ Ep(hs, j) = s
    BY <1>4 DEF Waits
  <2>3. i = j
    BY <1>4, <2>1, <2>2, OneHole
  <2> QED
    BY <2>1, <2>2, <2>3
<1> QED
  BY <1>2, <1>3, <1>4

\* The state after an allocation: e is new, its addresses waited for r and are free no
\* more, and every other address waits as it did.
Allocated(G, F, H, E, e, r, rd, op) ==
  /\ Lists(G, rd, op) /\ Spread(F) /\ Cover(G, F) /\ e \in Extents /\ e \notin E
  /\ \A a \in Nat : In(e, e.class, a) => Waits(H[e.class], a, r)
  /\ \A l \in Classes, a, q \in Nat : ~ In(e, l, a) => (Waits(G[l], a, q) <=> Waits(H[l], a, q))

\* Arena::allocate.
LEMMA AllocateLists ==
  ASSUME NEW H, NEW E, NEW rd \in Nat, NEW op \in Nat, Lists(H, rd, op), Spread(E), Cover(H, E),
         NEW k \in Classes, NEW n \in Nat \ {0}, NEW i \in 1 .. Len(H[k]),
         Lo(H[k], i) + n <= Hi(H[k], i),
         NEW e, e = [class |-> k, start |-> Lo(H[k], i), end |-> Lo(H[k], i) + n],
         NEW G, G = [H EXCEPT ![k] = Carve(H[k], i, n)], NEW F, F = E \cup {e}
  PROVE  Allocated(G, F, H, E, e, Ep(H[k], i), rd, op)
<1> DEFINE hs == H[k]
           gs == Carve(hs, i, n)
           lo == Lo(hs, i)
           r == Ep(hs, i)
<1>1. /\ H \in [Classes -> Seq(Holes)] /\ hs \in Seq(Holes) /\ Ordered(hs) /\ Len(hs) <= Slots[k]
      /\ Apart(hs, rd) /\ \A a, q \in Nat : Waits(hs, a, q) => q <= op
  BY DEF Lists, ListOK
<1>2. /\ gs \in Seq(Holes) /\ Ordered(gs) /\ Len(gs) <= Len(hs)
      /\ \A a, q \in Nat : Waits(gs, a, q) <=> Waits(hs, a, q) /\ ~ (lo <= a /\ a < lo + n)
      /\ Apart(gs, rd)
  BY <1>1, CarveKeeps
<1>3. lo \in Nat /\ Hi(hs, i) \in Nat /\ r \in Nat /\ Len(hs) \in Nat /\ Len(gs) \in Nat
  BY <1>1, <1>2, Listed
<1>4. G \in [Classes -> Seq(Holes)] /\ G[k] = gs /\ \A l \in Classes : l # k => G[l] = H[l]
  <2> HIDE DEF gs
  <2>1. G = [H EXCEPT ![k] = gs]
    BY DEF gs
  <2> QED
    BY <1>1, <1>2, <2>1
<1>5. /\ e \in Extents /\ e.class = k /\ e.start < e.end
      /\ \A l, a : In(e, l, a) <=> l = k /\ lo <= a /\ a < lo + n
  <2> HIDE DEF lo
  <2>1. e = [class |-> k, start |-> lo, end |-> lo + n]
    BY DEF lo
  <2> QED
    BY <1>3, <2>1 DEF Extents, In
<1> HIDE DEF gs, lo, r
<1>6. ASSUME NEW a \in Nat, In(e, k, a) PROVE Waits(hs, a, r)
  <2>1. lo <= a /\ a < Hi(hs, i)
    BY <1>3, <1>5, <1>6 DEF lo
  <2> QED
    BY <2>1 DEF Waits, Over, lo, r
<1>7. ASSUME NEW l \in Classes, NEW a \in Nat, NEW q \in Nat
      PROVE  Waits(G[l], a, q) <=> Waits(H[l], a, q) /\ ~ In(e, l, a)
  BY <1>2, <1>4, <1>5, Zenon
<1>8. \A l \in Classes : H[l] \in Seq(Holes) /\ G[l] \in Seq(Holes)
  BY <1>1, <1>4
<1>9. ASSUME NEW l \in Classes, NEW a \in Nat
      PROVE  Free(G[l], a) <=> Free(H[l], a) /\ ~ In(e, l, a)
  <2>1. /\ Free(G[l], a) <=> \E q \in Nat : Waits(G[l], a, q)
        /\ Free(H[l], a) <=> \E q \in Nat : Waits(H[l], a, q)
    BY <1>8, FreeWaits
  <2> QED
    BY <1>7, <2>1
<1>10. ASSUME NEW a \in Nat, NEW l \in Classes, In(e, l, a) PROVE Free(H[l], a)
  BY <1>3, <1>5, <1>6, <1>8, <1>10, FreeWaits
<1>11. ASSUME NEW a \in Nat, NEW l \in Classes, NEW f \in E, In(e, l, a) PROVE ~ In(f, l, a)
  BY <1>10, <1>11 DEF Cover, Used
<1>12. e \notin E
  <2>1. In(e, k, lo)
    BY <1>3, <1>5
  <2> QED
    BY <1>3, <1>11, <2>1
<1>13. Lists(G, rd, op)
  <2>1. ASSUME NEW l \in Classes PROVE ListOK(G[l], Slots[l], rd, op)
    <3>1. CASE l = k
      <4>1. \A a, q \in Nat : Waits(gs, a, q) => q <= op
        BY <1>1, <1>2
      <4>2. Len(gs) <= Slots[k]
        BY <1>1, <1>2, <1>3, ArenaSizes
      <4> QED
        BY <1>2, <1>4, <3>1, <4>1, <4>2 DEF ListOK
    <3>2. CASE l # k
      BY <1>4, <3>2 DEF Lists
    <3> QED
      BY <3>1, <3>2
  <2> QED
    BY <1>4, <2>1 DEF Lists
<1>14. Spread(F)
  <2>1. F \in SUBSET Extents /\ \A f \in F : f.start < f.end
    BY <1>5 DEF Spread
  <2>2. ASSUME NEW x \in F, NEW y \in F, NEW l \in Classes, NEW a \in Nat, In(x, l, a), In(y, l, a)
        PROVE  x = y
    BY <1>11, <2>2 DEF Spread
  <2> QED
    BY <2>1, <2>2 DEF Spread
<1>15. Cover(G, F)
  <2> SUFFICES ASSUME NEW l \in Classes, NEW a \in Nat
               PROVE  /\ Free(G[l], a) \/ Used(F, l, a) <=> a < Size[l]
                      /\ ~ (Free(G[l], a) /\ Used(F, l, a))
    BY Zenon DEF Cover
  <2>1. Used(F, l, a) <=> Used(E, l, a) \/ In(e, l, a)
    BY DEF Used
  <2>2. /\ Free(H[l], a) \/ Used(E, l, a) <=> a < Size[l]
        /\ ~ (Free(H[l], a) /\ Used(E, l, a))
    BY DEF Cover
  <2> QED
    BY <1>9, <1>10, <2>1, <2>2
<1> QED
  BY <1>5, <1>6, <1>7, <1>12, <1>13, <1>14, <1>15 DEF Allocated, r

\* The state after a release: the addresses of e wait for the open epoch, and a free
\* address waits for it or for what it did.
Freed(G, F, H, e, rd, op) ==
  /\ Lists(G, rd, op) /\ Spread(F) /\ Cover(G, F)
  /\ \A l \in Classes, a \in Nat : In(e, l, a) => Waits(G[l], a, op)
  /\ \A l \in Classes, a, q \in Nat : Waits(G[l], a, q) => q = op \/ Waits(H[l], a, q)

\* Arena::release.
LEMMA ReleaseLists ==
  ASSUME NEW H, NEW E, NEW rd \in Nat, NEW op \in Nat, rd < op,
         Lists(H, rd, op), Spread(E), Cover(H, E),
         NEW e \in E, NEW k \in Classes, k = e.class, ~ Overlaps(H[k], e),
         NEW G, G = [H EXCEPT ![k] = Return(H[k], e, Slots[k], op)], G # H,
         NEW F, F = E \ {e}
  PROVE  Freed(G, F, H, e, rd, op)
<1> DEFINE hs == H[k]
           gs == Return(hs, e, Slots[k], op)
           lo == e.start
           hi == e.end
<1>1. /\ H \in [Classes -> Seq(Holes)] /\ hs \in Seq(Holes) /\ Ordered(hs) /\ Len(hs) <= Slots[k]
      /\ Apart(hs, rd) /\ \A a, q \in Nat : Waits(hs, a, q) => q <= op
  BY DEF Lists, ListOK
<1>2. lo \in Nat /\ hi \in Nat /\ lo < hi
  BY DEF Spread, Extents
<1>3. gs # hs
  <2> HIDE DEF gs
  <2>1. G = [H EXCEPT ![k] = gs]
    BY DEF gs
  <2> QED
    BY <1>1, <2>1
<1>4. Slots[k] \in Nat
  BY ArenaSizes
<1>5. Returned(gs, hs, lo, hi, op) /\ Len(gs) <= Slots[k]
  BY <1>1, <1>2, <1>3, <1>4, ReturnKeeps
<1>6. /\ gs \in Seq(Holes) /\ Ordered(gs)
      /\ \A a \in Nat : Free(gs, a) <=> Free(hs, a) \/ (lo <= a /\ a < hi)
      /\ \A a, q \in Nat : Waits(gs, a, q) => q = op \/ Waits(hs, a, q)
      /\ \A a \in Nat : lo <= a /\ a < hi => Waits(gs, a, op)
      /\ Apart(gs, rd)
  <2> HIDE DEF gs, hs, lo, hi
  <2> QED BY <1>1, <1>5 DEF Returned
<1>7. G \in [Classes -> Seq(Holes)] /\ G[k] = gs /\ \A l \in Classes : l # k => G[l] = H[l]
  <2>1. gs \in Seq(Holes)
    BY <1>6
  <2> HIDE DEF gs
  <2>2. G = [H EXCEPT ![k] = gs]
    BY DEF gs
  <2> QED
    BY <1>1, <2>1, <2>2
<1>8. \A l, a : In(e, l, a) <=> l = k /\ lo <= a /\ a < hi
  BY DEF In
<1> HIDE DEF gs, lo, hi
<1>9. ASSUME NEW l \in Classes, NEW a \in Nat, In(e, l, a) PROVE Waits(G[l], a, op)
  BY <1>6, <1>7, <1>8, <1>9
<1>10. ASSUME NEW l \in Classes, NEW a \in Nat, NEW q \in Nat, Waits(G[l], a, q)
       PROVE  q = op \/ Waits(H[l], a, q)
  BY <1>6, <1>7, <1>10
<1>11. ASSUME NEW l \in Classes, NEW a \in Nat
       PROVE  Free(G[l], a) <=> Free(H[l], a) \/ In(e, l, a)
  BY <1>6, <1>7, <1>8
<1>12. Lists(G, rd, op)
  <2>1. ASSUME NEW l \in Classes PROVE ListOK(G[l], Slots[l], rd, op)
    <3>1. CASE l = k
      <4>1. \A a, q \in Nat : Waits(gs, a, q) => q <= op
        BY <1>1, <1>6
      <4> QED
        BY <1>5, <1>6, <1>7, <3>1, <4>1 DEF ListOK
    <3>2. CASE l # k
      BY <1>7, <3>2 DEF Lists
    <3> QED
      BY <3>1, <3>2
  <2> QED
    BY <1>7, <2>1 DEF Lists
<1>13. Spread(F)
  BY DEF Spread
<1>14. Cover(G, F)
  <2> SUFFICES ASSUME NEW l \in Classes, NEW a \in Nat
               PROVE  /\ Free(G[l], a) \/ Used(F, l, a) <=> a < Size[l]
                      /\ ~ (Free(G[l], a) /\ Used(F, l, a))
    BY DEF Cover
  <2>1. /\ Used(E, l, a) <=> Used(F, l, a) \/ In(e, l, a)
        /\ ~ (Used(F, l, a) /\ In(e, l, a))
    BY DEF Used, Spread
  <2>2. /\ Free(H[l], a) \/ Used(E, l, a) <=> a < Size[l]
        /\ ~ (Free(H[l], a) /\ Used(E, l, a))
    BY DEF Cover
  <2> QED
    BY <1>11, <2>1, <2>2
<1> QED
  BY <1>9, <1>10, <1>12, <1>13, <1>14 DEF Freed

\* The state after epoch x is retired: a free address that waited for it, or for an
\* earlier one, still waits for such a one, and another for what it did.
Retired(G, H, E, x, op) ==
  /\ Lists(G, x, op) /\ Cover(G, E)
  /\ \A l \in Classes, a, q, s \in Nat : Waits(G[l], a, q) /\ Waits(H[l], a, s) =>
       (s <= x => q <= x) /\ (s > x => q = s)

\* Arena::settle on every arena.
LEMMA SettleLists ==
  ASSUME NEW H, NEW E, NEW rd \in Nat, NEW op \in Nat, Lists(H, rd, op), Cover(H, E),
         NEW x \in Nat, x <= op, NEW G, G = [k \in Classes |-> Settle(H[k], x)]
  PROVE  Retired(G, H, E, x, op)
<1>1. ASSUME NEW l \in Classes PROVE Settled(G[l], H[l], Len(H[l]), x)
  <2>1. H[l] \in Seq(Holes) /\ Ordered(H[l])
    BY DEF Lists, ListOK
  <2>2. G[l] = Settle(H[l], x)
    OBVIOUS
  <2> QED
    BY <2>1, <2>2, SettleKeeps
<1>2. \A l \in Classes : G[l] \in Seq(Holes) /\ H[l] \in Seq(Holes) /\ Ordered(H[l])
  BY <1>1 DEF Settled, Lists, ListOK
<1>3. ASSUME NEW l \in Classes, NEW a \in Nat PROVE Free(G[l], a) <=> Free(H[l], a)
  BY <1>1 DEF Settled, Free
<1>4. ASSUME NEW l \in Classes, NEW a \in Nat, NEW q \in Nat, NEW s \in Nat,
             Waits(G[l], a, q), Waits(H[l], a, s)
      PROVE  (s <= x => q <= x) /\ (s > x => q = s)
  <2>1. Stands(H[l], Len(H[l]), a, q, x)
    BY <1>1, <1>4 DEF Settled
  <2>2. PICK j \in 1 .. Len(H[l]) : /\ Over(H[l], j, a)
                                    /\ Ep(H[l], j) <= x => q <= x
                                    /\ Ep(H[l], j) > x => q = Ep(H[l], j)
    BY <2>1 DEF Stands
  <2>3. Waits(H[l], a, Ep(H[l], j))
    BY <2>2 DEF Waits
  <2>4. Ep(H[l], j) = s
    BY <1>2, <1>4, <2>3, FreeWaits
  <2> QED
    BY <2>2, <2>4
<1>5. ASSUME NEW l \in Classes PROVE ListOK(G[l], Slots[l], x, op)
  <2>1. /\ G[l] \in Seq(Holes) /\ Ordered(G[l]) /\ Len(G[l]) <= Len(H[l]) /\ Apart(G[l], x)
    BY <1>1 DEF Settled
  <2>2. Len(G[l]) <= Slots[l]
    <3>1. Len(H[l]) <= Slots[l]
      BY DEF Lists, ListOK
    <3>2. Len(G[l]) \in Nat /\ Len(H[l]) \in Nat /\ Slots[l] \in Nat
      BY <1>2, Listed, ArenaSizes
    <3> QED
      BY <2>1, <3>1, <3>2
  <2>3. ASSUME NEW a \in Nat, NEW q \in Nat, Waits(G[l], a, q) PROVE q <= op
    <3>1. PICK s \in Nat : Waits(H[l], a, s)
      BY <1>2, <1>3, <2>3, FreeWaits
    <3>2. s <= op
      BY <3>1 DEF Lists, ListOK
    <3>3. (s <= x => q <= x) /\ (s > x => q = s)
      BY <1>4, <2>3, <3>1
    <3> QED
      BY <3>2, <3>3
  <2> QED
    BY <2>1, <2>2, <2>3 DEF ListOK
<1>6. Lists(G, x, op)
  BY <1>2, <1>5 DEF Lists
<1>7. Cover(G, E)
  BY <1>3 DEF Cover
<1> QED
  BY <1>4, <1>6, <1>7 DEF Retired

\* The pages of the extents in E.
PagesIn(E) == UNION {PagesOf(e) : e \in E}

\* Pages belong to one extent, and an extent is not empty.
LEMMA PagesInIs ==
  ASSUME NEW H, NEW E, Spread(E), Cover(H, E), NEW e \in E
  PROVE  /\ PagesOf(e) # {} /\ PagesOf(e) \in SUBSET AllPages
         /\ \A f \in E : f # e => PagesOf(f) \cap PagesOf(e) = {}
         /\ \A k, a : <<k, a>> \in PagesOf(e) <=> a \in Nat /\ In(e, k, a)
<1>1. \A f \in E : /\ \A p \in PagesOf(f) : \E a \in Nat : p = <<f.class, a>>
                   /\ \A k, a : <<k, a>> \in PagesOf(f) <=> a \in Nat /\ In(f, k, a)
  BY PagesOfIs DEF Spread
<1>2. e.start \in Nat /\ e.end \in Nat /\ e.start < e.end /\ \A f \in E : f.class \in Classes
  BY DEF Spread, Extents
<1>3. PagesOf(e) # {}
  <2>1. In(e, e.class, e.start)
    BY <1>2 DEF In
  <2> QED
    BY <1>1, <1>2, <2>1, Zenon
<1>4. ASSUME NEW p \in PagesOf(e) PROVE p \in AllPages
  <2>1. PICK a \in Nat : p = <<e.class, a>>
    BY <1>1
  <2>2. Used(E, e.class, a)
    BY <1>1, <2>1 DEF Used
  <2>3. a < Size[e.class]
    BY <1>2, <2>2 DEF Cover
  <2> QED
    BY <1>2, <2>1, <2>3, AllPagesIs
<1>5. ASSUME NEW f \in E, NEW p \in PagesOf(f), p \in PagesOf(e) PROVE f = e
  <2>1. PICK a \in Nat : p = <<e.class, a>>
    BY <1>1, <1>5
  <2>2. In(e, e.class, a) /\ In(f, e.class, a)
    BY <1>1, <1>5, <2>1
  <2> QED
    BY <1>2, <2>2 DEF Spread
<1> QED
  BY <1>1, <1>3, <1>4, <1>5

\* What taking an extent out of a set, or putting it in, does to the pages.
LEMMA PagesInMoves ==
  ASSUME NEW H, NEW E, Spread(E), Cover(H, E), NEW e \in E, NEW S \in SUBSET E
  PROVE  /\ PagesIn(S) \in SUBSET AllPages
         /\ PagesIn(S \cup {e}) = PagesIn(S) \cup PagesOf(e)
         /\ PagesIn(S \ {e}) = PagesIn(S) \ PagesOf(e)
         /\ e \in S => PagesOf(e) \subseteq PagesIn(S)
         /\ e \notin S => PagesOf(e) \cap PagesIn(S) = {}
<1>1. \A f \in E : PagesOf(f) \in SUBSET AllPages
  BY PagesInIs
<1>2. \A f \in E : f # e => PagesOf(f) \cap PagesOf(e) = {}
  BY PagesInIs
<1>3. \A T, p : p \in PagesIn(T) <=> \E f \in T : p \in PagesOf(f)
  BY DEF PagesIn
<1>4. PagesIn(S) \in SUBSET AllPages
  BY <1>1, <1>3
<1>5. PagesIn(S \cup {e}) = PagesIn(S) \cup PagesOf(e)
  BY <1>3
<1>6. PagesIn(S \ {e}) = PagesIn(S) \ PagesOf(e)
  BY <1>2, <1>3
<1>7. /\ e \in S => PagesOf(e) \subseteq PagesIn(S)
      /\ e \notin S => PagesOf(e) \cap PagesIn(S) = {}
  BY <1>2, <1>3
<1> QED
  BY <1>4, <1>5, <1>6, <1>7

-----------------------------------------------------------------------------
(* The invariant. *)

\* The free lists and the extents share out the arenas.
Sound ==
  /\ Lists(holes, retired, open) /\ Spread(extents) /\ Cover(holes, extents)
  /\ granted \in SUBSET extents /\ revoked \in SUBSET extents /\ granted \cap revoked = {}

\* Epochs, rounds and caches.
Rounds ==
  /\ open \in 1 .. MaxEpoch /\ retired \in 0 .. open - 1 /\ epoch \in 0 .. open - 1
  /\ epoch # 0 => retired < epoch
  /\ flushed \subseteq done /\ done \subseteq asked /\ asked \subseteq attending
  /\ attending \in SUBSET Cpus
  /\ cached \in [Cpus -> SUBSET AllPages]

IInv == Sound /\ Rounds

\* The quarantine's view of a state.
LEMMA Views ==
  /\ Held = PagesIn(extents) /\ Fresh = PagesIn(extents \ revoked) /\ Mapped = PagesIn(granted)
  /\ Stamp = Stamps(holes)
  BY Zenon DEF Held, Fresh, Mapped, Stamp, Stamps, PagesIn, Covers, Covering

\* The view of the state a step leads to.
LEMMA ViewsPrimed ==
  /\ Held' = PagesIn(extents') /\ Fresh' = PagesIn(extents' \ revoked')
  /\ Mapped' = PagesIn(granted') /\ Stamp' = Stamps(holes')
  BY Zenon DEF Held, Fresh, Mapped, Stamp, Stamps, PagesIn, Covers, Covering

\* A step that keeps lists and extents keeps their view.
LEMMA SameView ==
  ASSUME UNCHANGED <<holes, extents, granted, revoked>>
  PROVE  UNCHANGED <<Held, Fresh, Mapped, Stamp>>
  BY Views, ViewsPrimed, Zenon

\* Epochs are numbers.
LEMMA EpochNumbers ==
  ASSUME Rounds
  PROVE  /\ open \in Nat /\ retired \in Nat /\ epoch \in Nat
         /\ retired < open /\ epoch < open /\ open >= 1 /\ open <= MaxEpoch /\ MaxEpoch \in Nat
         /\ epoch # 0 => retired < epoch
  BY EpochBound DEF Rounds

\* Page <<k, a>> is stamped 0 in an extent, and with the epoch it waits for else.
Stamped(H, E, k, a) ==
  /\ Used(E, k, a) => Stamps(H)[<<k, a>>] = 0
  /\ ~ Used(E, k, a) => \E q \in Nat : Waits(H[k], a, q)
  /\ \A q : Waits(H[k], a, q) => q \in Nat /\ Stamps(H)[<<k, a>>] = q

\* Which pages the allocator stamps 0 and with which epoch the others.
LEMMA ViewStamps ==
  ASSUME NEW H, NEW E, NEW rd, NEW op, Lists(H, rd, op), Cover(H, E),
         NEW k \in Classes, NEW a \in Nat, a < Size[k]
  PROVE  Stamped(H, E, k, a)
<1>1. H \in [Classes -> Seq(Holes)] /\ H[k] \in Seq(Holes) /\ Ordered(H[k])
  BY DEF Lists, ListOK
<1>2. /\ \A q : Waits(H[k], a, q) => Stamps(H)[<<k, a>>] = q
      /\ ~ Free(H[k], a) => Stamps(H)[<<k, a>>] = 0
  BY <1>1, StampsIs, Zenon
<1>3. /\ Free(H[k], a) <=> \E q \in Nat : Waits(H[k], a, q)
      /\ \A q : Waits(H[k], a, q) => q \in Nat
  BY <1>1, FreeWaits
<1>4. Free(H[k], a) <=> ~ Used(E, k, a)
  BY DEF Cover
<1> QED
  BY <1>2, <1>3, <1>4 DEF Stamped

\* An arena that is one hole.
LEMMA OneList ==
  ASSUME NEW hs \in Seq(Holes), Len(hs) = 1, NEW z \in Nat, z > 0, Is(hs, 1, 0, z, 0), NEW x
  PROVE  /\ Ordered(hs) /\ Apart(hs, x)
         /\ \A a \in Nat : Free(hs, a) <=> a < z
         /\ \A q : \A a \in Nat : Waits(hs, a, q) <=> a < z /\ q = 0
<1>1. /\ 1 .. Len(hs) = {1} /\ 2 .. Len(hs) = {}
      /\ Lo(hs, 1) = 0 /\ Hi(hs, 1) = z /\ Ep(hs, 1) = 0
  BY DEF Is
<1>2. Ordered(hs)
  BY <1>1 DEF Ordered
<1>3. Apart(hs, x)
  BY <1>1, Zenon DEF Apart
<1>4. \A a \in Nat : Over(hs, 1, a) <=> a < z
  BY <1>1 DEF Over
<1> QED
  BY <1>1, <1>2, <1>3, <1>4, Zenon DEF Free, Waits

\* At boot each arena is one hole, no page is held and every stamp is 0.
LEMMA InitIInv == Init => IInv /\ Q!Init
<1> SUFFICES ASSUME Init PROVE IInv /\ Q!Init
  OBVIOUS
<1>1. \A k \in Classes : Size[k] \in Nat /\ Size[k] > 0 /\ Slots[k] \in Nat /\ Slots[k] >= 1
  BY ArenaSizes
<1>2. ASSUME NEW k \in Classes
      PROVE  /\ holes[k] \in Seq(Holes) /\ Len(holes[k]) = 1 /\ Is(holes[k], 1, 0, Size[k], 0)
  <2> DEFINE h == Hole(0, Size[k], 0)
  <2>1. h \in Holes /\ h.start = 0 /\ h.end = Size[k] /\ h.ready = 0
    BY <1>1 DEF Hole, Holes
  <2>2. holes[k] = <<h>>
    BY DEF Init
  <2> HIDE DEF h
  <2>3. holes[k] \in Seq(Holes) /\ Len(holes[k]) = 1 /\ holes[k][1] = h
    BY <2>1, <2>2
  <2> QED
    BY <2>1, <2>3, Zenon DEF Is, Lo, Hi, Ep
<1>3. ASSUME NEW k \in Classes, NEW a \in Nat
      PROVE  /\ Free(holes[k], a) <=> a < Size[k]
             /\ \A q : Waits(holes[k], a, q) <=> a < Size[k] /\ q = 0
  <2>1. /\ holes[k] \in Seq(Holes) /\ Len(holes[k]) = 1 /\ Is(holes[k], 1, 0, Size[k], 0)
        /\ Size[k] \in Nat /\ Size[k] > 0
    BY <1>1, <1>2
  <2>2. /\ \A b \in Nat : Free(holes[k], b) <=> b < Size[k]
        /\ \A q : \A b \in Nat : Waits(holes[k], b, q) <=> b < Size[k] /\ q = 0
    BY <2>1, OneList, Zenon
  <2> QED
    BY <2>2, Zenon
<1>4. ASSUME NEW k \in Classes PROVE ListOK(holes[k], Slots[k], retired, open)
  <2>1. Ordered(holes[k]) /\ Apart(holes[k], retired)
    BY <1>1, <1>2, OneList
  <2>3. \A a, q \in Nat : Waits(holes[k], a, q) => q <= open
    BY <1>3 DEF Init
  <2> QED
    BY <1>1, <1>2, <2>1, <2>3, Zenon DEF ListOK
<1>5. Lists(holes, retired, open)
  <2>1. holes \in [Classes -> Seq(Holes)]
    <3>1. holes = [k \in Classes |-> holes[k]]
      BY DEF Init
    <3> QED
      BY <1>2, <3>1
  <2> QED
    BY <1>4, <2>1 DEF Lists
<1>6. Spread(extents) /\ Cover(holes, extents)
  BY <1>3 DEF Init, Spread, Cover, Used
<1>7. IInv
  BY <1>5, <1>6, BootCore, EpochBound DEF Init, IInv, Sound, Rounds
<1>8. Held = {} /\ Fresh = {} /\ Mapped = {}
  BY Views DEF Init, PagesIn
<1>9. Stamp = [p \in AllPages |-> 0]
  <2>1. ASSUME NEW p \in AllPages PROVE Stamps(holes)[p] = 0
    <3>1. PICK k \in Classes, a \in Nat : p = <<k, a>> /\ a < Size[k]
      BY AllPagesIs
    <3>2. Waits(holes[k], a, 0)
      BY <1>3, <3>1
    <3>3. Stamped(holes, extents, k, a)
      BY <1>5, <1>6, <3>1, ViewStamps
    <3> QED
      BY <3>1, <3>2, <3>3 DEF Stamped
  <2>2. Stamps(holes) = [p \in AllPages |-> Stamps(holes)[p]]
    BY DEF Stamps
  <2>3. Stamps(holes) = [p \in AllPages |-> 0]
    BY <2>1, <2>2
  <2> QED
    BY <2>3, Views, Zenon
<1>10. Q!Init
  BY <1>8, <1>9, BootCore DEF Init, Q!Init
<1> QED
  BY <1>7, <1>10

\* An allocation takes pages no core can translate any more.
LEMMA AllocateStep ==
  ASSUME IInv, NEW k \in Classes, NEW n \in 1 .. Size[k], Allocate(k, n)
  PROVE  IInv' /\ Q!Next
<1>0. /\ open \in Nat /\ retired \in Nat
      /\ Lists(holes, retired, open) /\ Spread(extents) /\ Cover(holes, extents)
      /\ holes \in [Classes -> Seq(Holes)] /\ holes[k] \in Seq(Holes)
  BY EpochNumbers DEF IInv, Sound, Lists
<1>1. PICK i \in DOMAIN holes[k] :
        /\ Fits(holes[k][i], n)
        /\ extents' = extents \cup {[class |-> k, start |-> holes[k][i].start,
                                     end |-> holes[k][i].start + n]}
        /\ holes' = [holes EXCEPT ![k] = Carve(@, i, n)]
  BY Zenon DEF Allocate
<1>2. UNCHANGED <<granted, revoked, open, retired, attending, cached, epoch, asked, flushed, done>>
  BY DEF Allocate, round
<1>3. i \in 1 .. Len(holes[k])
  BY <1>0
<1> DEFINE hs == holes[k]
           e == [class |-> k, start |-> Lo(hs, i), end |-> Lo(hs, i) + n]
           r == Ep(hs, i)
           S == PagesOf(e)
<1>4. Lo(hs, i) \in Nat /\ Hi(hs, i) \in Nat /\ r \in Nat
  BY <1>0, <1>3, Listed
<1>5. n \in Nat \ {0} /\ Lo(hs, i) + n <= Hi(hs, i) /\ r <= retired
  <2>1. Hi(hs, i) - Lo(hs, i) >= n /\ r <= retired
    BY <1>1, Zenon DEF Fits, Lo, Hi, Ep
  <2>2. n \in Nat \ {0}
    BY ArenaSizes
  <2> HIDE DEF hs, r
  <2> QED
    BY <1>4, <2>1, <2>2
<1>6. extents' = extents \cup {e} /\ holes' = [holes EXCEPT ![k] = Carve(hs, i, n)]
  <2>1. extents' = extents \cup {e}
    BY <1>1, Zenon DEF Lo
  <2>2. holes' = [holes EXCEPT ![k] = Carve(hs, i, n)]
    BY <1>1, Zenon
  <2> QED
    BY <2>1, <2>2
<1>7. Allocated(holes', extents', holes, extents, e, r, retired, open)
  <2>1. e = [class |-> k, start |-> Lo(holes[k], i), end |-> Lo(holes[k], i) + n]
    OBVIOUS
  <2> HIDE DEF e
  <2> QED
    BY <1>0, <1>3, <1>5, <1>6, <2>1, AllocateLists, Zenon
<1>8. e.class = k
  OBVIOUS
<1> HIDE DEF e, r, hs, S
<1>9. /\ Lists(holes', retired, open) /\ Spread(extents') /\ Cover(holes', extents')
      /\ e \in Extents /\ e \notin extents
      /\ \A a \in Nat : In(e, k, a) => Waits(holes[k], a, r)
      /\ \A l \in Classes, a, q \in Nat :
           ~ In(e, l, a) => (Waits(holes'[l], a, q) <=> Waits(holes[l], a, q))
  BY <1>7, <1>8 DEF Allocated
<1>10. IInv'
  BY <1>2, <1>6, <1>9 DEF IInv, Sound, Rounds
<1>11. /\ S # {} /\ S \in SUBSET AllPages
       /\ \A l, a : <<l, a>> \in S <=> a \in Nat /\ In(e, l, a)
  BY <1>6, <1>9, PagesInIs DEF S
<1>12. /\ PagesIn(extents') = PagesIn(extents) \cup S
       /\ PagesIn(extents' \ revoked) = PagesIn(extents \ revoked) \cup S
       /\ S \cap PagesIn(extents) = {}
  <2>1. /\ e \in extents' /\ extents \in SUBSET extents' /\ extents \ revoked \in SUBSET extents'
        /\ extents' \ revoked = (extents \ revoked) \cup {e}
    BY <1>6, <1>9 DEF IInv, Sound
  <2> QED
    BY <1>6, <1>9, <2>1, PagesInMoves DEF S
<1>13. ASSUME NEW p \in S PROVE Stamps(holes)[p] <= retired
  <2>1. PICK l \in Classes, a \in Nat : p = <<l, a>> /\ a < Size[l]
    BY <1>11, AllPagesIs
  <2>2. In(e, l, a) /\ l = k
    BY <1>8, <1>11, <2>1 DEF In
  <2>3. Waits(holes[k], a, r)
    BY <1>9, <2>2
  <2>4. Stamped(holes, extents, l, a)
    BY <1>0, <2>1, ViewStamps
  <2>5. Stamps(holes)[p] = r
    BY <2>1, <2>2, <2>3, <2>4 DEF Stamped
  <2> QED
    BY <1>5, <2>5 DEF r
<1>14. ASSUME NEW p \in AllPages PROVE Stamps(holes')[p] = IF p \in S THEN 0 ELSE Stamps(holes)[p]
  <2>1. PICK l \in Classes, a \in Nat : p = <<l, a>> /\ a < Size[l]
    BY AllPagesIs
  <2>2. Stamped(holes, extents, l, a)
    BY <1>0, <2>1, ViewStamps
  <2>3. Stamped(holes', extents', l, a)
    BY <1>9, <2>1, ViewStamps
  <2>4. CASE p \in S
    <3>1. Used(extents', l, a)
      BY <1>6, <1>11, <2>1, <2>4 DEF Used
    <3> QED
      BY <2>1, <2>4, <2>3, <3>1 DEF Stamped
  <2>5. CASE p \notin S
    <3>1. ~ In(e, l, a)
      BY <1>11, <2>1, <2>5
    <3>2. Used(extents', l, a) <=> Used(extents, l, a)
      BY <1>6, <3>1 DEF Used
    <3>3. CASE Used(extents, l, a)
      BY <2>1, <2>5, <2>2, <2>3, <3>2, <3>3 DEF Stamped
    <3>4. CASE ~ Used(extents, l, a)
      <4>1. PICK q \in Nat : Waits(holes[l], a, q)
        BY <2>2, <3>4 DEF Stamped
      <4>2. Waits(holes'[l], a, q)
        BY <1>9, <3>1, <4>1
      <4>3. Stamps(holes)[p] = q /\ Stamps(holes')[p] = q
        <5>1. Stamps(holes)[<<l, a>>] = q
          BY <2>2, <4>1 DEF Stamped
        <5>2. Stamps(holes')[<<l, a>>] = q
          BY <2>3, <4>2 DEF Stamped
        <5> QED
          BY <2>1, <5>1, <5>2
      <4> QED
        BY <2>5, <4>3
    <3> QED
      BY <3>3, <3>4
  <2> QED
    BY <2>4, <2>5
<1>15. Stamps(holes') = [p \in AllPages |-> IF p \in S THEN 0 ELSE Stamps(holes)[p]]
  <2>1. Stamps(holes') = [p \in AllPages |-> Stamps(holes')[p]]
    BY DEF Stamps
  <2> QED
    BY <1>14, <2>1
<1>16. Q!Allocate(S)
  BY <1>2, <1>11, <1>12, <1>13, <1>15, Views, ViewsPrimed, Zenon DEF Q!Allocate
<1>17. Q!Next
  BY <1>11, <1>16 DEF Q!Next
<1> QED
  BY <1>10, <1>17

\* Grant, walk and revoke move pages between views.
LEMMA ViewSteps ==
  ASSUME IInv, NEW e \in extents
  PROVE  /\ Grant(e) => IInv' /\ Q!Next
         /\ \A c \in Cpus : Walk(c, e) => IInv' /\ Q!Next
         /\ Revoke(e) => IInv' /\ Q!Next
<1> DEFINE S == PagesOf(e)
<1>0. /\ Lists(holes, retired, open) /\ Spread(extents) /\ Cover(holes, extents)
      /\ granted \in SUBSET extents /\ revoked \in SUBSET extents /\ granted \cap revoked = {}
      /\ extents \ revoked \in SUBSET extents
  BY DEF IInv, Sound
<1>1. S # {} /\ S \in SUBSET AllPages
  BY <1>0, PagesInIs
<1>2. /\ PagesIn(granted \cup {e}) = PagesIn(granted) \cup S
      /\ PagesIn(granted \ {e}) = PagesIn(granted) \ S
      /\ e \in granted => S \subseteq PagesIn(granted)
      /\ e \notin granted => S \cap PagesIn(granted) = {}
  BY <1>0, PagesInMoves
<1>3. /\ PagesIn((extents \ revoked) \ {e}) = PagesIn(extents \ revoked) \ S
      /\ e \notin revoked => S \subseteq PagesIn(extents \ revoked)
  BY <1>0, PagesInMoves, Zenon
<1> HIDE DEF S
<1>4. ASSUME Grant(e) PROVE IInv' /\ Q!Next
  <2>1. /\ e \notin granted /\ e \notin revoked /\ granted' = granted \cup {e}
        /\ UNCHANGED <<revoked, attending, cached, holes, extents, open, retired>>
        /\ UNCHANGED <<epoch, asked, flushed, done>>
    BY <1>4 DEF Grant, space, round
  <2>2. IInv'
    BY <1>0, <2>1 DEF IInv, Sound, Rounds
  <2>3. Q!Grant(S)
    BY <1>1, <1>2, <1>3, <2>1, Views, ViewsPrimed DEF Q!Grant
  <2> QED
    BY <1>1, <2>2, <2>3 DEF Q!Next
<1>5. ASSUME NEW c \in Cpus, Walk(c, e) PROVE IInv' /\ Q!Next
  <2>1. /\ c \in attending /\ e \in granted
        /\ UNCHANGED <<granted, revoked, attending, holes, extents, open, retired>>
        /\ UNCHANGED <<epoch, asked, flushed, done>>
    BY <1>5 DEF Walk, space, round
  <2>2. PICK p \in S : cached' = [cached EXCEPT ![c] = @ \cup {p}]
    BY <1>5, Zenon DEF Walk, S
  <2>3. p \in AllPages /\ p \in PagesIn(granted)
    BY <1>1, <1>2, <2>1
  <2>4. cached' \in [Cpus -> SUBSET AllPages]
    BY <2>2, <2>3 DEF IInv, Rounds
  <2>5. IInv'
    BY <2>1, <2>4 DEF IInv, Sound, Rounds
  <2>6. Q!Walk(c, p)
    BY <2>1, <2>2, <2>3, Views, SameView DEF Q!Walk
  <2> QED
    BY <2>3, <2>5, <2>6 DEF Q!Next
<1>6. ASSUME Revoke(e) PROVE IInv' /\ Q!Next
  <2>1. /\ e \in granted /\ granted' = granted \ {e} /\ revoked' = revoked \cup {e}
        /\ UNCHANGED <<attending, cached, holes, extents, open, retired>>
        /\ UNCHANGED <<epoch, asked, flushed, done>>
    BY <1>6 DEF Revoke, space, round
  <2>2. IInv'
    BY <1>0, <2>1 DEF IInv, Sound, Rounds
  <2>3. extents' \ revoked' = (extents \ revoked) \ {e} /\ e \notin revoked
    BY <1>0, <2>1
  <2>4. Q!Revoke(S)
    BY <1>1, <1>2, <1>3, <2>1, <2>3, Views, ViewsPrimed DEF Q!Revoke
  <2> QED
    BY <1>1, <2>2, <2>4 DEF Q!Next
<1> QED
  BY <1>4, <1>5, <1>6

\* A release stamps the pages of the extent, and the free neighbours its hole took in,
\* with the open epoch.
LEMMA ReleaseStep ==
  ASSUME IInv, NEW e \in extents, Release(e)
  PROVE  IInv' /\ Q!Next
<1> DEFINE S == PagesOf(e)
           k == e.class
<1>0. /\ Lists(holes, retired, open) /\ Spread(extents) /\ Cover(holes, extents)
      /\ granted \in SUBSET extents /\ revoked \in SUBSET extents /\ granted \cap revoked = {}
      /\ extents \ revoked \in SUBSET extents /\ extents \in SUBSET extents
      /\ open \in Nat /\ retired \in Nat /\ retired < open
  BY EpochNumbers DEF IInv, Sound
<1>1. /\ e \notin granted /\ extents' = extents \ {e} /\ revoked' = revoked \ {e}
      /\ UNCHANGED <<granted, open, retired, attending, cached, epoch, asked, flushed, done>>
  BY DEF Release, round
<1>2. Freed(holes', extents', holes, e, retired, open)
  <2>1. k \in Classes
    BY <1>0 DEF Spread, Extents
  <2>2. /\ ~ Overlaps(holes[k], e)
        /\ holes' = [holes EXCEPT ![k] = Return(holes[k], e, Slots[k], open)] /\ holes' # holes
    BY Zenon DEF Release
  <2> QED
    BY <1>0, <1>1, <2>1, <2>2, ReleaseLists, Zenon
<1>3. /\ Lists(holes', retired, open) /\ Spread(extents') /\ Cover(holes', extents')
      /\ \A l \in Classes, a \in Nat : In(e, l, a) => Waits(holes'[l], a, open)
      /\ \A l \in Classes, a, q \in Nat : Waits(holes'[l], a, q) => q = open \/ Waits(holes[l], a, q)
  BY <1>2, Zenon DEF Freed
<1>4. IInv'
  <2>1. /\ granted' \in SUBSET extents' /\ revoked' \in SUBSET extents'
        /\ granted' \cap revoked' = {}
    BY <1>0, <1>1
  <2> QED
    BY <1>1, <1>3, <2>1 DEF IInv, Sound, Rounds
<1>5. /\ S # {} /\ S \in SUBSET AllPages
      /\ \A l, a : <<l, a>> \in S <=> a \in Nat /\ In(e, l, a)
  BY <1>0, PagesInIs
<1>6. /\ PagesIn(extents') = PagesIn(extents) \ S
      /\ PagesIn(extents' \ revoked') = PagesIn(extents \ revoked) \ S
      /\ S \subseteq PagesIn(extents) /\ S \cap PagesIn(granted) = {}
  <2>1. extents' \ revoked' = (extents \ revoked) \ {e}
    BY <1>0, <1>1
  <2>2. PagesIn(extents') = PagesIn(extents) \ S /\ S \subseteq PagesIn(extents)
    BY <1>0, <1>1, PagesInMoves
  <2>3. PagesIn((extents \ revoked) \ {e}) = PagesIn(extents \ revoked) \ S
    BY <1>0, PagesInMoves, Zenon
  <2>4. S \cap PagesIn(granted) = {}
    BY <1>0, <1>1, PagesInMoves, Zenon
  <2> QED
    BY <2>1, <2>2, <2>3, <2>4
<1> HIDE DEF S
<1> DEFINE M == {p \in AllPages \ PagesIn(extents) : Stamps(holes')[p] = open}
<1>7. ASSUME NEW l \in Classes, NEW a \in Nat
      PROVE  /\ <<l, a>> \in PagesIn(extents) <=> Used(extents, l, a)
             /\ Used(extents, l, a) <=> Used(extents', l, a) \/ In(e, l, a)
  <2>1. \A f \in extents : <<l, a>> \in PagesOf(f) <=> In(f, l, a)
    BY <1>0, PagesInIs
  <2> QED
    <3>1. <<l, a>> \in PagesIn(extents) <=> \E f \in extents : <<l, a>> \in PagesOf(f)
      BY Zenon DEF PagesIn
    <3>2. \A f : f \in extents <=> f \in extents' \/ f = e
      BY <1>1
    <3> QED
      BY <2>1, <3>1, <3>2, Zenon DEF Used
<1>8. ASSUME NEW p \in AllPages
      PROVE  Stamps(holes')[p] = IF p \in S \cup M THEN open ELSE Stamps(holes)[p]
  <2>1. PICK l \in Classes, a \in Nat : p = <<l, a>> /\ a < Size[l]
    BY AllPagesIs
  <2>2. Stamped(holes, extents, l, a)
    BY <1>0, <2>1, ViewStamps
  <2>3. Stamped(holes', extents', l, a)
    BY <1>3, <2>1, ViewStamps
  <2>4. CASE p \in S
    <3>1. Waits(holes'[l], a, open)
      BY <1>3, <1>5, <2>1, <2>4
    <3>2. Stamps(holes')[<<l, a>>] = open
      BY <2>3, <3>1 DEF Stamped
    <3> QED
      BY <2>1, <2>4, <3>2
  <2>5. CASE p \notin S /\ p \in M
    BY <2>5
  <2>6. CASE p \notin S \cup M
    <3>1. CASE Used(extents, l, a)
      <4>1. Used(extents', l, a)
        BY <1>5, <1>7, <2>1, <2>6, <3>1
      <4>2. Stamps(holes)[<<l, a>>] = 0
        BY <2>2, <3>1 DEF Stamped
      <4>3. Stamps(holes')[<<l, a>>] = 0
        BY <2>3, <4>1 DEF Stamped
      <4> QED
        BY <2>1, <2>6, <4>2, <4>3
    <3>2. CASE ~ Used(extents, l, a)
      <4>1. Stamps(holes')[p] # open
        BY <1>7, <2>1, <2>6, <3>2
      <4>2. ~ Used(extents', l, a)
        BY <1>7, <3>2, ZenonT(40)
      <4>3. PICK q \in Nat : Waits(holes'[l], a, q)
        BY <2>3, <4>2 DEF Stamped
      <4>4. Stamps(holes')[<<l, a>>] = q
        BY <2>3, <4>3 DEF Stamped
      <4>5. Waits(holes[l], a, q)
        BY <1>3, <2>1, <4>1, <4>3, <4>4
      <4>6. Stamps(holes)[<<l, a>>] = q
        BY <2>2, <4>5 DEF Stamped
      <4> QED
        BY <2>1, <2>6, <4>4, <4>6
    <3> QED
      BY <3>1, <3>2
  <2> QED
    BY <2>4, <2>5, <2>6
<1>9. M \in SUBSET AllPages /\ M \subseteq AllPages \ PagesIn(extents)
  OBVIOUS
<1> HIDE DEF M
<1>10. Stamps(holes') = [p \in AllPages |-> IF p \in S \cup M THEN open ELSE Stamps(holes)[p]]
  <2>1. Stamps(holes') = [p \in AllPages |-> Stamps(holes')[p]]
    BY DEF Stamps
  <2> QED
    BY <1>8, <2>1
<1>11. Q!Release(S, M)
  BY <1>1, <1>5, <1>6, <1>9, <1>10, Views, ViewsPrimed, Zenon DEF Q!Release
<1> QED
  BY <1>4, <1>5, <1>9, <1>11 DEF Q!Next

\* Opening a round, a flush, an acknowledgement that leaves cores owing and a core that
\* starts touch no page.
LEMMA RoundSteps ==
  ASSUME IInv
  PROVE  /\ Begin => IInv' /\ Q!Next
         /\ \A c \in Cpus : Flush(c) => IInv' /\ Q!Next
         /\ \A c \in Cpus : Attend(c) => IInv' /\ Q!Next
<1>0. /\ open \in Nat /\ retired \in Nat /\ epoch \in Nat /\ MaxEpoch \in Nat
      /\ retired < open /\ epoch < open /\ open >= 1 /\ open <= MaxEpoch
  BY EpochNumbers DEF IInv
<1>1. ASSUME Begin PROVE IInv' /\ Q!Next
  <2>1. /\ epoch = 0 /\ open < MaxEpoch /\ epoch' = open /\ open' = open + 1
        /\ asked' = attending /\ flushed' = {} /\ done' = {}
        /\ UNCHANGED <<holes, extents, retired, attending, granted, revoked, cached>>
    BY <1>1 DEF Begin, views
  <2>2. Lists(holes, retired, open')
    <3>1. ASSUME NEW k \in Classes PROVE ListOK(holes[k], Slots[k], retired, open + 1)
      <4>1. ListOK(holes[k], Slots[k], retired, open)
        BY DEF IInv, Sound, Lists
      <4> QED
        BY <1>0, <4>1 DEF ListOK
    <3> QED
      BY <2>1, <3>1 DEF IInv, Sound, Lists
  <2>3. Sound'
    BY <2>1, <2>2 DEF IInv, Sound
  <2>4. Rounds'
    BY <1>0, <2>1 DEF IInv, Rounds
  <2>5. Q!Begin
    BY <2>1, SameView DEF Q!Begin
  <2> QED
    BY <2>3, <2>4, <2>5 DEF Q!Next, IInv
<1>2. ASSUME NEW c \in Cpus, Flush(c) PROVE IInv' /\ Q!Next
  <2>1. /\ epoch # 0 /\ c \in asked /\ cached' = [cached EXCEPT ![c] = {}] /\ done' = done \cup {c}
        /\ UNCHANGED <<holes, extents, open, retired, granted, revoked, attending>>
        /\ UNCHANGED <<epoch, asked, flushed>>
    BY <1>2 DEF Flush, space
  <2>2. IInv'
    BY <2>1 DEF IInv, Sound, Rounds
  <2>3. Q!Flush(c)
    BY <2>1, SameView DEF Q!Flush
  <2> QED
    BY <2>2, <2>3 DEF Q!Next
<1>3. ASSUME NEW c \in Cpus, Attend(c) PROVE IInv' /\ Q!Next
  <2>1. /\ c \notin attending /\ attending' = attending \cup {c}
        /\ UNCHANGED <<holes, extents, open, retired, granted, revoked, cached>>
        /\ UNCHANGED <<epoch, asked, flushed, done>>
    BY <1>3 DEF Attend, space, round, views
  <2>2. IInv'
    BY <2>1 DEF IInv, Sound, Rounds
  <2>3. Q!Attend(c)
    BY <2>1, SameView DEF Q!Attend
  <2> QED
    BY <2>2, <2>3 DEF Q!Next
<1> QED
  BY <1>1, <1>2, <1>3

\* The acknowledgement that closes a round retires its epoch: what waited for it or for
\* an earlier one is allocatable, and stays so however its holes were joined.
LEMMA AcknowledgeStep ==
  ASSUME IInv, NEW c \in Cpus, Acknowledge(c)
  PROVE  IInv' /\ Q!Next
<1>0. /\ open \in Nat /\ retired \in Nat /\ epoch \in Nat
      /\ retired < open /\ epoch < open /\ epoch <= open
      /\ Lists(holes, retired, open) /\ Spread(extents) /\ Cover(holes, extents)
  BY EpochNumbers DEF IInv, Sound
<1>1. /\ epoch # 0 /\ c \in done
      /\ UNCHANGED <<extents, open, attending, granted, revoked, cached>>
  BY DEF Acknowledge, views
<1>2. CASE ~ RoundOver(c)
  <2>1. flushed' = flushed \cup {c} /\ UNCHANGED <<holes, retired, epoch, asked, done>>
    BY <1>2 DEF Acknowledge
  <2>2. IInv'
    BY <1>1, <2>1 DEF IInv, Sound, Rounds
  <2>3. Q!Acknowledge(c)
    BY <1>1, <1>2, <2>1, SameView DEF Q!Acknowledge, RoundOver
  <2> QED
    BY <2>2, <2>3 DEF Q!Next
<1>3. CASE RoundOver(c)
  <2>1. /\ epoch' = 0 /\ asked' = {} /\ flushed' = {} /\ done' = {} /\ retired' = epoch
        /\ holes' = [k \in Classes |-> Settle(holes[k], epoch)]
        /\ flushed \cup {c} = asked
    BY <1>3 DEF Acknowledge, RoundOver
  <2>2. Retired(holes', holes, extents, epoch, open)
    BY <1>0, <2>1, SettleLists
  <2>3. /\ Lists(holes', epoch, open) /\ Cover(holes', extents)
        /\ \A l \in Classes, a, q, s \in Nat : Waits(holes'[l], a, q) /\ Waits(holes[l], a, s) =>
             (s <= epoch => q <= epoch) /\ (s > epoch => q = s)
    BY <2>2 DEF Retired
  <2>4. Sound'
    BY <1>1, <2>1, <2>3 DEF IInv, Sound
  <2>5. Rounds'
    BY <1>0, <1>1, <2>1 DEF IInv, Rounds
  <2>6. ASSUME NEW p \in AllPages
        PROVE  /\ Stamps(holes')[p] \in 0 .. open
               /\ IF Stamps(holes)[p] <= epoch THEN Stamps(holes')[p] <= epoch
                  ELSE Stamps(holes')[p] = Stamps(holes)[p]
    <3>1. PICK l \in Classes, a \in Nat : p = <<l, a>> /\ a < Size[l]
      BY AllPagesIs
    <3>2. Stamped(holes, extents, l, a)
      BY <1>0, <3>1, ViewStamps
    <3>3. Stamped(holes', extents, l, a)
      BY <2>3, <3>1, ViewStamps, ZenonT(40)
    <3>4. CASE Used(extents, l, a)
      <4>1. Stamps(holes)[<<l, a>>] = 0
        BY <3>2, <3>4 DEF Stamped
      <4>2. Stamps(holes')[<<l, a>>] = 0
        BY <3>3, <3>4 DEF Stamped
      <4> QED
        BY <1>0, <3>1, <4>1, <4>2
    <3>5. CASE ~ Used(extents, l, a)
      <4>1. PICK s \in Nat : Waits(holes[l], a, s)
        BY <3>2, <3>5 DEF Stamped
      <4>2. PICK q \in Nat : Waits(holes'[l], a, q)
        BY <3>3, <3>5 DEF Stamped
      <4>3. Stamps(holes)[<<l, a>>] = s
        BY <3>2, <4>1 DEF Stamped
      <4>4. Stamps(holes')[<<l, a>>] = q
        BY <3>3, <4>2 DEF Stamped
      <4>5. (s <= epoch => q <= epoch) /\ (s > epoch => q = s)
        BY <2>3, <3>1, <4>1, <4>2
      <4>6. q <= open
        BY <2>3, <3>1, <4>2 DEF Lists, ListOK
      <4> QED
        BY <1>0, <3>1, <4>3, <4>4, <4>5, <4>6
    <3> QED
      BY <3>4, <3>5
  <2>7. Stamps(holes') \in [AllPages -> 0 .. open]
    <3>1. Stamps(holes') = [p \in AllPages |-> Stamps(holes')[p]]
      BY DEF Stamps
    <3> QED
      BY <2>6, <3>1
  <2>8. UNCHANGED <<Held, Fresh, Mapped>>
    BY <1>1, Views, ViewsPrimed, Zenon
  <2>9. /\ Stamp' \in [AllPages -> 0 .. open]
        /\ \A p \in AllPages : IF Stamp[p] <= epoch THEN Stamp'[p] <= epoch
                               ELSE Stamp'[p] = Stamp[p]
    BY <2>6, <2>7, Views, ViewsPrimed, Zenon
  <2>10. Q!Close(c)
    BY <1>1, <2>1, <2>8, <2>9 DEF Q!Close
  <2> QED
    BY <2>4, <2>5, <2>10 DEF Q!Next, IInv
<1> QED
  BY <1>2, <1>3

\* Every step keeps the invariant and is a step of the quarantine or none.
LEMMA NextIInv == IInv /\ [Next]_vars => IInv' /\ [Q!Next]_(Q!vars)
<1> SUFFICES ASSUME IInv, [Next]_vars PROVE IInv' /\ [Q!Next]_(Q!vars)
  OBVIOUS
<1>1. CASE UNCHANGED vars
  <2>1. /\ UNCHANGED <<holes, extents, granted, revoked, open, retired, epoch, asked, flushed>>
        /\ UNCHANGED <<done, attending, cached>>
    BY <1>1 DEF vars
  <2>2. IInv'
    BY <2>1 DEF IInv, Sound, Rounds
  <2>3. UNCHANGED Q!vars
    BY <2>1, SameView DEF Q!vars
  <2> QED
    BY <2>2, <2>3
<1>2. CASE Next
  <2>1. CASE \E k \in Classes : \E n \in 1 .. Size[k] : Allocate(k, n)
    BY <2>1, AllocateStep
  <2>2. CASE \E e \in extents : Grant(e) \/ Revoke(e) \/ Release(e)
    BY <2>2, ViewSteps, ReleaseStep
  <2>3. CASE \E d \in Cpus, e \in extents : Walk(d, e)
    BY <2>3, ViewSteps
  <2>4. CASE Begin \/ \E d \in Cpus : Flush(d) \/ Acknowledge(d) \/ Attend(d)
    BY <2>4, RoundSteps, AcknowledgeStep
  <2> QED
    BY <1>2, <2>1, <2>2, <2>3, <2>4, Zenon DEF Next
<1> QED
  BY <1>1, <1>2

-----------------------------------------------------------------------------
(* The quarantine, of any pages and cores: no address is reused while a core *)
(* may still translate it, whatever the schedule of flushes.                 *)

\* Its invariant holds initially: nothing is held, cached or quarantined.
LEMMA QuarantineInit == Q!Init => Q!IInv
  BY DEF Q!Init, Q!IInv, Q!TypeOK, Q!Nesting, Q!CachedWaits

\* Every step of the quarantine keeps its invariant.
LEMMA QuarantineNext == Q!IInv /\ [Q!Next]_(Q!vars) => Q!IInv'
<1> SUFFICES ASSUME Q!IInv, [Q!Next]_(Q!vars) PROVE Q!IInv'
  OBVIOUS
<1> USE DEF Q!IInv, Q!TypeOK, Q!Nesting, Q!CachedWaits
<1>1. ASSUME NEW c \in Cpus, Q!Attend(c) PROVE Q!IInv'
  BY <1>1 DEF Q!Attend
<1>2. ASSUME NEW c \in Cpus, Q!Flush(c) PROVE Q!IInv'
  BY <1>2 DEF Q!Flush
<1>3. ASSUME NEW c \in Cpus, Q!Acknowledge(c) PROVE Q!IInv'
  BY <1>3 DEF Q!Acknowledge
<1>4. ASSUME NEW c \in Cpus, Q!Close(c) PROVE Q!IInv'
  BY <1>4 DEF Q!Close
<1>5. ASSUME NEW c \in Cpus, NEW p \in AllPages, Q!Walk(c, p) PROVE Q!IInv'
  BY <1>5 DEF Q!Walk
<1>6. ASSUME NEW S \in SUBSET AllPages, Q!Allocate(S) PROVE Q!IInv'
  BY <1>6 DEF Q!Allocate
<1>7. ASSUME NEW S \in SUBSET AllPages, Q!Grant(S) PROVE Q!IInv'
  BY <1>7 DEF Q!Grant
<1>8. ASSUME NEW S \in SUBSET AllPages, Q!Revoke(S) PROVE Q!IInv'
  BY <1>8 DEF Q!Revoke
<1>9. ASSUME NEW S \in SUBSET AllPages, NEW M \in SUBSET AllPages, Q!Release(S, M)
      PROVE  Q!IInv'
  BY <1>9 DEF Q!Release
<1>10. CASE Q!Begin
  BY <1>10 DEF Q!Begin
<1>11. CASE UNCHANGED Q!vars
  BY <1>11 DEF Q!vars
<1> QED
  BY <1>1, <1>2, <1>3, <1>4, <1>5, <1>6, <1>7, <1>8, <1>9, <1>10, <1>11, Zenon
  DEF Q!Next

\* In the quarantine, a core that may translate a free page still owes the flush
\* the page waits on.
THEOREM Quarantined == Q!Spec => []Q!IInv
  BY QuarantineInit, QuarantineNext, PTL DEF Q!Spec

\* A step of the quarantine hands out no page that a core can still translate, and
\* takes no epoch back.
LEMMA QuarantineClean ==
  ASSUME Q!IInv, Q!Next
  PROVE  /\ \A p \in Held' \ Held : \A c \in Cpus : p \notin cached[c]
         /\ retired' >= retired
<1> DEFINE Clean == /\ \A p \in Held' \ Held : \A c \in Cpus : p \notin cached[c]
                    /\ retired' >= retired
<1>1. ASSUME NEW S \in SUBSET AllPages, Q!Allocate(S) PROVE Clean
  BY <1>1 DEF Q!Allocate, Q!IInv, Q!TypeOK, Q!CachedWaits
<1>2. ASSUME NEW c \in Cpus, Q!Close(c) PROVE Clean
  BY <1>2 DEF Q!Close, Q!IInv, Q!TypeOK, Q!Nesting
<1>3. ASSUME Held' \subseteq Held, retired' = retired PROVE Clean
  BY <1>3 DEF Q!IInv, Q!TypeOK
<1> QED
  BY <1>1, <1>2, <1>3
  DEF Q!Next, Q!Attend, Q!Flush, Q!Acknowledge, Q!Walk, Q!Grant, Q!Revoke, Q!Release, Q!Begin

-----------------------------------------------------------------------------
(* The theorems. *)

\* The inductive invariant holds in every reachable state.
THEOREM Invariance == Spec => []IInv
<1>1. Init => IInv
  BY InitIInv
<1>2. IInv /\ [Next]_vars => IInv'
  BY NextIInv
<1> QED
  BY <1>1, <1>2, PTL DEF Spec

\* The free lists implement the quarantine of single pages: no merge, carve or settle
\* makes a page allocatable before its flush (va.rs, shootdown.rs).
THEOREM Implements == Spec => ImplementsQuarantine
<1>1. Init => Q!Init
  BY InitIInv
<1>2. IInv /\ [Next]_vars => [Q!Next]_(Q!vars)
  BY NextIInv
<1>3. Spec => Q!Spec
  BY <1>1, <1>2, Invariance, PTL DEF Spec, Q!Spec
<1> QED
  BY <1>3 DEF ImplementsQuarantine

\* No core reaches a range's previous owner through a range that Space::allocate
\* handed out again, whatever ranges its hole was merged with (shootdown.rs:11).
THEOREM Safe == Spec => []NoStaleTranslation
<1>1. Q!IInv => NoStaleTranslation
  BY DEF Q!IInv, Q!TypeOK, Q!CachedWaits, Q!NoStaleTranslation, NoStaleTranslation
<1> QED
  BY <1>1, Implements, Quarantined, PTL DEF ImplementsQuarantine

\* Space::allocate never returns an address some core has cached, and
\* Space::retire never takes an epoch back.
THEOREM CleanHandOut == Spec => Q!HandedOutClean
<1> DEFINE Clean == /\ \A p \in Held' \ Held : \A c \in Cpus : p \notin cached[c]
                    /\ retired' >= retired
<1>1. Q!IInv /\ [Q!Next]_(Q!vars) => [Clean]_(Q!vars)
  BY QuarantineClean
<1>2. Q!Spec => [][Clean]_(Q!vars)
  BY <1>1, Quarantined, PTL DEF Q!Spec
<1> QED
  BY <1>2, Implements, PTL DEF ImplementsQuarantine, Q!HandedOutClean

\* The invariant says that the free lists are exact.
LEMMA IInvExact == IInv => HolesExact
<1> SUFFICES ASSUME IInv PROVE HolesExact
  OBVIOUS
<1>0. /\ Spread(extents) /\ Cover(holes, extents)
      /\ \A k \in Classes : /\ holes[k] \in Seq(Holes) /\ Ordered(holes[k]) /\ Apart(holes[k], retired)
                            /\ Len(holes[k]) <= Slots[k]
                            /\ DOMAIN holes[k] = 1 .. Len(holes[k]) /\ Len(holes[k]) \in Nat
  BY DEF IInv, Sound, Lists, ListOK
<1>1. TypeOK
  BY <1>0 DEF IInv, Sound, Rounds, TypeOK
<1>2. ASSUME NEW k \in Classes, NEW i \in DOMAIN holes[k]
      PROVE  /\ i \in 1 .. Len(holes[k])
             /\ i > 1 => i - 1 \in 1 .. Len(holes[k]) /\ i - 1 < i /\ i \in 2 .. Len(holes[k])
  BY <1>0
<1>3. ASSUME NEW k \in Classes, NEW i \in DOMAIN holes[k]
      PROVE  /\ holes[k][i].start < holes[k][i].end
             /\ i > 1 => holes[k][i - 1].end <= holes[k][i].start
             /\ i > 1 => ~ /\ holes[k][i - 1].end = holes[k][i].start
                           /\ holes[k][i - 1].ready <= retired /\ holes[k][i].ready <= retired
  <2> DEFINE hs == holes[k]
  <2>1. Ordered(hs) /\ Apart(hs, retired)
    BY <1>0
  <2>2. /\ i \in 1 .. Len(hs)
        /\ i > 1 => i - 1 \in 1 .. Len(hs) /\ i - 1 < i /\ i \in 2 .. Len(hs)
    BY <1>2
  <2> HIDE DEF hs
  <2>3. /\ Lo(hs, i) < Hi(hs, i)
        /\ i > 1 => Hi(hs, i - 1) <= Lo(hs, i)
        /\ i > 1 => ~ (Hi(hs, i - 1) = Lo(hs, i) /\ Ep(hs, i - 1) <= retired /\ Ep(hs, i) <= retired)
    BY <2>1, <2>2, Zenon DEF Ordered, Apart
  <2> QED
    BY <2>3, Zenon DEF Lo, Hi, Ep, hs
<1>4. Coalesced
  BY <1>3, Zenon DEF Coalesced
<1>5. \A e, f \in extents : e # f => PagesOf(e) \cap PagesOf(f) = {}
  BY <1>0, PagesInIs, Zenon
<1>6. ASSUME NEW k \in Classes
      PROVE  LET free == UNION {HolePages(k, holes[k][i]) : i \in DOMAIN holes[k]}
                 used == UNION {PagesOf(e) : e \in {x \in extents : x.class = k}}
             IN free \cap used = {} /\ free \cup used = {<<k, i>> : i \in 0 .. Size[k] - 1}
  <2> DEFINE hs == holes[k]
             free == UNION {HolePages(k, hs[i]) : i \in DOMAIN hs}
             used == UNION {PagesOf(e) : e \in {x \in extents : x.class = k}}
             all == {<<k, i>> : i \in 0 .. Size[k] - 1}
  <2>0. hs \in Seq(Holes) /\ DOMAIN hs = 1 .. Len(hs)
    BY <1>0, ZenonT(40)
  <2>1. \A i \in 1 .. Len(hs) : Lo(hs, i) \in Nat /\ Hi(hs, i) \in Nat
    BY <2>0, Listed
  <2>2. ASSUME NEW i \in 1 .. Len(hs), NEW p
        PROVE  p \in HolePages(k, hs[i]) <=> \E a \in Nat : p = <<k, a>> /\ Over(hs, i, a)
    <3>1. HolePages(k, hs[i]) = {<<k, x>> : x \in Lo(hs, i) .. Hi(hs, i) - 1}
      BY Zenon DEF HolePages, Lo, Hi
    <3>2. Lo(hs, i) \in Nat /\ Hi(hs, i) \in Nat
      BY <2>1
    <3> HIDE DEF hs
    <3>3. \A a : a \in Lo(hs, i) .. Hi(hs, i) - 1 <=> a \in Nat /\ Over(hs, i, a)
      BY <3>2 DEF Over
    <3> QED
      BY <3>1, <3>3, Zenon
  <2>3. ASSUME NEW p PROVE p \in free <=> \E a \in Nat : p = <<k, a>> /\ Free(hs, a)
    <3> HIDE DEF hs
    <3>1. p \in free <=> \E i \in DOMAIN hs : p \in HolePages(k, hs[i])
      BY Zenon
    <3> HIDE DEF free
    <3> QED
      BY <2>0, <2>2, <3>1, Zenon DEF Free
  <2>4. ASSUME NEW p PROVE p \in used <=> \E a \in Nat : p = <<k, a>> /\ Used(extents, k, a)
    <3>1. p \in used <=> \E e \in extents : e.class = k /\ p \in PagesOf(e)
      BY Zenon
    <3>2. \A e \in extents : /\ \A q \in PagesOf(e) : \E a \in Nat : q = <<e.class, a>>
                             /\ \A l, a : <<l, a>> \in PagesOf(e) <=> a \in Nat /\ In(e, l, a)
      BY <1>0, PagesOfIs DEF Spread
    <3> HIDE DEF used
    <3>3. ASSUME p \in used PROVE \E a \in Nat : p = <<k, a>> /\ Used(extents, k, a)
      <4>1. PICK e \in extents : e.class = k /\ p \in PagesOf(e)
        BY <3>1, <3>3
      <4>2. PICK a \in Nat : p = <<k, a>>
        BY <3>2, <4>1
      <4>3. In(e, k, a)
        BY <3>2, <4>1, <4>2
      <4> QED
        BY <4>2, <4>3 DEF Used
    <3>4. ASSUME NEW a \in Nat, p = <<k, a>>, Used(extents, k, a) PROVE p \in used
      <4>1. PICK e \in extents : In(e, k, a)
        BY <3>4 DEF Used
      <4>2. e.class = k /\ p \in PagesOf(e)
        BY <3>2, <3>4, <4>1 DEF In
      <4> QED
        BY <3>1, <4>2
    <3> QED
      BY <3>3, <3>4
  <2>5. ASSUME NEW p PROVE p \in all <=> \E a \in Nat : p = <<k, a>> /\ a < Size[k]
    <3>1. Size[k] \in Nat
      BY ArenaSizes
    <3>2. \A a : a \in 0 .. Size[k] - 1 <=> a \in Nat /\ a < Size[k]
      BY <3>1
    <3> QED
      BY <3>2, Zenon
  <2>6. \A a \in Nat : /\ Free(hs, a) \/ Used(extents, k, a) <=> a < Size[k]
                       /\ ~ (Free(hs, a) /\ Used(extents, k, a))
    BY <1>0 DEF Cover
  <2> HIDE DEF hs, free, used, all
  <2>7. free \cap used = {}
    <3>1. \A a, b : <<k, a>> = <<k, b>> => a = b
      OBVIOUS
    <3> QED
      BY <2>3, <2>4, <2>6, <3>1
  <2>8. free \cup used = all
    BY <2>3, <2>4, <2>5, <2>6
  <2> QED
    BY <2>7, <2>8, Zenon DEF hs, free, used, all
<1>7. EveryPageOwnedOnce
  <2>1. \A k \in Classes : \A i \in DOMAIN holes[k] :
          /\ holes[k][i].start < holes[k][i].end
          /\ i > 1 => holes[k][i - 1].end <= holes[k][i].start
    BY <1>3, Zenon
  <2> QED
    BY <1>5, <1>6, <2>1, Zenon DEF EveryPageOwnedOnce
<1> QED
  BY <1>1, <1>4, <1>7 DEF HolesExact

\* The free lists are exact after any run of allocations, releases, merges across
\* epochs and retirements, with any number of slots (Arena in va.rs).
THEOREM Exact == Spec => []HolesExact
  BY IInvExact, Invariance, PTL
=============================================================================
