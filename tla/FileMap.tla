------------------------------ MODULE FileMap ------------------------------
(***************************************************************************)
(* The page cache and the file mappings made of it: a window of a file is  *)
(* read into frames once and mapped into every view that asks              *)
(* (crates/sys/arch/src/cache.rs, kernel/src/filemap.rs), over the leaf    *)
(* counts and over the page tables of both ports. The leaf counts are also *)
(* driven on their own, by any calls (kernel/src/domain.rs, `counts`).     *)
(*                                                                         *)
(* A file has one window, of one leaf of class MAPPED. What the kernel     *)
(* `expect`s stops it: phase "stopped".                                    *)
(***************************************************************************)
EXTENDS Paging

CONSTANTS Files, WindowFrame,   \* file -> the frames its window was read into
          WindowStarts,         \* where the megabyte arena seats an extent
          WindowSlots,          \* windows the cache has room for
          CountPages,           \* the pages of the counted extent
          RunSlots,             \* records the leaf counts have room for
          MaxCount,             \* u32::MAX
          TopClass              \* Class::Giga

VARIABLES leaves,   \* the leaf counts: a sequence of runs
          windows   \* the cache: a sequence of [file, start, frame, holders]

(***************************************************************************)
(* Who holds a mapping, counted per leaf and never per frame               *)
(* (crates/sys/arch/src/refcount.rs): a table of runs of equal leaves with *)
(* equal counts, sorted by address, cut where a request begins or ends and *)
(* joined again wherever nothing is left to disagree about.                *)
(***************************************************************************)
Run(start, class, n, count) ==
  [start |-> start, class |-> class, leaves |-> n, count |-> count]

RunEnd(r) == r.start + r.leaves * Granule(r.class)

Done(runs) == [out |-> "Ok", runs |-> runs]
Refuse(runs, why) == [out |-> why, runs |-> runs]

\* The record over an address, 0 when nothing is counted there.
FindRun(t, a) ==
  LET i == SelectLastInSeq(t, LAMBDA r : r.start <= a)
  IN IF i # 0 /\ a < RunEnd(t[i]) THEN i ELSE 0

\* A mistake the table could make: neighbours of any class joined.
CoalesceCounts(t) ==
  FoldLeft(LAMBDA acc, r : IF acc # <<>> /\ RunEnd(Last(acc)) = r.start /\ Last(acc).count = r.count
                           THEN Front(acc) \o <<[Last(acc) EXCEPT !.leaves = @ + r.leaves]>>
                           ELSE Append(acc, r), <<>>, t)

\* Neighbours of one class and one count become one record.
Coalesce(t) ==
  FoldLeft(LAMBDA acc, r : IF /\ acc # <<>> /\ RunEnd(Last(acc)) = r.start
                              /\ Last(acc).class = r.class /\ Last(acc).count = r.count
                           THEN Front(acc) \o <<[Last(acc) EXCEPT !.leaves = @ + r.leaves]>>
                           ELSE Append(acc, r), <<>>, t)

\* Whether a record has to be cut for a request to stop at an address, and
\* whether the address is inside one of its leaves.
Splits(t, a) == FindRun(t, a) # 0 /\ t[FindRun(t, a)].start # a
Straddles(t, a) == FindRun(t, a) # 0 /\ a % Granule(t[FindRun(t, a)].class) # 0

CutRun(t, i, a, before) ==
  InsertAt([t EXCEPT ![i].leaves = before], i + 1, [t[i] EXCEPT !.start = a, !.leaves = @ - before])

CutAt(t, a) ==
  IF ~Splits(t, a) THEN t
  ELSE LET i == FindRun(t, a) IN CutRun(t, i, a, (a - t[i].start) \div Granule(t[i].class))

CutsFor(t, lo, hi) == (IF Splits(t, lo) THEN 1 ELSE 0) + (IF Splits(t, hi) THEN 1 ELSE 0)

\* cover: every reason to refuse is found before the first cut.
Cover(t, lo, hi) ==
  IF \E p \in lo..(hi - 1) : FindRun(t, p) = 0 THEN Refuse(t, "Untracked")
  ELSE IF Straddles(t, lo) \/ Straddles(t, hi) THEN Refuse(t, "Straddle")
  ELSE IF Len(t) + CutsFor(t, lo, hi) > RunSlots THEN Refuse(t, "Storage")
  ELSE Done(CutAt(CutAt(t, lo), hi))

Inside(r, lo, hi) == lo <= r.start /\ RunEnd(r) <= hi

\* The covered records take one more holder, or lose one and go at zero.
Shared(t, lo, hi) ==
  [i \in DOMAIN t |-> IF Inside(t[i], lo, hi) THEN [t[i] EXCEPT !.count = @ + 1] ELSE t[i]]

Dropped(t, lo, hi) ==
  SelectSeq([i \in DOMAIN t |-> IF Inside(t[i], lo, hi) THEN [t[i] EXCEPT !.count = @ - 1] ELSE t[i]],
            LAMBDA r : r.count # 0)

Finish(covered, t, After(_)) ==
  IF covered.out # "Ok" THEN Refuse(t, covered.out) ELSE Done(Coalesce(After(covered.runs)))

Overlapping(t, lo, hi) == \E i \in DOMAIN t : t[i].start < hi /\ lo < RunEnd(t[i])

LeavesMap(t, start, class, n) ==
  IF n = 0 THEN Refuse(t, "Untracked")
  ELSE IF start % Granule(class) # 0 THEN Refuse(t, "Misaligned")
  ELSE IF Overlapping(t, start, start + n * Granule(class)) THEN Refuse(t, "Overlap")
  ELSE IF Len(t) = RunSlots THEN Refuse(t, "Storage")
  ELSE Done(Coalesce(InsertAt(t, Cardinality({i \in DOMAIN t : t[i].start < start}) + 1,
                              Run(start, class, n, 1))))

LeavesShare(t, lo, hi) ==
  IF \E i \in DOMAIN t : t[i].count = MaxCount /\ t[i].start < hi /\ RunEnd(t[i]) > lo
  THEN Refuse(t, "Saturated")
  ELSE Finish(Cover(t, lo, hi), t, LAMBDA runs : Shared(runs, lo, hi))

LeavesRelease(t, lo, hi) == Finish(Cover(t, lo, hi), t, LAMBDA runs : Dropped(runs, lo, hi))

\* One record over the leaf (the group) gives way to its children (its parent).
Replaced(t, lo, run) == [t EXCEPT ![FindRun(t, lo)] = run]

SplitRun(t, run, lo) ==
  Finish(Cover(t, lo, lo + Granule(run.class)), t,
         LAMBDA runs : Replaced(runs, lo, Run(lo, run.class - 1, Fanout, run.count)))

LeavesSplit(t, a) ==
  LET i == FindRun(t, a) IN
  IF i = 0 THEN Refuse(t, "Untracked")
  ELSE IF t[i].class = 0 THEN Refuse(t, "Granule")
  ELSE SplitRun(t, t[i], AlignDown(a, Granule(t[i].class)))

MergeRun(t, run, lo, hi) ==
  IF run.start > lo \/ RunEnd(run) < hi THEN Refuse(t, "Uneven")
  ELSE Finish(Cover(t, lo, hi), t, LAMBDA runs : Replaced(runs, lo, Run(lo, run.class + 1, 1, run.count)))

LeavesMerge(t, a) ==
  LET i == FindRun(t, a) IN
  IF i = 0 THEN Refuse(t, "Untracked")
  ELSE IF t[i].class = TopClass THEN Refuse(t, "Granule")
  ELSE MergeRun(t, t[i], AlignDown(a, Granule(t[i].class + 1)),
                AlignDown(a, Granule(t[i].class + 1)) + Granule(t[i].class + 1))

(***************************************************************************)
(* What the table promises, page by page.                                  *)
(***************************************************************************)
CountAt(t, p) ==
  LET over == {i \in DOMAIN t : p \in t[i].start..(RunEnd(t[i]) - 1)}
  IN IF over = {} THEN [class |-> -1, count |-> 0]
     ELSE LET r == t[CHOOSE i \in over : TRUE] IN [class |-> r.class, count |-> r.count]

Meaning(t, pages) == [p \in pages |-> CountAt(t, p)]

\* Sorted, disjoint, within its slots, and no two neighbours that agree.
Canonical(t) ==
  /\ Len(t) <= RunSlots
  /\ \A i \in DOMAIN t : t[i].leaves > 0 /\ t[i].count \in 1..MaxCount /\ t[i].start % Granule(t[i].class) = 0
  /\ \A i \in 2..Len(t) :
       /\ RunEnd(t[i - 1]) <= t[i].start
       /\ RunEnd(t[i - 1]) = t[i].start => t[i - 1].class # t[i].class \/ t[i - 1].count # t[i].count

Counted(m, lo, hi) == \A p \in lo..(hi - 1) : m[p].count > 0
Whole(m, lo, hi) == lo % Granule(m[lo].class) = 0 /\ hi % Granule(m[hi - 1].class) = 0

Legal(m, call) ==
  LET p == call[2] IN
  CASE call[1] = "map" -> /\ call[4] > 0 /\ p % Granule(call[3]) = 0
                          /\ \A q \in p..(p + call[4] * Granule(call[3]) - 1) : m[q].count = 0
    [] call[1] = "share" -> /\ Counted(m, p, call[3]) /\ Whole(m, p, call[3])
                            /\ \A q \in p..(call[3] - 1) : m[q].count < MaxCount
    [] call[1] = "release" -> Counted(m, p, call[3]) /\ Whole(m, p, call[3])
    [] call[1] = "splitrun" -> m[p].class > 0
    [] call[1] = "merge" -> /\ m[p].class \in 0..(TopClass - 1)
                            /\ LET g == Granule(m[p].class + 1)
                               IN \A q \in AlignDown(p, g)..(AlignDown(p, g) + g - 1) : m[q] = m[p]

\* What a call that answers Ok leaves behind a page.
Becomes(m, call, q) ==
  LET p == call[2] IN
  CASE call[1] = "map" -> IF q \in p..(p + call[4] * Granule(call[3]) - 1)
                          THEN [class |-> call[3], count |-> 1] ELSE m[q]
    [] call[1] = "share" -> IF q \in p..(call[3] - 1) THEN [m[q] EXCEPT !.count = @ + 1] ELSE m[q]
    [] call[1] = "release" -> IF q \notin p..(call[3] - 1) THEN m[q]
                              ELSE IF m[q].count = 1 THEN [class |-> -1, count |-> 0]
                              ELSE [m[q] EXCEPT !.count = @ - 1]
    [] call[1] = "splitrun" -> IF AlignDown(q, Granule(m[p].class)) = AlignDown(p, Granule(m[p].class))
                               THEN [m[q] EXCEPT !.class = @ - 1] ELSE m[q]
    [] call[1] = "merge" -> IF AlignDown(q, Granule(m[p].class + 1)) = AlignDown(p, Granule(m[p].class + 1))
                            THEN [m[q] EXCEPT !.class = @ + 1] ELSE m[q]

(***************************************************************************)
(* The cache.                                                              *)
(***************************************************************************)
MAPPED == 1

FileInit == leaves = <<>> /\ windows = <<>>

Window(file, start, frame) == [file |-> file, start |-> start, frame |-> frame, holders |-> 1]

FindWindow(w, file) == SelectInSeq(w, LAMBDA x : x.file = file)

\* A mistake the cache could make: it stands in for EvictError.
EvictableAlways(w, file) == IF FindWindow(w, file) = 0 THEN "Unknown" ELSE "Ok"

\* Windows::insert, for an offset and frames its class allows.
InsertError(w, file, frame) ==
  IF frame % Granule(MAPPED) # 0 THEN "Backing"
  ELSE IF FindWindow(w, file) # 0 THEN "Present"
  ELSE IF Len(w) = WindowSlots THEN "Storage" ELSE "Ok"

\* Windows::hold: a saturated count is not a hit.
HoldError(w, file) ==
  LET i == FindWindow(w, file) IN
  IF i = 0 THEN "Unknown" ELSE IF w[i].holders = MaxCount THEN "Saturated" ELSE "Ok"

Held(w, file) == [w EXCEPT ![FindWindow(w, file)].holders = @ + 1]

\* Windows::release: zero holders do not evict.
ReleaseError(w, file) ==
  LET i == FindWindow(w, file) IN
  IF i = 0 THEN "Unknown" ELSE IF w[i].holders = 0 THEN "Unreferenced" ELSE "Ok"

Unheld(w, file) == [w EXCEPT ![FindWindow(w, file)].holders = @ - 1]

\* Windows::evict: the last window takes the slot.
EvictError(w, file) ==
  LET i == FindWindow(w, file) IN
  IF i = 0 THEN "Unknown" ELSE IF w[i].holders # 0 THEN "Held" ELSE "Ok"

Evicted(w, file) == Front([w EXCEPT ![FindWindow(w, file)] = Last(w)])

(***************************************************************************)
(* Boot's leaf counts, over the addresses of the extent it was given: any  *)
(* calls, where the code makes one of each, then the table is dropped.     *)
(***************************************************************************)
Counts(result) ==
  /\ phase = "counts"
  /\ leaves' = result.runs
  /\ UNCHANGED <<pagingVars, windows>>

CountMap(p, class, n) == Counts(LeavesMap(leaves, p, class, n))
CountShare(p, q) == Counts(LeavesShare(leaves, p, q))
CountRelease(p, q) == Counts(LeavesRelease(leaves, p, q))
CountSplit(p) == Counts(LeavesSplit(leaves, p))
CountMerge(p) == Counts(LeavesMerge(leaves, p))

CountsEnd ==
  /\ phase = "counts"
  /\ phase' = "image" /\ leaves' = <<>> /\ cmd' = <<"counts">>
  /\ UNCHANGED <<rv, x86, calls, windows>>

MapFits(p, class, n) == \A d \in 1..(n * Granule(class)) : p + d - 1 \in CountPages

CountCall ==
  \/ \E p \in CountPages :
       \/ CountSplit(p) \/ CountMerge(p)
       \/ \E q \in CountPages : p <= q /\ (CountShare(p, q + 1) \/ CountRelease(p, q + 1))
       \/ \E class \in 0..TopClass, n \in 0..2 :
            MapFits(p, class, n) /\ CountMap(p, class, n)

(***************************************************************************)
(* filemap: one step per block of calls the kernel makes for a view.       *)
(***************************************************************************)
WindowExtent(start) == Extent(start, MAPPED, 1)
WindowEnd(start) == start + Granule(MAPPED)

\* The two views the windows are mapped into.
OpenFileView ==
  /\ (phase = "running" /\ calls = 0) \/ phase = "files"
  /\ Len(rv.views) < 2
  /\ rv' = RvOpenView(rv, MaxViews) /\ x86' = XOpenView(x86, MaxViews)
  /\ phase' = IF rv'.out = "Ok" /\ x86'.out = "Ok" THEN "files" ELSE "stopped"
  /\ cmd' = <<"open">>
  /\ UNCHANGED <<calls, leaves, windows>>

Filing(args, answers, r, x) ==
  /\ phase = "files" /\ Len(rv.views) = 2
  /\ rv' = r /\ x86' = x /\ cmd' = args
  /\ phase' = IF answers \cup {r.out, x.out} = {"Ok"} THEN "files" ELSE "stopped"
  /\ UNCHANGED calls

GrantWindow(v, start, frame, answers) ==
  Filing(<<"grant", v, WindowExtent(start), frame, Read>>, answers,
         RvGrant(rv, v, WindowExtent(start), frame, Granule(MAPPED), Read),
         XGrant(x86, v, WindowExtent(start), frame, Granule(MAPPED), Read))

\* A miss: an extent, the window cached over its frames, its leaf counted, and
\* one leaf in the first view.
MapFresh(v, file) ==
  /\ FindWindow(windows, file) = 0
  /\ \E start \in {s \in WindowStarts : \A i \in DOMAIN windows : windows[i].start # s} :
       /\ \A s \in WindowStarts : s < start => \E i \in DOMAIN windows : windows[i].start = s
       /\ windows' = IF InsertError(windows, file, WindowFrame[file]) = "Ok"
                     THEN Append(windows, Window(file, start, WindowFrame[file])) ELSE windows
       /\ \E counted \in {LeavesMap(leaves, start, MAPPED, 1)} :
            /\ leaves' = counted.runs
            /\ GrantWindow(v, start, WindowFrame[file],
                           {InsertError(windows, file, WindowFrame[file]), counted.out})

\* A hit: the same address and the same frames for another view, nothing read.
\* A window whose last holder left has no leaves to share and stops the kernel.
MapCached(v, file) ==
  /\ FindWindow(windows, file) # 0
  /\ \E w \in {windows[FindWindow(windows, file)]} :
       /\ RvTranslate(rv, v, w.start) = Unmapped
       /\ windows' = IF HoldError(windows, file) = "Ok" THEN Held(windows, file) ELSE windows
       /\ \E shared \in {LeavesShare(leaves, w.start, WindowEnd(w.start))} :
            leaves' = shared.runs /\ GrantWindow(v, w.start, w.frame, {HoldError(windows, file), shared.out})

\* unmap: the leaf out of the view, then the two references.
UnmapWindow(v, file) ==
  /\ FindWindow(windows, file) # 0
  /\ \E w \in {windows[FindWindow(windows, file)]} :
       /\ RvTranslate(rv, v, w.start) # Unmapped
       /\ windows' = IF ReleaseError(windows, file) = "Ok" THEN Unheld(windows, file) ELSE windows
       /\ \E left \in {LeavesRelease(leaves, w.start, WindowEnd(w.start))} :
            /\ leaves' = left.runs
            /\ Filing(<<"revoke", v, WindowExtent(w.start)>>, {ReleaseError(windows, file), left.out},
                      RvRevoke(rv, v, WindowExtent(w.start)), XRevoke(x86, v, WindowExtent(w.start)))

\* Only a window nobody maps comes out; its addresses go to space::recycle and
\* its frames to whoever is read next.
EvictWindow(file) ==
  /\ phase = "files" /\ FindWindow(windows, file) # 0
  /\ windows' = IF EvictError(windows, file) = "Ok" THEN Evicted(windows, file) ELSE windows
  /\ cmd' = <<"evict", file, EvictError(windows, file)>>
  /\ UNCHANGED <<rv, x86, phase, calls, leaves>>

FileCall ==
  \/ OpenFileView
  \/ \E v \in 1..2, file \in Files : MapFresh(v, file) \/ MapCached(v, file) \/ UnmapWindow(v, file)
  \/ \E file \in Files : EvictWindow(file)
=============================================================================
