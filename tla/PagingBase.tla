----------------------------- MODULE PagingBase -----------------------------
(***************************************************************************)
(* What the two ports' page-table code shares: the memory they build       *)
(* tables in, the frames they build them from, the rights a leaf may       *)
(* carry, and the audit of a live table against the declared ranges        *)
(* (crates/sys/arch: lib.rs, memory.rs, audit.rs, view.rs, va.rs).         *)
(*                                                                         *)
(* Addresses and frames are counted in pages; a table has Fanout entries   *)
(* (512 in the code) and a leaf at level l covers Fanout^l pages.          *)
(***************************************************************************)
EXTENDS Integers, Sequences, FiniteSets, SequencesExt

CONSTANTS Fanout,      \* entries of a table
          Usable,      \* frames the firmware map reports as usable RAM
          Reserved,    \* frames it reports as reserved
          PoolFrames,  \* table frames drained at boot for later mappings
          LogRanges    \* ranges the mapping log can hold

NoFrame == -1

Granule(level) == Fanout ^ level

Index(va, level) == (va \div Granule(level)) % Fanout

AlignDown(va, size) == va - (va % size)

AlignUp(va, size) == AlignDown(va + size - 1, size)

\* The levels a walk to `level` passes through, the root's first.
Above(top, level) == [i \in 1..(top - level) |-> top + 1 - i]

(***************************************************************************)
(* Physical memory: what firmware says a frame is.                         *)
(***************************************************************************)
Kind(frame) ==
  IF frame \in Usable THEN "Ram" ELSE IF frame \in Reserved THEN "Reserved" ELSE "Device"

\* A span is a device window when no frame of it is RAM and all agree.
DeviceWindow(start, count) ==
  /\ \A f \in start..(start + count - 1) : Kind(f) = Kind(start)
  /\ Kind(start) # "Ram"

(***************************************************************************)
(* The boot allocator's cursor moves up through the usable frames and      *)
(* never back; the pool hands each frame it drained out once.              *)
(***************************************************************************)
FreeFrames(cursor) == {f \in Usable : f >= cursor}

NextFrame(cursor) ==
  IF FreeFrames(cursor) = {} THEN NoFrame
  ELSE CHOOSE f \in FreeFrames(cursor) : \A g \in FreeFrames(cursor) : f <= g

\* FrameAllocator::contiguous: the first run of `count`, and the cursor past it.
Contiguous(cursor, count) ==
  LET runs == {f \in FreeFrames(cursor) : f .. (f + count - 1) \subseteq Usable}
  IN IF count = 0 \/ runs = {} THEN NoFrame
     ELSE CHOOSE f \in runs : \A g \in runs : f <= g

(***************************************************************************)
(* A memory holds the tables, the allocator's cursor and the pool. A walk  *)
(* threads it together with the table reached and the first error.         *)
(***************************************************************************)
Walker(mem) == [mem |-> mem, table |-> NoFrame, err |-> "Ok"]

Fail(w, err) == [w EXCEPT !.err = err]

WithTable(mem, frame, row) ==
  [mem EXCEPT !.tables = [f \in DOMAIN mem.tables \cup {frame} |->
                            IF f = frame THEN row ELSE mem.tables[f]]]

SetEntry(mem, table, i, entry) == [mem EXCEPT !.tables[table][i] = entry]

\* Mutant: the pool keeps listing a frame it handed out.
TakenTwice(mem, source, frame) ==
  IF source = "boot" THEN [mem EXCEPT !.cursor = frame + 1] ELSE mem

Taken(mem, source, frame) ==
  IF source = "boot" THEN [mem EXCEPT !.cursor = frame + 1]
  ELSE [mem EXCEPT !.pool = Tail(mem.pool)]

TakeFrame(mem, source) ==
  IF source = "boot" THEN NextFrame(mem.cursor)
  ELSE IF mem.pool = <<>> THEN NoFrame ELSE Head(mem.pool)

RECURSIVE Drain(_, _)
Drain(mem, count) ==
  IF count = 0 \/ NextFrame(mem.cursor) = NoFrame THEN mem
  ELSE Drain([mem EXCEPT !.pool = Append(mem.pool, NextFrame(mem.cursor)),
                         !.cursor = NextFrame(mem.cursor) + 1], count - 1)

EmptyMemory == [tables |-> [f \in {} |-> <<>>], cursor |-> 0, pool |-> <<>>]

(***************************************************************************)
(* Rights: always readable, never writable and executable.                 *)
(***************************************************************************)
RightsOf(write, execute) == [w |-> write, x |-> execute]

Read == RightsOf(FALSE, FALSE)
ReadWrite == RightsOf(TRUE, FALSE)
ReadExecute == RightsOf(FALSE, TRUE)

Rights == {Read, ReadWrite, ReadExecute}

\* A page that translates to nothing.
Unmapped == [frame |-> NoFrame, w |-> FALSE, x |-> FALSE, user |-> FALSE]

(***************************************************************************)
(* Extents, and the frames a span backs their leaves with.                 *)
(***************************************************************************)
Extent(start, level, leaves) == [start |-> start, level |-> level, leaves |-> leaves]

BackingFits(e, frame, count) ==
  /\ count >= e.leaves * Granule(e.level)
  /\ frame % Granule(e.level) = 0
  /\ e.start % Granule(e.level) = 0

LeafSteps(e) == [i \in 1..e.leaves |-> (i - 1) * Granule(e.level)]

(***************************************************************************)
(* Declared ranges and the audit. A leaf is [start, size, r, w, x, cache]. *)
(***************************************************************************)
Push(log, start, end, contents) ==
  IF start >= end THEN [log |-> log, ok |-> TRUE]
  ELSE IF log # <<>> /\ Last(log).contents = contents /\ Last(log).end = start
  THEN [log |-> Front(log) \o <<[Last(log) EXCEPT !.end = end]>>, ok |-> TRUE]
  ELSE IF Len(log) = LogRanges THEN [log |-> log, ok |-> FALSE]
  ELSE [log |-> Append(log, [start |-> start, end |-> end, contents |-> contents]), ok |-> TRUE]

\* Contents::verify: what the contents of a range let a leaf in it grant.
Verifies(contents, leaf) ==
  CASE contents = "Text"   -> leaf.size = 1 /\ leaf.r /\ leaf.x /\ ~leaf.w
    [] contents = "Rodata" -> leaf.size = 1 /\ leaf.r /\ ~leaf.x /\ ~leaf.w
    [] contents = "Data"   -> leaf.size = 1 /\ leaf.r /\ leaf.w /\ ~leaf.x
    [] contents = "Image"  -> leaf.size = 1 /\ leaf.r /\ ~(leaf.w /\ leaf.x)
    [] contents = "Ram"    -> leaf.r /\ leaf.w /\ ~leaf.x
    [] contents = "Device" -> leaf.r /\ ~leaf.x /\ leaf.cache = "Device"

\* Audit::cover: every page of every declared range, through the leaf over it.
Covers(log, LeafAt(_)) ==
  \A i \in DOMAIN log : \A va \in log[i].start .. (log[i].end - 1) :
    LeafAt(va).size > 0 /\ Verifies(log[i].contents, LeafAt(va))

\* Audit::accepts: the first range the leaf starts in decides.
Accepts(log, leaf) ==
  \E i \in DOMAIN log :
    /\ leaf.start \in log[i].start .. (log[i].end - 1)
    /\ \A j \in 1..(i - 1) : leaf.start \notin log[j].start .. (log[j].end - 1)
    /\ leaf.start + leaf.size <= log[i].end
    /\ Verifies(log[i].contents, leaf)
=============================================================================
