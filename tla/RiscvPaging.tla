---------------------------- MODULE RiscvPaging -----------------------------
(***************************************************************************)
(* crates/platform/riscv/src/paging.rs: the boot address space, device     *)
(* windows and tier-2 views of the RISC-V port, as functions of a port     *)
(* state. Every function returns the next state, whose `out` is the call's *)
(* result.                                                                 *)
(*                                                                         *)
(* An entry is [v, flags, at]: a leaf when flags holds R, W or X, else a   *)
(* pointer to the table in frame `at`. A and D are pre-set and left out.   *)
(***************************************************************************)
EXTENDS PagingBase

CONSTANTS RvText, RvRodata, RvData, RvKernelEnd,   \* section bounds
          RvUartWindow, RvUart,                    \* the UART's window and frame
          RvDevices, RvDevicesEnd                  \* the device region

BuildLevel == 2
Sv57Level == 4

RvZero == [v |-> FALSE, flags |-> {}, at |-> 0]

RvZeroRow == [i \in 0..(Fanout - 1) |-> RvZero]

Pte(at, flags) == [v |-> TRUE, flags |-> flags, at |-> at]

RvIsLeaf(e) == e.flags \cap {"R", "W", "X"} # {}

RvLeafFlags(rights) ==
  {"R"} \cup (IF rights.w THEN {"W"} ELSE {}) \cup (IF rights.x THEN {"X"} ELSE {})

\* alloc_table: a zeroed frame from the allocator or the pool.
RvAllocTable(w, source, frame) ==
  IF frame = NoFrame THEN Fail(w, "OutOfFrames")
  ELSE [w EXCEPT !.mem = WithTable(Taken(w.mem, source, frame), frame, RvZeroRow),
                 !.table = frame]

\* The new table hangs from entry i of the table above it.
RvHang(w, above, i) ==
  IF w.err # "Ok" THEN w
  ELSE [w EXCEPT !.mem = SetEntry(w.mem, above, i, Pte(w.table, {}))]

RvEnter(w, i, entry, source) ==
  IF ~entry.v
  THEN RvHang(RvAllocTable(w, source, TakeFrame(w.mem, source)), w.table, i)
  ELSE IF RvIsLeaf(entry) THEN Fail(w, "Backend")
  ELSE [w EXCEPT !.table = entry.at]

RvDown(w, va, level, source) ==
  IF w.err # "Ok" THEN w
  ELSE RvEnter(w, Index(va, level), w.mem.tables[w.table][Index(va, level)], source)

RvPlace(w, va, pa, flags, level) ==
  IF w.err # "Ok" THEN w
  ELSE [w EXCEPT !.mem = SetEntry(w.mem, w.table, Index(va, level), Pte(pa, flags))]

\* map_leaf: builds the tables above the leaf; a larger leaf above refuses it,
\* whatever stands at the leaf's own level is replaced.
RvMapLeaf(w, root, top, va, pa, flags, level, source) ==
  IF w.err # "Ok" THEN w
  ELSE RvPlace(FoldLeft(LAMBDA u, l : RvDown(u, va, l, source),
                        [w EXCEPT !.table = root], Above(top, level)),
               va, pa, flags, level)

RvUnEnter(w, entry) ==
  IF ~entry.v \/ RvIsLeaf(entry) THEN Fail(w, "Absent") ELSE [w EXCEPT !.table = entry.at]

\* Mutant: clears without looking whether anything is there.
RvClearBlind(w, i) ==
  IF w.err # "Ok" THEN w ELSE [w EXCEPT !.mem = SetEntry(w.mem, w.table, i, RvZero)]

RvClear(w, i) ==
  IF w.err # "Ok" THEN w
  ELSE IF ~w.mem.tables[w.table][i].v THEN Fail(w, "Absent")
  ELSE [w EXCEPT !.mem = SetEntry(w.mem, w.table, i, RvZero)]

\* unmap_leaf: clears whatever entry stands at `level`, a table pointer too.
RvUnmapLeaf(w, root, top, va, level) ==
  IF w.err # "Ok" THEN w
  ELSE RvClear(FoldLeft(LAMBDA u, l : IF u.err # "Ok" THEN u
                                      ELSE RvUnEnter(u, u.mem.tables[u.table][Index(va, l)]),
                        [w EXCEPT !.table = root], Above(top, level)),
               Index(va, level))

RECURSIVE RvDescend(_, _, _, _)
RvDescend(tables, table, level, va) ==
  LET e == tables[table][Index(va, level)]
  IN IF ~e.v THEN [found |-> FALSE, entry |-> RvZero, level |-> 0, table |-> NoFrame]
     ELSE IF RvIsLeaf(e) THEN [found |-> TRUE, entry |-> e, level |-> level, table |-> table]
     ELSE IF level = 0 THEN [found |-> FALSE, entry |-> e, level |-> 0, table |-> NoFrame]
     ELSE RvDescend(tables, e.at, level - 1, va)

(***************************************************************************)
(* Boot: the image by section, then RAM with the largest leaves that fit,  *)
(* under a root as deep as the hart accepts.                               *)
(***************************************************************************)
RvLeafLevel(va, end, large) ==
  IF ~large THEN 0
  ELSE IF va % Granule(2) = 0 /\ end - va >= Granule(2) THEN 2
  ELSE IF va % Granule(1) = 0 /\ end - va >= Granule(1) THEN 1 ELSE 0

RECURSIVE RvMapRange(_, _, _, _, _, _)
RvMapRange(w, root, va, end, flags, large) ==
  IF va >= end \/ w.err # "Ok" THEN w
  ELSE RvMapRange(RvMapLeaf(w, root, BuildLevel, va, va, flags, RvLeafLevel(va, end, large), "boot"),
                  root, va + Granule(RvLeafLevel(va, end, large)), end, flags, large)

\* The maximal runs of usable frames above the kernel: UsableRegions.
RvRegions ==
  LET above == {f \in Usable : f >= RvKernelEnd}
      starts == {f \in above : f - 1 \notin above}
      EndOf(s) == CHOOSE e \in (s + 1)..(s + Cardinality(above)) :
                    s..(e - 1) \subseteq above /\ e \notin above
  IN SetToSortSeq({<<s, EndOf(s)>> : s \in starts}, LAMBDA a, b : a[1] < b[1])

RvSections == <<<<"Text", RvText, RvRodata, {"R", "X"}>>, <<"Rodata", RvRodata, RvData, {"R"}>>,
                <<"Data", RvData, RvKernelEnd, {"R", "W"}>>>>

\* The log after init: the three sections, then one range of RAM per region.
RvBootLog ==
  FoldLeft(LAMBDA log, r : Push(log, r[1], r[2], "Ram").log,
           FoldLeft(LAMBDA log, s : Push(log, s[2], s[3], s[1]).log, <<>>, RvSections),
           RvRegions)

RvBuild(w, root) ==
  FoldLeft(LAMBDA u, r : RvMapRange(u, root, r[1], r[2], {"R", "W"}, TRUE),
           FoldLeft(LAMBDA u, s : RvMapRange(u, root, s[2], s[3], s[4], FALSE), w, RvSections),
           RvRegions)

\* enable: a root above the built one for each wider mode; the widest the hart
\* keeps wins.
RvHangRoot(w, below) == RvHang([w EXCEPT !.table = below], w.table, 0)

RvRoots(w, root) ==
  FoldLeft(LAMBDA u, l :
             LET above == RvAllocTable(u.w, "boot", TakeFrame(u.w.mem, "boot"))
             IN [w |-> RvHangRoot(above, u.roots[l - 1]),
                 roots |-> [u.roots EXCEPT ![l] = above.table]],
           [w |-> w, roots |-> [l \in BuildLevel..Sv57Level |-> root]],
           [i \in 1..(Sv57Level - BuildLevel) |-> BuildLevel + i])

Widest(modes) == CHOOSE l \in modes : \A k \in modes : k <= l

RvEnabled(built, top) ==
  [mem |-> Drain(built.w.mem, PoolFrames), root |-> built.roots[top], top |-> top,
   log |-> RvBootLog, devices |-> RvDevices, views |-> <<>>, out |-> "Ok"]

\* `modes` are the root levels the hart's satp keeps.
RvInit(modes) ==
  LET first == RvAllocTable(Walker([EmptyMemory EXCEPT !.cursor = RvKernelEnd]), "boot",
                            NextFrame(RvKernelEnd))
  IN RvEnabled(RvRoots(RvBuild(first, first.table), first.table), Widest(modes))

(***************************************************************************)
(* Calls on the running port.                                              *)
(***************************************************************************)
RvReturn(port, w) == [port EXCEPT !.mem = w.mem, !.out = w.err]

\* Views::open finds the slot before the root is built.
RvOpenView(port, maxViews) ==
  IF Len(port.views) = maxViews THEN [port EXCEPT !.out = "Capacity"]
  ELSE LET w == RvAllocTable(Walker(port.mem), "pool", TakeFrame(port.mem, "pool"))
       IN IF w.err # "Ok" THEN [port EXCEPT !.out = w.err]
          ELSE [port EXCEPT !.mem = w.mem, !.views = Append(port.views, w.table), !.out = "Ok"]

RvGrant(port, view, e, frame, count, rights) ==
  IF ~BackingFits(e, frame, count) THEN [port EXCEPT !.out = "Backing"]
  ELSE IF view \notin DOMAIN port.views THEN [port EXCEPT !.out = "Unknown"]
  ELSE RvReturn(port,
         FoldLeft(LAMBDA u, d : RvMapLeaf(u, port.views[view], port.top, e.start + d, frame + d,
                                          RvLeafFlags(rights) \cup {"U"}, e.level, "pool"),
                  Walker(port.mem), LeafSteps(e)))

RvRevoke(port, view, e) ==
  IF view \notin DOMAIN port.views THEN [port EXCEPT !.out = "Unknown"]
  ELSE RvReturn(port,
         FoldLeft(LAMBDA u, d : RvUnmapLeaf(u, port.views[view], port.top, e.start + d, e.level),
                  Walker(port.mem), LeafSteps(e)))

\* Mutant: the children step by one page whatever their size.
RvChildrenByPage(leaf, level) ==
  [i \in 0..(Fanout - 1) |-> Pte(leaf.at + i, leaf.flags)]

\* The Fanout leaves a leaf is cut into keep its flags and share its frames.
RvChildren(leaf, level) ==
  [i \in 0..(Fanout - 1) |-> Pte(leaf.at + i * Granule(level - 1), leaf.flags)]

RvCut(port, at, va, frame) ==
  IF frame = NoFrame THEN [port EXCEPT !.out = "OutOfFrames"]
  ELSE [port EXCEPT !.mem = SetEntry(WithTable(Taken(port.mem, "pool", frame), frame,
                                               RvChildren(at.entry, at.level)),
                                     at.table, Index(va, at.level), Pte(frame, {})),
                    !.out = "Ok"]

RvSplitLeaf(port, view, va) ==
  IF view \notin DOMAIN port.views THEN [port EXCEPT !.out = "Unknown"]
  ELSE LET at == RvDescend(port.mem.tables, port.views[view], port.top, va)
       IN IF ~at.found THEN [port EXCEPT !.out = "Absent"]
          ELSE IF at.level \notin {1, 2} THEN [port EXCEPT !.out = "Granule"]
          ELSE RvCut(port, at, va, TakeFrame(port.mem, "pool"))

\* prepare_domain: the supervisor's trap gateway, identity mapped, no U bit.
RvPrepareDomain(port, view, code, data) ==
  IF view \notin DOMAIN port.views THEN [port EXCEPT !.out = "Unknown"]
  ELSE RvReturn(port,
         FoldLeft(LAMBDA u, g : RvMapLeaf(u, port.views[view], port.top, g[1], g[1], g[2], 0, "pool"),
                  Walker(port.mem), <<<<code, {"R", "X"}>>, <<data, {"R", "W"}>>>>))

RvClaimRam(port, count) ==
  IF Contiguous(port.mem.cursor, count) = NoFrame THEN [port EXCEPT !.out = "OutOfFrames"]
  ELSE [port EXCEPT !.mem.cursor = Contiguous(port.mem.cursor, count) + count, !.out = "Ok"]

(***************************************************************************)
(* Device windows: the range is declared before its leaves are mapped, and *)
(* the region's cursor moves only when all of them are.                    *)
(***************************************************************************)
RvMapWindow(port, pushed, frame, count) ==
  IF ~pushed.ok THEN [port EXCEPT !.out = "Backend"]
  ELSE LET w == FoldLeft(LAMBDA u, d : RvMapLeaf(u, port.root, port.top, port.devices + d, frame + d,
                                                 {"R", "W"}, 0, "pool"),
                         Walker(port.mem), [i \in 1..count |-> i - 1])
       IN [port EXCEPT !.mem = w.mem, !.log = pushed.log, !.out = w.err,
                       !.devices = IF w.err = "Ok" THEN AlignUp(port.devices + count, Granule(1)) ELSE @]

\* Mutant: the window is mapped and never declared.
RvMapDeviceSilent(port, frame, count) ==
  IF port.devices + count > RvDevicesEnd THEN [port EXCEPT !.out = "OutOfFrames"]
  ELSE RvMapWindow(port, [log |-> port.log, ok |-> TRUE], frame, count)

RvMapDevice(port, frame, count) ==
  IF port.devices + count > RvDevicesEnd THEN [port EXCEPT !.out = "OutOfFrames"]
  ELSE RvMapWindow(port, Push(port.log, port.devices, port.devices + count, "Device"), frame, count)

(***************************************************************************)
(* The audits: the declared pages through the tables, then every leaf of   *)
(* the tables against the declarations.                                    *)
(***************************************************************************)
RvLeaf(at, va) ==
  IF ~at.found THEN [start |-> va, size |-> 0, r |-> FALSE, w |-> FALSE, x |-> FALSE, cache |-> "None"]
  ELSE [start |-> AlignDown(va, Granule(at.level)), size |-> Granule(at.level),
        r |-> "R" \in at.entry.flags, w |-> "W" \in at.entry.flags, x |-> "X" \in at.entry.flags,
        cache |-> IF Kind(at.entry.at) = "Device" THEN "Device" ELSE "WriteBack"]

RvKernelLeaf(port, va) == RvLeaf(RvDescend(port.mem.tables, port.root, port.top, va), va)

\* walk_table: every leaf under a table, where it starts and what it grants.
RECURSIVE RvLeaves(_, _, _, _)
RvLeaves(tables, table, level, base) ==
  UNION {LET e == tables[table][i]
             va == base + i * Granule(level)
         IN IF ~e.v THEN {}
            ELSE IF RvIsLeaf(e)
            THEN {RvLeaf([found |-> TRUE, entry |-> e, level |-> level, table |-> table], va)}
            ELSE RvLeaves(tables, e.at, level - 1, va)
         : i \in 0..(Fanout - 1)}

RvSwept(port) ==
  \A leaf \in RvLeaves(port.mem.tables, port.root, port.top, 0) : Accepts(port.log, leaf)

RvAudit(port) ==
  [port EXCEPT !.out = IF Covers(port.log, LAMBDA va : RvKernelLeaf(port, va)) /\ RvSwept(port)
                       THEN "Ok" ELSE "Mapping"]

\* largest_ram_leaf: every page of every usable range lies under some leaf.
RvLargestRamLeaf(port) ==
  [port EXCEPT !.out =
     IF \A i \in DOMAIN RvRegions : \A va \in RvRegions[i][1] .. (RvRegions[i][2] - 1) :
          RvKernelLeaf(port, va).size > 0
     THEN "Ok" ELSE "Unmapped"]

\* verify_device_window: the UART's page, from the boot allocator, then the audit.
RvLogged(port, pushed) ==
  IF port.out # "Ok" \/ ~pushed.ok THEN [port EXCEPT !.out = "Mapping"]
  ELSE RvAudit([port EXCEPT !.log = pushed.log])

RvVerifyDeviceWindow(port) ==
  RvLogged(RvReturn(port, RvMapLeaf(Walker(port.mem), port.root, port.top, RvUartWindow, RvUart,
                                    {"R", "W"}, 0, "boot")),
           Push(port.log, RvUartWindow, RvUartWindow + 1, "Device"))

\* verify_owned_mapping: a fresh frame behind a page only this mode reaches,
\* then nothing behind it.
RvProbe(top) == Granule(top) * (Fanout \div 2)

RvProbed(port, w) ==
  IF w.err # "Ok" THEN [port EXCEPT !.out = w.err]
  ELSE RvReturn(port, RvUnmapLeaf(w, port.root, port.top, RvProbe(port.top), 0))

RvVerifyOwnedMapping(port) ==
  LET frame == NextFrame(port.mem.cursor)
  IN IF frame = NoFrame THEN [port EXCEPT !.out = "OutOfFrames"]
     ELSE RvProbed(port, RvMapLeaf(Walker(Taken(port.mem, "boot", frame)), port.root, port.top,
                                   RvProbe(port.top), frame, {"R", "W"}, 0, "boot"))

(***************************************************************************)
(* What the hardware makes of a view's tables for one page (external).     *)
(***************************************************************************)
RvFound(at, va) ==
  IF ~at.found THEN Unmapped
  ELSE [frame |-> at.entry.at + (va % Granule(at.level)),
        w |-> "W" \in at.entry.flags, x |-> "X" \in at.entry.flags, user |-> "U" \in at.entry.flags]

RvTranslate(port, view, va) ==
  IF view \notin DOMAIN port.views THEN Unmapped
  ELSE RvFound(RvDescend(port.mem.tables, port.views[view], port.top, va), va)

\* The leaf `resident` reports: its class and the rights it carries.
RvResident(port, view, va) ==
  IF view \notin DOMAIN port.views THEN [size |-> 0]
  ELSE LET at == RvDescend(port.mem.tables, port.views[view], port.top, va)
       IN IF ~at.found THEN [size |-> 0]
          ELSE [size |-> Granule(at.level), base |-> at.entry.at,
                w |-> "W" \in at.entry.flags, x |-> "X" \in at.entry.flags]
=============================================================================
