----------------------------- MODULE X86Paging ------------------------------
(***************************************************************************)
(* crates/platform/x86_64/src/memory.rs: the address space, device windows *)
(* and tier-2 views of the x86-64 port, as functions of a port state.      *)
(*                                                                         *)
(* An entry is [p, flags, at]: flags holds HUGE for a leaf above level 0,  *)
(* W, NX, U and UC. The hardware takes the most restrictive of the levels  *)
(* it walks for W and U, which is what separates this port from the other. *)
(***************************************************************************)
EXTENDS PagingBase

CONSTANTS XLive,                  \* page -> [at, flags] the loader mapped
          XImage, XImageEnd, XImageLimit,   \* the image as the loader reports it
          XStack, XStackEnd, XBootInfo, XBootInfoEnd,
          XOffset,                \* where physical memory is direct mapped
          XLow,                   \* frames below it can start a core
          XApicWindow, XApic,
          XDevices, XDevicesEnd, XTestPage

TOP == 3

XZero == [p |-> FALSE, flags |-> {}, at |-> 0]

XZeroRow == [i \in 0..(Fanout - 1) |-> XZero]

XEntry(at, flags) == [p |-> TRUE, flags |-> flags, at |-> at]

XLeafFlags(rights, cache) ==
  (IF rights.w THEN {"W"} ELSE {}) \cup (IF rights.x THEN {} ELSE {"NX"})
    \cup (IF cache = "Device" THEN {"UC"} ELSE {})

XIsLeaf(e, level) == level = 0 \/ "HUGE" \in e.flags

XAllocTable(w, source, frame) ==
  IF frame = NoFrame THEN Fail(w, "OutOfFrames")
  ELSE [w EXCEPT !.mem = WithTable(Taken(w.mem, source, frame), frame, XZeroRow),
                 !.table = frame]

XHang(w, above, i, flags) ==
  IF w.err # "Ok" THEN w
  ELSE [w EXCEPT !.mem = SetEntry(w.mem, above, i, XEntry(w.table, flags))]

\* A user leaf needs the user bit on every pointer above it.
XWidened(w, i, entry, flags) ==
  [w EXCEPT !.mem = SetEntry(w.mem, w.table, i, [entry EXCEPT !.flags = @ \cup flags]),
            !.table = entry.at]

XEnter(w, i, entry, flags, source) ==
  IF ~entry.p
  THEN XHang(XAllocTable(w, source, TakeFrame(w.mem, source)), w.table, i,
             {"W"} \cup (flags \cap {"U"}))
  ELSE IF "HUGE" \in entry.flags THEN Fail(w, "Backend")
  ELSE XWidened(w, i, entry, flags \cap {"U"})

XDown(w, va, level, flags, source) ==
  IF w.err # "Ok" THEN w
  ELSE XEnter(w, Index(va, level), w.mem.tables[w.table][Index(va, level)], flags, source)

XPlace(w, va, pa, flags, level) ==
  IF w.err # "Ok" THEN w
  ELSE [w EXCEPT !.mem = SetEntry(w.mem, w.table, Index(va, level),
                                  XEntry(pa, IF level = 0 THEN flags ELSE flags \cup {"HUGE"}))]

XMapLeaf(w, root, va, pa, flags, level, source) ==
  IF w.err # "Ok" THEN w
  ELSE XPlace(FoldLeft(LAMBDA u, l : XDown(u, va, l, flags, source),
                       [w EXCEPT !.table = root], Above(TOP, level)),
              va, pa, flags, level)

\* OffsetPageTable::map_to (the x86_64 crate): pointers gain the leaf's W and U,
\* a page already mapped is refused.
XMapToEnter(w, i, entry, flags, source) ==
  IF ~entry.p
  THEN XHang(XAllocTable(w, source, TakeFrame(w.mem, source)), w.table, i, flags \cap {"W", "U"})
  ELSE IF "HUGE" \in entry.flags THEN Fail(w, "Backend")
  ELSE XWidened(w, i, entry, flags \cap {"W", "U"})

XMapToPlace(w, va, pa, flags, level) ==
  IF w.err # "Ok" THEN w
  ELSE IF w.mem.tables[w.table][Index(va, level)].p THEN Fail(w, "Backend")
  ELSE XPlace(w, va, pa, flags, level)

\* Its callers report every failure as Backend.
MapError(w) == IF w.err = "Ok" THEN w ELSE Fail(w, "Backend")

XMapTo(w, root, va, pa, flags, level, source) ==
  IF w.err # "Ok" THEN w
  ELSE MapError(XMapToPlace(FoldLeft(LAMBDA u, l : IF u.err # "Ok" THEN u
                              ELSE XMapToEnter(u, Index(va, l), u.mem.tables[u.table][Index(va, l)],
                                               flags, source),
                            [w EXCEPT !.table = root], Above(TOP, level)),
                   va, pa, flags, level))

\* table_at: the table at `level`, or Absent when a larger leaf covers the page.
XTableAt(w, root, va, level) ==
  FoldLeft(LAMBDA u, l :
             IF u.err # "Ok" THEN u
             ELSE LET e == u.mem.tables[u.table][Index(va, l)]
                  IN IF ~e.p \/ "HUGE" \in e.flags THEN Fail(u, "Absent") ELSE [u EXCEPT !.table = e.at],
           [w EXCEPT !.table = root], Above(TOP, level))

XClear(w, i) ==
  IF w.err # "Ok" THEN w
  ELSE IF ~w.mem.tables[w.table][i].p THEN Fail(w, "Absent")
  ELSE [w EXCEPT !.mem = SetEntry(w.mem, w.table, i, XZero)]

XUnmapLeaf(w, root, va, level) ==
  IF w.err # "Ok" THEN w ELSE XClear(XTableAt(w, root, va, level), Index(va, level))

\* ViewWalk::leaf, with the pointers' rights met on the way down.
RECURSIVE XDescend(_, _, _, _, _)
XDescend(tables, table, level, va, met) ==
  LET e == tables[table][Index(va, level)]
  IN IF ~e.p THEN [found |-> FALSE, entry |-> XZero, level |-> 0, table |-> NoFrame, met |-> {}]
     ELSE IF XIsLeaf(e, level)
     THEN [found |-> TRUE, entry |-> e, level |-> level, table |-> table, met |-> met \cap e.flags]
     ELSE XDescend(tables, e.at, level - 1, va, met \cap e.flags)

XWalk(port, root, va) == XDescend(port.mem.tables, root, TOP, va, {"W", "U"})

(***************************************************************************)
(* Boot: usable RAM direct mapped, the loader's image, stack and boot info *)
(* cloned page by page, the local APIC, and a frame to start cores in.     *)
(***************************************************************************)
XRegionEnd(s) == CHOOSE e \in (s + 1)..(s + Cardinality(Usable)) :
                   s..(e - 1) \subseteq Usable /\ e \notin Usable

XRegions == SetToSortSeq({<<s, XRegionEnd(s)>> : s \in {f \in Usable : f - 1 \notin Usable}},
                         LAMBDA a, b : a[1] < b[1])

XLarge(physical, end) ==
  /\ (XOffset + physical) % Granule(1) = 0
  /\ physical % Granule(1) = 0
  /\ end - physical >= Granule(1)

RECURSIVE XDirect(_, _, _, _)
XDirect(w, root, physical, end) ==
  IF physical >= end \/ w.err # "Ok" THEN w
  ELSE LET level == IF XLarge(physical, end) THEN 1 ELSE 0
       IN XDirect(XMapTo(w, root, XOffset + physical, physical, {"W", "NX"}, level, "boot"),
                  root, physical + Granule(level), end)

\* clone: the pages the loader mapped in a range, with the rights it gave them.
XCloned(start, end) == SelectSeq([i \in 1..(end - start) |-> start + i - 1],
                                 LAMBDA va : va \in DOMAIN XLive)

RECURSIVE XMappedEnd(_)
XMappedEnd(end) ==
  IF end \in DOMAIN XLive /\ end - XImage < XImageLimit THEN XMappedEnd(end + 1) ELSE end

XWindows == <<<<XImage, XMappedEnd(XImageEnd), "Image">>, <<XStack, XStackEnd, "Ram">>,
              <<XBootInfo, XBootInfoEnd, "Ram">>>>

XClone(w, root, range) ==
  FoldLeft(LAMBDA u, va : XMapTo(u, root, va, XLive[va].at, XLive[va].flags \cap {"W", "NX"}, 0, "boot"),
           w, XCloned(range[1], range[2]))

XTrampoline == NextFrame(0)

XBuild(w, root) ==
  LET direct == FoldLeft(LAMBDA u, r : XDirect(u, root, r[1], r[2]), w, XRegions)
      cloned == FoldLeft(LAMBDA u, r : XClone(u, root, r), direct, XWindows)
      apic == XMapTo(cloned, root, XApicWindow, XApic, XLeafFlags(ReadWrite, "Device"), 0, "boot")
  IN IF XTrampoline < XLow
     THEN XMapTo(apic, root, XTrampoline, XTrampoline, XLeafFlags(ReadExecute, "WriteBack"), 0, "boot")
     ELSE apic

XLogTrampoline(log) ==
  IF XTrampoline < XLow THEN Push(log, XTrampoline, XTrampoline + 1, "Image").log ELSE log

XBootLog ==
  LET ram == FoldLeft(LAMBDA log, r : Push(log, XOffset + r[1], XOffset + r[2], "Ram").log, <<>>, XRegions)
      cloned == FoldLeft(LAMBDA log, r :
                           FoldLeft(LAMBDA l, va : Push(l, va, va + 1, r[3]).log, log, XCloned(r[1], r[2])),
                         ram, XWindows)
  IN XLogTrampoline(Push(cloned, XApicWindow, XApicWindow + 1, "Device").log)

XBooted(w, root) ==
  [mem |-> Drain(XBuild(w, root).mem, PoolFrames), root |-> root, log |-> XBootLog,
   devices |-> XDevices, views |-> <<>>, out |-> "Ok"]

\* The lowest usable frame is set aside for starting cores when it is low enough.
XInit ==
  LET first == IF XTrampoline < XLow THEN XTrampoline + 1 ELSE 0
      w == XAllocTable(Walker([EmptyMemory EXCEPT !.cursor = first]), "boot", NextFrame(first))
  IN XBooted(w, w.table)

(***************************************************************************)
(* Calls on the running port.                                              *)
(***************************************************************************)
XReturn(port, w) == [port EXCEPT !.mem = w.mem, !.out = w.err]

XOpenView(port, maxViews) ==
  IF Len(port.views) = maxViews THEN [port EXCEPT !.out = "Capacity"]
  ELSE LET w == XAllocTable(Walker(port.mem), "pool", TakeFrame(port.mem, "pool"))
       IN IF w.err # "Ok" THEN [port EXCEPT !.out = w.err]
          ELSE [port EXCEPT !.mem = w.mem, !.views = Append(port.views, w.table), !.out = "Ok"]

XGrant(port, view, e, frame, count, rights) ==
  IF ~BackingFits(e, frame, count) THEN [port EXCEPT !.out = "Backing"]
  ELSE IF view \notin DOMAIN port.views THEN [port EXCEPT !.out = "Unknown"]
  ELSE XReturn(port,
         FoldLeft(LAMBDA u, d : XMapLeaf(u, port.views[view], e.start + d, frame + d,
                                         XLeafFlags(rights, "WriteBack") \cup {"U"}, e.level, "pool"),
                  Walker(port.mem), LeafSteps(e)))

XRevoke(port, view, e) ==
  IF view \notin DOMAIN port.views THEN [port EXCEPT !.out = "Unknown"]
  ELSE XReturn(port,
         FoldLeft(LAMBDA u, d : XUnmapLeaf(u, port.views[view], e.start + d, e.level),
                  Walker(port.mem), LeafSteps(e)))

\* A child that is still above the pages keeps HUGE; the pointer that replaces
\* the leaf is writable and executable, so only the children decide.
XChildren(leaf, level) ==
  [i \in 0..(Fanout - 1) |->
     XEntry(leaf.at + i * Granule(level - 1),
            IF level - 1 = 0 THEN leaf.flags \ {"HUGE"} ELSE leaf.flags)]

XCut(port, at, va, frame) ==
  IF frame = NoFrame THEN [port EXCEPT !.out = "OutOfFrames"]
  ELSE [port EXCEPT !.mem = SetEntry(WithTable(Taken(port.mem, "pool", frame), frame,
                                               XChildren(at.entry, at.level)),
                                     at.table, Index(va, at.level),
                                     XEntry(frame, {"W"} \cup (at.entry.flags \cap {"U"}))),
                    !.out = "Ok"]

XSplitLeaf(port, view, va) ==
  IF view \notin DOMAIN port.views THEN [port EXCEPT !.out = "Unknown"]
  ELSE LET at == XWalk(port, port.views[view], va)
       IN IF ~at.found THEN [port EXCEPT !.out = "Absent"]
          ELSE IF at.level \notin {1, 2} THEN [port EXCEPT !.out = "Granule"]
          ELSE XCut(port, at, va, TakeFrame(port.mem, "pool"))

\* prepare_domain: each gateway page where the kernel's own tables have it.
XPrepare(w, port, view, va, flags) ==
  IF w.err # "Ok" THEN w
  ELSE LET at == XWalk(port, port.root, va)
       IN IF ~at.found THEN Fail(w, "Unmapped")
          ELSE XMapLeaf(w, port.views[view], va, at.entry.at + (va % Granule(at.level)), flags, 0, "pool")

XPrepareDomain(port, view, code, data, tables) ==
  IF view \notin DOMAIN port.views THEN [port EXCEPT !.out = "Unknown"]
  ELSE XReturn(port,
         FoldLeft(LAMBDA u, g : XPrepare(u, port, view, g[1], XLeafFlags(g[2], "WriteBack")),
                  Walker(port.mem), <<<<code, ReadExecute>>, <<data, ReadWrite>>, <<tables, Read>>>>))

XClaimRam(port, count) ==
  IF Contiguous(port.mem.cursor, count) = NoFrame THEN [port EXCEPT !.out = "OutOfFrames"]
  ELSE [port EXCEPT !.mem.cursor = Contiguous(port.mem.cursor, count) + count, !.out = "Ok"]

(***************************************************************************)
(* Device windows: a page already mapped refuses the window, and the range *)
(* is declared only once all of it is mapped.                              *)
(***************************************************************************)
XMapPage(w, port, va, frame) ==
  IF w.err # "Ok" THEN w
  ELSE IF XDescend(w.mem.tables, port.root, TOP, va, {}).found THEN Fail(w, "Unexpected")
  ELSE XMapTo(w, port.root, va, frame, XLeafFlags(ReadWrite, "Device"), 0, "pool")

XDeclare(port, w, pushed, end) ==
  IF w.err # "Ok" THEN [port EXCEPT !.mem = w.mem, !.out = w.err]
  ELSE IF ~pushed.ok THEN [port EXCEPT !.mem = w.mem, !.out = "Backend"]
  ELSE [port EXCEPT !.mem = w.mem, !.log = pushed.log, !.devices = AlignUp(end, Granule(1)), !.out = "Ok"]

XMapDevice(port, frame, count) ==
  IF port.devices + count > XDevicesEnd THEN [port EXCEPT !.out = "OutOfFrames"]
  ELSE XDeclare(port, FoldLeft(LAMBDA u, d : XMapPage(u, port, port.devices + d, frame + d),
                               Walker(port.mem), [i \in 1..count |-> i - 1]),
                Push(port.log, port.devices, port.devices + count, "Device"), port.devices + count)

(***************************************************************************)
(* The audits and the boot probes.                                         *)
(***************************************************************************)
XLeaf(at, va) ==
  IF ~at.found THEN [start |-> va, size |-> 0, r |-> FALSE, w |-> FALSE, x |-> FALSE, cache |-> "None"]
  ELSE [start |-> AlignDown(va, Granule(at.level)), size |-> Granule(at.level), r |-> TRUE,
        w |-> "W" \in at.entry.flags, x |-> "NX" \notin at.entry.flags,
        cache |-> IF "UC" \in at.entry.flags THEN "Device" ELSE "WriteBack"]

RECURSIVE XLeaves(_, _, _, _)
XLeaves(tables, table, level, base) ==
  UNION {LET e == tables[table][i]
             va == base + i * Granule(level)
         IN IF ~e.p THEN {}
            ELSE IF XIsLeaf(e, level)
            THEN {XLeaf([found |-> TRUE, entry |-> e, level |-> level, table |-> table], va)}
            ELSE XLeaves(tables, e.at, level - 1, va)
         : i \in 0..(Fanout - 1)}

XSwept(port) == \A leaf \in XLeaves(port.mem.tables, port.root, TOP, 0) : Accepts(port.log, leaf)

XAudit(port) ==
  [port EXCEPT !.out = IF /\ Covers(port.log, LAMBDA va : XLeaf(XWalk(port, port.root, va), va))
                          /\ XSwept(port)
                       THEN "Ok" ELSE "Mapping"]

\* largest_ram_leaf: every direct-mapped page of every usable range.
XLargestRamLeaf(port) ==
  [port EXCEPT !.out =
     IF \A i \in DOMAIN XRegions : \A frame \in XRegions[i][1] .. (XRegions[i][2] - 1) :
          XWalk(port, port.root, XOffset + frame).found
     THEN "Ok" ELSE "Unmapped"]

\* verify_owned_mapping: OwnedPage maps a fresh frame and unmaps it when dropped.
XProbed(port, w) ==
  IF w.err # "Ok" THEN [port EXCEPT !.out = w.err]
  ELSE XReturn(port, XUnmapLeaf(w, port.root, XTestPage, 0))

XVerifyOwnedMapping(port) ==
  LET frame == NextFrame(port.mem.cursor)
  IN IF frame = NoFrame THEN [port EXCEPT !.out = "OutOfFrames"]
     ELSE XProbed(port, XMapTo(Walker(Taken(port.mem, "boot", frame)), port.root, XTestPage, frame,
                               XLeafFlags(ReadWrite, "WriteBack"), 0, "boot"))

(***************************************************************************)
(* What the hardware makes of a view's tables for one page (external).     *)
(***************************************************************************)
XFound(at, va) ==
  IF ~at.found THEN Unmapped
  ELSE [frame |-> at.entry.at + (va % Granule(at.level)),
        w |-> "W" \in at.met, x |-> "NX" \notin at.entry.flags, user |-> "U" \in at.met]

XTranslate(port, view, va) ==
  IF view \notin DOMAIN port.views THEN Unmapped ELSE XFound(XWalk(port, port.views[view], va), va)

XResident(port, view, va) ==
  IF view \notin DOMAIN port.views THEN [size |-> 0]
  ELSE LET at == XWalk(port, port.views[view], va)
       IN IF ~at.found THEN [size |-> 0]
          ELSE [size |-> Granule(at.level), base |-> at.entry.at,
                w |-> "W" \in at.entry.flags, x |-> "NX" \notin at.entry.flags]
=============================================================================
