----------------------------- MODULE KernelBoot -----------------------------
(***************************************************************************)
(* The boot core from the first table to the first device: the page tables *)
(* of both ports, the leaf counts, the page cache and the PCI bus, in the  *)
(* order of kernel/src/main.rs. After the boot probes the kernel makes any *)
(* calls on the platform, maps files, or enumerates the bus.               *)
(***************************************************************************)
EXTENDS FileMap, PciBus

CONSTANT Ecam      \* the frame of bus zero's configuration window

vars == <<rv, x86, phase, cmd, calls, leaves, windows, pci>>

NoPci == [Enumerating([at \in {} |-> 0]) EXCEPT !.pc = "off"]

Init == PagingInit /\ FileInit /\ pci = NoPci

\* pci::smoke maps the configuration window, then walks the bus.
PciSmoke(bus) ==
  /\ phase = "running" /\ calls = 0
  /\ rv' = RvMapDevice(rv, Ecam, 1) /\ x86' = XMapDevice(x86, Ecam, 1)
  /\ cmd' = <<"device", <<Ecam, 1>>>>
  /\ IF rv'.out = "Ok" /\ x86'.out = "Ok"
     THEN phase' = "pci" /\ pci' = Enumerating(bus)
     ELSE phase' = "stopped" /\ pci' = pci
  /\ UNCHANGED <<calls, leaves, windows>>

BusStep ==
  /\ phase = "pci" /\ PciStep
  /\ cmd' = <<"pci">>
  /\ UNCHANGED <<rv, x86, phase, calls, leaves, windows>>

\* The BAR's frames through the inventory and into the device region.
IsDevice == pci.pc = "map" /\ HasSpan(pci.bar) /\ DeviceWindow(SpanStart(pci.bar), SpanFrames(pci.bar))

RefuseBar ==
  /\ phase = "pci" /\ Unmappable(IsDevice)
  /\ cmd' = <<"pci">>
  /\ UNCHANGED <<rv, x86, phase, calls, leaves, windows>>

MapBar ==
  /\ phase = "pci" /\ IsDevice
  /\ rv' = RvMapDevice(rv, SpanStart(pci.bar), SpanFrames(pci.bar))
  /\ x86' = XMapDevice(x86, SpanStart(pci.bar), SpanFrames(pci.bar))
  /\ MapRegisters(IsDevice, rv'.out = "Ok" /\ x86'.out = "Ok")
  /\ cmd' = <<"device", <<SpanStart(pci.bar), SpanFrames(pci.bar)>>>>
  /\ UNCHANGED <<phase, calls, leaves, windows>>

Next ==
  \/ PagingNext /\ UNCHANGED <<leaves, windows, pci>>
  \/ (CountCall \/ CountsEnd \/ FileCall) /\ UNCHANGED pci
  \/ \E bus \in Buses : PciSmoke(bus)
  \/ BusStep \/ RefuseBar \/ MapBar

Spec == Init /\ [][Next]_vars

(***************************************************************************)
(* Properties                                                              *)
(***************************************************************************)
\* What a call answers, against the page-by-page meaning.
CountedBy(call, result) ==
  LET m == Meaning(leaves, CountPages) IN
  IF result.out = "Ok"
  THEN /\ Legal(m, call) /\ Canonical(result.runs)
       /\ \A q \in CountPages : CountAt(result.runs, q) = Becomes(m, call, q)
  ELSE result.runs = leaves /\ (Legal(m, call) => result.out = "Storage")

\* The leaf table is exactly the page-by-page count: a call that answers Ok
\* changes the holders of the pages it names and of no others, one that is
\* refused changes nothing and had a reason, and the records stay sorted,
\* disjoint and joined, so no slot is lost to a request that never happened
\* (refcount.rs, "Every reason to refuse is found before the first cut").
LeavesCounted ==
  phase = "counts" =>
    \A p \in CountPages :
      /\ CountedBy(<<"splitrun", p, 0, 0>>, LeavesSplit(leaves, p))
      /\ CountedBy(<<"merge", p, 0, 0>>, LeavesMerge(leaves, p))
      /\ \A q \in {x + 1 : x \in {y \in CountPages : p <= y}} :
           /\ CountedBy(<<"share", p, q, 0>>, LeavesShare(leaves, p, q))
           /\ CountedBy(<<"release", p, q, 0>>, LeavesRelease(leaves, p, q))
      /\ \A class \in 0..TopClass, n \in 0..2 :
           MapFits(p, class, n) => CountedBy(<<"map", p, class, n>>, LeavesMap(leaves, p, class, n))

\* A page of a window as a view translates it, and the views that do.
Sees(t, frame) == t = [frame |-> frame, w |-> FALSE, x |-> FALSE, user |-> TRUE]

Viewing(Translate(_, _), start) == {v \in 1..2 : Translate(v, start) # Unmapped}

Mapped(Translate(_, _), w) ==
  /\ Cardinality(Viewing(Translate, w.start)) = w.holders
  /\ \A v \in Viewing(Translate, w.start), d \in 0..(Granule(MAPPED) - 1) :
       Sees(Translate(v, w.start + d), w.frame + d)

Uncached == {s \in WindowStarts : \A i \in DOMAIN windows : windows[i].start # s}

\* One window, one set of frames, one count: on both ports the views that
\* translate a window's address are as many as its holders and as its leaf's
\* count, each sees the frames the file was read into, read-only, and an address
\* no window is cached at is translated by no view: nothing is evicted from
\* under a mapping (filemap.rs, "the cache and the leaf counts disagree").
FilesShared ==
  phase = "files" =>
    /\ \A i \in DOMAIN windows :
         /\ Mapped(LAMBDA v, va : RvTranslate(rv, v, va), windows[i])
         /\ Mapped(LAMBDA v, va : XTranslate(x86, v, va), windows[i])
         /\ CountAt(leaves, windows[i].start).count = windows[i].holders
    /\ \A s \in Uncached, v \in 1..2 :
         RvTranslate(rv, v, s) = Unmapped /\ XTranslate(x86, v, s) = Unmapped
    /\ \A i, j \in DOMAIN windows : i # j => windows[i].file # windows[j].file /\ windows[i].start # windows[j].start
=============================================================================
