------------------------------- MODULE Paging -------------------------------
(***************************************************************************)
(* A kernel and the platform under it, twice: the same calls made of the   *)
(* RISC-V and of the x86-64 port, side by side. Boot runs in the order of  *)
(* kernel/src/main.rs, every step `expect`ed; then views are opened,       *)
(* granted into, cut, revoked from and prepared for entry, device windows  *)
(* mapped and RAM claimed, in any order.                                   *)
(***************************************************************************)
EXTENDS RiscvPaging, X86Paging

CONSTANTS Harts,         \* sets of root levels a hart may accept
          MaxViews,      \* view::VIEWS
          Grants,        \* <<extent, frame, count, rights>> a domain is granted
          Cuts,          \* pages whose leaf is cut
          Windows,       \* <<frame, count>> device windows
          Heap, Chunks,  \* frames of a heap chunk, and how many are asked for
          Code, Data, Tables,   \* the gateway's pages
          DomainPages,
          MaxCalls       \* bound on calls after boot

VARIABLES rv, x86, phase, cmd, calls

pagingVars == <<rv, x86, phase, cmd, calls>>

PagingInit ==
  /\ \E modes \in Harts : rv = RvInit(modes)
  /\ x86 = XInit
  /\ phase = "heap" /\ cmd = <<"init">> /\ calls = 0

\* One step of the boot sequence on both ports; a failed `expect` panics.
BootStep(at, then, r, x) ==
  /\ phase = at
  /\ rv' = r /\ x86' = x
  /\ phase' = IF r.out = "Ok" /\ x.out = "Ok" THEN then ELSE "panic"
  /\ cmd' = <<at>>
  /\ UNCHANGED calls

\* heap::init: chunk after chunk until a claim fails; none at all fails the boot.
Donated(port, Claim(_)) ==
  LET after == FoldLeft(LAMBDA p, i : IF p.out # "Ok" THEN p ELSE Claim(p),
                        port, [i \in 1..Chunks |-> i])
  IN [after EXCEPT !.out = IF after.mem.cursor = port.mem.cursor THEN "Unsupported" ELSE "Ok"]

HeapInit == BootStep("heap", "owned", Donated(rv, LAMBDA p : RvClaimRam(p, Heap)),
                     Donated(x86, LAMBDA p : XClaimRam(p, Heap)))

VerifyOwnedMapping == BootStep("owned", "counts", RvVerifyOwnedMapping(rv), XVerifyOwnedMapping(x86))

VerifyImageProtection == BootStep("image", "huge", RvAudit(rv), XAudit(x86))

ReportHugeMap == BootStep("huge", "window", RvLargestRamLeaf(rv), XLargestRamLeaf(x86))

\* The x86 port mapped its window in init and audits again.
VerifyDeviceWindow == BootStep("window", "running", RvVerifyDeviceWindow(rv), XAudit(x86))

Call(args, r, x) ==
  /\ phase = "running" /\ calls < MaxCalls
  /\ rv' = r /\ x86' = x
  /\ cmd' = args /\ calls' = calls + 1
  /\ UNCHANGED phase

OpenView == Call(<<"open">>, RvOpenView(rv, MaxViews), XOpenView(x86, MaxViews))

Grant(v, g) ==
  Call(<<"grant", v, g[1], g[2], g[4]>>, RvGrant(rv, v, g[1], g[2], g[3], g[4]), XGrant(x86, v, g[1], g[2], g[3], g[4]))

Revoke(v, e) == Call(<<"revoke", v, e>>, RvRevoke(rv, v, e), XRevoke(x86, v, e))

SplitLeaf(v, va) == Call(<<"split", v, va>>, RvSplitLeaf(rv, v, va), XSplitLeaf(x86, v, va))

PrepareDomain(v) ==
  Call(<<"prepare", v>>, RvPrepareDomain(rv, v, Code, Data), XPrepareDomain(x86, v, Code, Data, Tables))

MapDevice(w) == Call(<<"device", w>>, RvMapDevice(rv, w[1], w[2]), XMapDevice(x86, w[1], w[2]))

ClaimRam == Call(<<"claim">>, RvClaimRam(rv, 1), XClaimRam(x86, 1))

Boot == HeapInit \/ VerifyOwnedMapping \/ VerifyImageProtection \/ ReportHugeMap \/ VerifyDeviceWindow

PagingNext ==
  \/ Boot
  \/ OpenView
  \/ \E v \in 1..MaxViews, g \in Grants : Grant(v, g)
  \/ \E v \in 1..MaxViews, g \in Grants : Revoke(v, g[1])
  \/ \E v \in 1..MaxViews, va \in Cuts : SplitLeaf(v, va)
  \/ \E v \in 1..MaxViews : PrepareDomain(v)
  \/ \E w \in Windows : MapDevice(w)
  \/ ClaimRam

(***************************************************************************)
(* Properties                                                              *)
(***************************************************************************)
\* Where the device windows of each port end.
RvSettled == \A i \in DOMAIN rv.log : rv.log[i].start >= RvDevices => rv.log[i].end <= rv.devices

XSettled == \A va \in x86.devices .. (XDevicesEnd - 1) : ~XWalk(x86, x86.root, va).found

\* Boot's probes and audits hold on both ports (every step of main.rs is
\* `expect`ed), and they go on holding as device windows come: the RISC-V port
\* never maps a page it has not declared, the x86-64 port never declares a page
\* it has not mapped, and once the windows reach exactly the region's cursor
\* the whole audit (verify_image_protection) would pass again.
KernelAudited ==
  /\ phase # "panic"
  /\ cmd[1] = "device" =>
       /\ RvSwept(rv)
       /\ RvSettled => RvAudit(rv).out = "Ok"
       /\ Covers(x86.log, LAMBDA va : XLeaf(XWalk(x86, x86.root, va), va))
       /\ XSettled => XAudit(x86).out = "Ok"

\* Every table a root reaches, named by the path to it.
RECURSIVE RvReach(_, _, _)
RvReach(frame, level, path) ==
  {<<path, frame>>} \cup
    (IF level = 0 THEN {}
     ELSE UNION {RvReach(rv.mem.tables[frame][i].at, level - 1, Append(path, i)) :
                   i \in {j \in 0..(Fanout - 1) : rv.mem.tables[frame][j].v /\ ~RvIsLeaf(rv.mem.tables[frame][j])}})

RECURSIVE XReach(_, _, _)
XReach(frame, level, path) ==
  {<<path, frame>>} \cup
    (IF level = 0 THEN {}
     ELSE UNION {XReach(x86.mem.tables[frame][i].at, level - 1, Append(path, i)) :
                   i \in {j \in 0..(Fanout - 1) : x86.mem.tables[frame][j].p /\ ~XIsLeaf(x86.mem.tables[frame][j], level)}})

RvTables == RvReach(rv.root, rv.top, <<0>>) \cup
              UNION {RvReach(rv.views[v], rv.top, <<v>>) : v \in DOMAIN rv.views}

XTables == XReach(x86.root, TOP, <<0>>) \cup
             UNION {XReach(x86.views[v], TOP, <<v>>) : v \in DOMAIN x86.views}

Private(reached, mem) ==
  /\ \A a, b \in reached : a[2] = b[2] => a = b
  /\ \A a \in reached : a[2] < mem.cursor /\ a[2] \notin ToSet(mem.pool)

\* No two places of any root's tree share a table, and no frame a live table
\* occupies can be handed out again: the boot cursor is past it and the pool no
\* longer lists it, across boot, views, cuts, windows and claims on either port
\* (FramePool "hands each frame out at most once").
TablesPrivate == (phase \notin {"panic", "counts"} /\ cmd[1] # "pci") => Private(RvTables, rv.mem) /\ Private(XTables, x86.mem)

\* A kernel written against Platform gets the same answer from both ports: while
\* neither pool has run dry, the same call returns the same result and leaves
\* the same leaf (size, frame, rights) behind every page of every view.
PortsAgree ==
  (phase = "running" /\ rv.mem.pool # <<>> /\ x86.mem.pool # <<>>) =>
    /\ cmd[1] \in {"open", "grant", "revoke", "split", "prepare"} => rv.out = x86.out
    /\ \A v \in 1..MaxViews, va \in DomainPages \ {Code, Data, Tables} :
         RvResident(rv, v, va) = XResident(x86, v, va)

\* The two ports as views.
GrantExtents == {g[1] : g \in Grants}
GrantFrames == {g[2] : g \in Grants}

RvView == INSTANCE ViewSpec WITH
  Pages <- DomainPages, Extents <- GrantExtents, Size <- Granule, Frames <- GrantFrames,
  Gateway <- <<<<Code, Code, ReadExecute>>, <<Data, Data, ReadWrite>>>>,
  trans <- [v \in DOMAIN rv.views |-> [va \in DomainPages |-> RvTranslate(rv, v, va)]],
  out <- rv.out

XView == INSTANCE ViewSpec WITH
  Pages <- DomainPages, Extents <- GrantExtents, Size <- Granule, Frames <- GrantFrames,
  Gateway <- <<<<Code, XLive[Code].at, ReadExecute>>, <<Data, XLive[Data].at, ReadWrite>>,
               <<Tables, XLive[Tables].at, Read>>>>,
  trans <- [v \in DOMAIN x86.views |-> [va \in DomainPages |-> XTranslate(x86, v, va)]],
  out <- x86.out

\* What each port's tables translate refines ViewSpec: a grant adds exactly its
\* extent, a revoke takes exactly its extent, a cut changes nothing, the gateway
\* is there for the supervisor alone, and a call that fails has done a prefix of
\* its leaves: no call ever touches another page or another view.
ImplementsView == RvView!Spec /\ XView!Spec
=============================================================================
