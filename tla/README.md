# Verification of molt in TLA+

molt is a single-address-space operating system whose parts talk through
submission and completion rings. This directory models its parts, model-checks
them with TLC on small instances, and proves some of the results with TLAPS for
every instance. `PROJECT.json` maps definitions to the source lines they model
and lists components, runs, mutants, hazards, findings and theorems.

    tlc -workers 2 -config Journal.cfg Journal      # one run
    tlapm ExecutorProofs.tla                        # one proof module

In the map, a definition of one line that only abbreviates part of another
mapped definition of its module has no entry of its own: the entry of the
definition that uses it names those lines.

## 1. The system

| Part | State | What is hard | What must hold |
|---|---|---|---|
| SPSC ring (`sys/core` ring.rs) | head, tail, slots | no lock; indices wrap; slots start uninitialised | bounded FIFO, no race on a slot |
| Completion slab (completion.rs, waker.rs) | state word, id, result and waker per slot | stale threads meet the slot's next owner; wake against registration | one owner per cell, no lost wake |
| Address space (`sys/arch` va.rs, shootdown.rs; kernel space.rs, smp.rs) | hole lists with epochs, open round, TLBs | merging across epochs when slots run out; cores attach | no address reused while a core translates it |
| Executor (`sys/rt`) | task words, inboxes, ready queues, table, doorbell | wakes against polls and against the decision to halt | no wake lost, no task queued twice, every level served |
| Journal and tree (`storage/fs`) | two superblocks, COW arena, three log banks, open transaction | power loss at any device write, refused writes, reuse of blocks | mount finds one whole generation; reads return what was written |
| Block ring and volume (`storage/block`, fs volume.rs) | buffer slots, ring, barrier, device queue | answers in any order; buffers shared with the device | fresh buffers, flush alone, every call ends |
| Storage service (fs service.rs, restart.rs; shell; kernel init.rs) | capability table, ring, registry, session, supervisors | given-up lines, restarts of either side | handles end with their epoch, answers fit and match |
| IP, UDP, TCP (`stack`) | neighbour cache, parked sends and receives, sockets, shared scratch | refused answers to discovery, a busy link, errors after a request was taken out, restarts | every request answered once, buffers not rewritten under a reader |
| NVMe, virtio, IOMMU (`device`, `sys/arch`, kernel device.rs) | phase bit, descriptors, flights, bounce buffers, domains, interrupt line | late completion after a timeout, a command that fails but landed, interrupt against decision to wait | DMA confined, one owner per slot, no arrival missed |
| Domains (`platform` domain.rs, kernel domain.rs, `base/abi`) | admitted image, view, gateway registers, ABI ring, handles | interrupts in the middle of a switch, a ring the other side writes | kernel never half installed, calls confined, handles exact |
| Boot and paging (`platform` page tables, `sys/arch` leaf counts; page cache; `device/pci`) | tables, frame pool, runs of counts, cached windows, configuration space | two ports of one contract, partial failure of a grant, BAR sizing on live hardware | ports agree, tables private, counts exact, messages routed whole |

Drivers and services meet only on rings. A task parks on a completion slot; the
completion wakes it through its AtomicWaker, whose waker belongs to the
executor, which rings another core's doorbell when needed. The filesystem runs
its journal over a volume whose every block goes through the block ring to a
driver. The shell reaches the filesystem through a capability it leases from
the registry, and init's supervisors restart either side. A user program runs
in a domain: a view of the page tables, a channel page with an ABI ring, and a
gateway that switches between it and the kernel.

What has no protocol of its own stays with unit tests and fuzzing: firmware
tables, header codecs, trap assembly, host tools (`components` gives the reason
for each part).

## 2. Modules

| Modules | Model | Notes |
|---|---|---|
| `BoundedFifo` | what the ring promises | abstract |
| `SpscRing` | ring.rs | one step per shared access |
| `CompletionSlab` | completion.rs, waker.rs | one step per shared access |
| `Quarantine` | what the address space promises, page by page, with rounds and TLBs | abstract |
| `Arena` | the free list of va.rs | functions of one list |
| `AddressSpace`, `MCAddressSpace` | va.rs, shootdown.rs, the recycle sequence | implements `Quarantine` |
| `MetadataTree` | btree.rs, bitmap.rs | recursive operators over a block arena |
| `Journal` | journal.rs, log.rs, the mount of volume.rs | one step per call, sync split at its flushes; every prefix of a call's writes can be the last before a power cut |
| `BlockRing` | ring.rs, queue.rs of `storage/block`; slots of volume.rs | client, driver and device take turns |
| `Executor`, `MCExecutor` | exec.rs, task.rs, queue.rs; park and wake of the platforms | one step per shared access |
| `StorageService` | service.rs, restart.rs, capability.rs, registry.rs, cell.rs, session.rs, shell.rs, init.rs | both cells over one ring |
| `Capabilities`, `IpService`, `UdpService`, `TcpService` | capability.rs; service.rs of each layer, neighbor.rs | state functions of each service |
| `Network`, `MCNetwork` | a client over UDP over IP, over IP, or over TCP | composes the services, the link and restarts |
| `DeviceRings` | virtio queue.rs and request.rs; the NVMe queue pair | state functions of driver and device halves |
| `DeviceEngines` | nvme queue.rs, virtio block.rs and net.rs; the demands each driver makes when it brings its device up | the request engines over those rings, and which device reports are refused |
| `DmaSpace` | dma.rs, iommu.rs, virtio iommu.rs | arena, IOVA space, translations |
| `DeviceQueue` | what a block queue promises | abstract |
| `Devices`, `MCDevices` | kernel device.rs and the three drivers on one interrupt line | composes the above; implements `DeviceQueue` |
| `KernelDomain`, `Gateway` | image admission, the shell's handles and the `base/abi` ring pair; both ports' entry and exit | state functions |
| `Domains`, `MCDomains` | kernel domain.rs | load, enter, serve, judge, tear down |
| `PagingBase`, `RiscvPaging`, `X86Paging` | frame pool and tables, both ports | recursive walks |
| `ViewSpec` | what a view promises | abstract |
| `Paging` | both ports driven by the same calls | implements `ViewSpec` twice |
| `FileMap`, `PciBus` | leaf reference counts, page cache, PCI walk and message routing | |
| `KernelBoot`, `MCKernelBoot` | the order of boot | composes paging, counts, cache and bus |
| `Facts` | | least elements, induction and recursive functions, for proofs |
| `ArenaProofs` | | lemmas about the operators of `Arena`, for every list |
| `AddressSpaceProofs`, `BlockRingProofs`, `CompletionSlabProofs`, `ExecutorProofs`, `SpscRingProofs`, `StorageServiceProofs` | | theorems about the module they extend |

### What the models abstract

* Memory is sequentially consistent in `SpscRing`, `CompletionSlab` and
  `Executor`. The code's acquire/release pairs on each word are taken to do
  their job; orderings that only weak memory shows are outside.
* A data payload is what a property tells apart: a flipped bit per block
  (`BlockRing`), the number of the write (`Journal`, `DeviceEngines`), the id of
  the request (`CompletionSlab`), the tag of a datagram (`Network`).
* `SpscRing` wraps its indices at `Wrap`, a multiple of `N` (`WrapAssumption`).
  The code wraps at 2^64, a multiple of every power of two. Virtqueue indices
  wrap after `ROUNDS` rounds, ABI indices at `WRAP`, PCI registers at `WORD`.
* `Journal` keys and values are numbers and tuples; a record takes one unit.
  Checksums are a torn value that no check accepts. The node cache is left out:
  it holds what its blocks hold.
* `StorageService` carries two fields the code has not: the epoch that issued a
  handle, and whether an answer belongs to the request awaited now. Init
  restarts services between lines, and so does the model.
* `Executor` has one owning core. Its root future never completes.
* `IpService` takes a frame for what its parser makes of it; the TCP engine is
  an external crate, so the state of a stream moves freely at each poll.
* Pages of `Domains` hold two bytes and page tables have `Fanout` entries; an
  image is its headers, a register file is who last wrote it.
* Hardware (devices, IOMMU, PCI functions) is marked external in the map and
  does whatever its interface lets it do.

## 3. Runs

All passing runs are exhaustive for their bounds.

| Run | Bounds | States | What it shows |
|---|---|---|---|
| `spsc_ring` | 3 slots, wrap at 6, 2 values | 738 | FIFO by refinement; each slot written before read, never raced; through two wraps of the ring and one of the index |
| `address_space` | 2 cores, 3 granules, 2 hole slots, 4 epochs | 188,641 | no page lost or owned twice, neighbours coalesced, no stale translation, refinement of `Quarantine`; 2 slots force the cross-epoch merge |
| `completion_slab` | 2 tasks, completer, canceller, 1 slot, 2 requests | 249,587 | one owner per cell through reuse; a completion is never slept through |
| `journal` | 3 entries per node, 12 tree blocks, 3 banks of 2 or of 3, 2 files of 2 units, 3 mutations, 1 refused write | 196,073 | recovery, durability of both generations, contents; the tree is two levels deep, banks compact one extent or several, calls are rolled back in open transactions, blocks of older generations are reused |
| `journal_compaction` | banks of 4, files of 3 units, 5 mutations in one transaction | violation | see below |
| `executor` | 2 tasks on 2 levels, 2 threads, slices of 1 | 590,093 | task words, table, no wake slept through, both levels and the root served |
| `block_ring` | 3 blocks, 2 buffers, ring of 3, device of 2 | 391,360 | fresh buffers, no answer lost, flush alone, calls end |
| `storage_service` | 3 handles, ring of 2, 5 rounds, 2 restarts | 999,267 | answers fit, handles end with their epoch, mount live, nothing left open, own answers only |
| `network` | rings of 1 and 3, generations up to 2; 1 slot in every table, 2 requests and restarts; or 2 slots, and either 1 request with restarts or 2 requests | 252,099 | each request in exactly one place, scratch buffers intact, socket tables agree with two sockets alive, parked requests end |
| `devices` | 10 frames, depth 2, NVMe rings of 3, virtqueues of 8, network queues from 0 to 4, 2 wraps, 2 request generations, 2 arrivals counted; 2 virtio or 3 NVMe requests; any doorbells mapped | 159,776 | DMA confined, slots exact, no arrival missed by the waiting driver or by either polling client, both drivers implement `DeviceQueue`, every request answered |
| `domain` | ring of 2 wrapping at 8, pages of 2, 2 slots per kind, 4 filesystem handles; every single-field corruption of an image, 4 sizes of memory; 0, 1 or 2 tag bits on riscv, 0 or 2 on x86 | 207,360 | gateway, memory, handles, programs end; with one tag bit the second domain is given the first one's tag |
| `boot` | fanout 4, pool of 6, 2 views, 4 calls; 8 count pages in 3 runs; 2 files in 2 windows; 2 devices of 2 functions, one capability left enabled by firmware | 24,174 | the eight properties of the last rows of section 1, both ports implement `ViewSpec` |

Why the bounds are enough: each is the smallest at which every actor can meet
the slot, bank, descriptor or epoch another one used before. One completion slot
with two requests makes every stale thread meet the next owner; two hole slots
over three granules fill the list; a bank of two records compacts on the third;
a bank of three compacts more than one extent; two buffers make the clock hand
reach a block in flight; two sockets contend for two ports; a third NVMe request
takes the slot of one that timed out and comes back late; a pool of six frames
runs dry in the middle of a grant.

Deadlock is checked in `journal`, `executor`, `block_ring`, `network`,
`devices` and `domain`. The ring may be dropped, the bounded requests and epochs
of the slab and the address space run out, init returns when a restart fails or
the shell reports an error, and boot ends, so those runs may stop.

### Disagreements

`journal_compaction` is a run; the others are stated in the modules and are
reproduced by changing a configuration or a property as given. A passing
property that would cover one of them names the case and excludes nothing else.

* `journal_compaction`: journal.rs:570 says compaction copies the live extents.
  Inside an open transaction it walks a root whose blocks its own inserts
  release and reuse, and contents are lost.
* `Journal.cfg` with INVARIANT `ReadsBack`: journal.rs:782 says a failed mutation
  leaves the transaction as it was. The root put back names blocks the abandoned
  half, stopped by the device or by a full arena, had released and overwritten.
  The history variable `astray` holds "transaction" from then on, as it does
  after the compaction above.
* `Journal.cfg` without its CONSTRAINT, Refused = {0}, LogSizes = {3},
  MaxOps = 2, INVARIANT `RecoveryComplete`: journal.rs:372 says sync "publishes a
  new generation". A transaction whose only call was rolled back is still open;
  its generation names the old root, whose nodes carry the older generation, and
  verify (btree.rs:1014) refuses it at the next mount. The older copy still
  mounts, until the next sync writes over it: a power cut before that one is
  complete leaves nothing. `astray` holds "root" in between.
* `Journal` with SPECIFICATION `FaultySpec`, INVARIANT `RecoveryComplete`,
  TreeBlocks = 10, LogSizes = {3}, MaxOps = 2, Refused = {}: docs/fs.md:294 says
  a mount never returns a mixture. After a refused second flush the transaction
  goes on over blocks the superblock written before the flush already names.
* `CompletionSlab` with INVARIANT `CancelWakes`: completion.rs:199 says a
  cancelled slot is emptied "waking a parked task". The waker is taken before
  the slot is emptied; a poll that registers in between re-checks the old state
  and parks for good.
* `MCExecutor` with SPECIFICATION `WfiSpec`, Halt = "wfi", INVARIANT
  `NoWakeSleptThrough`: riscv lib.rs:308 says a wake is not slept through. An
  interrupt taken between enabling interrupts and `wfi` is. The x86 port halts
  atomically, which is what `executor` checks.
* `RequestsKept` without its exception: a raw IP client's receive into a region
  outside its buffer is parked unseen; when its packet comes, `deliver` has taken
  it out before the lookup fails, and the error goes to the driver of the link
  (net service.rs:479). The client is never answered.
* `WaitsEnd` without `ip.missed`: docs/net.md:117 says the reply to a neighbour
  request retries the parked send. The request is sent once (service.rs:328). A
  reply that arrives while a completion is held back is refused (service.rs:232),
  dropped by the kernel's loop, and the send of a raw IP client stays parked. The
  kernel's UDP is not exposed: its lower ring has room for its three requests,
  and `ScratchIntact` includes that nothing is held back there.
* `GatewayConfined` without `Unflushed`: asid.rs marks the flush a tag demands
  "what keeps the domains apart". The kernel drops it (kernel domain.rs:294 and
  428), and the riscv port flushes on entry only when it has no tags at all
  (riscv domain.rs:268). With one tag bit the shell gets hello's tag and may
  translate through what hello left. With more bits the two programs of the tree
  never meet a tag again, and the x86 port has none or twelve.
* `MessagesWhole` without `Rewriting`: route_msi writes address and data without
  disabling the capability first (msi.rs:175). When firmware left MSI enabled on
  a bus master, a signal in between carries half of each message. The MSI-X path
  masks its entry, after bus mastering was turned off. Nothing turns off the
  capability a driver does not use.

The passing `journal` run has refused calls, rollbacks and compactions of several
extents. What it leaves out is what a publication makes of the cases above
(`Intact` ends a behaviour there) and failing device calls of sync itself
(`FaultySpec`).

Smaller remarks met while modelling, none of which breaks a stated property:
the TCP client's look takes the arrivals and compares their number with the last
(kernel network.rs:278), so a look that finds as many as the one before does not
drain; the frame waits for a look with another number, at the latest for the idle
poll. An NVMe doorbell outside the mapped window fails after its index moved
(nvme queue.rs:80 and 107): a command that was never announced, or was carried
out, is answered with a device error and keeps its slot, which `DeviceQueue`
allows once the queue is `deaf`.
A refused TCP connect keeps its stream until it closes (tcp service.rs:291);
virtio net.rs:290 resets its arena before a failed unmap is reported, where
arch iommu.rs:84 asks for the reverse; nvme queue.rs:257 spins while every slot
is held by a command that timed out; dropping a `Request` makes the next wait
report a wrong completion (runtime lib.rs:159); a hit on a cached window whose
last holder left panics (filemap.rs:116); a routed line stays bound when the BAR
is refused (kernel pci.rs:226), and a function with MSI-X only is not handled
(pci.rs:212); msi.rs:13 says enabling either capability disables INTx, which
`MsiX::enable` leaves to its caller.

### Fairness

* `CompletionSlab`: a thread inside an operation goes on (weak fairness per
  thread); nobody has to start one. `ReadyWakes` speaks of behaviours without a
  bulk cancellation, since `CancelWakes` shows what that does.
* `Executor`: the core keeps executing, a sent interrupt is taken, a thread
  inside a wake finishes it. Stated as states visited infinitely often, which
  is weak fairness of those steps and cheaper to check. Nothing obliges a
  device, a timer or a spawner. The root's half of `Served` further assumes that
  the loop comes back to its root: run_until_idle gives no bound when a task
  wakes itself.
* `BlockRing`: the thread in `drive` keeps running (weak fairness); a device
  finishes each request it holds and accepts one it is offered again and again
  (strong fairness). The drivers' timeouts and queues justify it.
* `Network`: the client takes its answers and TCP is served (weak fairness, the
  loop in init does both); the link is not busy every time it is tried, and a
  neighbour that was asked answers once (strong fairness). A request for a
  neighbour goes out once, and so does its answer; a refused one is `ip.missed`.
  Without the neighbour's fairness a send to an absent station waits for ever,
  as it does in the code.
* `Devices`: the driver's call runs on, its deadline passes, and a client that
  is owed an answer reaps; the network's clients, which are loops, look again
  and again, and a message sent to the core arrives. The device owes nothing.
* `Domains`: the machine keeps executing (weak fairness of Next). A domain that
  writes its ring by hand does so `BUDGET` times, and `ProgramsEnd` is about the
  programs of the tree only.

## 4. Proofs

Every theorem holds for all values of the constants that satisfy the named
assumptions. Each is an inductive invariant (initially true, kept by every
step), or follows from one; the constants, sets of threads and pages included,
are not bounded.

**Address quarantine** (`AddressSpaceProofs`, of the instance `Q` of
`Quarantine`). Assumptions: none on pages or cores. `NoStaleTranslation` is not
inductive: a step that hands a free page out keeps it only if no core translates
the page any more, and that is true because the page waited for a round.
`Q!IInv` adds the missing half: `CachedWaits`, a core that may translate a free
page has not flushed since the page was swept and the page waits on a round that
core still owes, and `Nesting`, the order of the retired, open and swept epochs.
`Quarantined` is this invariant.

**Address space** (`ArenaProofs`, `AddressSpaceProofs`). Assumptions:
`ArenaSizes`, `BootCore`, `EpochBound`. The free lists implement `Quarantine`
(`Implements`), for every arena, every number of hole slots and every number of
cores, and so inherit its safety (`Safe`) and the action property that a page is
handed out clean and the retired epoch only grows (`CleanHandOut`); and they are
exact (`Exact`).

* `ArenaProofs` is about one list. `Waits(hs, a, q)` says that address a is free
  and waits for epoch q. Every change to a list but the removal of a hole is a
  `Splice`: one hole in the place of the holes between two others. `SpliceOrdered`,
  `SpliceWaits` and `SpliceApart` say once what that keeps. `CarveKeeps`,
  `ReturnKeeps` and the lemmas on `Settle` then say, address by address, what
  allocate, release and retire do: a released range waits for the open epoch,
  and an address merged into it waits for the same epoch as before or for the
  open one, never for less.
* `IInv` is `Sound` and `Rounds`. `Sound`: lists are ordered, within their slots
  and have no neighbours that could be one, no stamp is later than the open
  epoch, extents are disjoint, and every address is in a list or in an extent and
  never in both. `HolesExact` alone is not inductive, because a release is exact
  only if what it returns was nowhere on the list.
* The refinement maps a list to the stamp of each page. A merge when no slot is
  left may raise the stamps of other pages, which `Quarantine` allows, and must
  not lower one.

**SPSC ring** (`SpscRingProofs`). Assumptions: `RingSize`, a ring has a slot;
`WrapAssumption`, the wrap is a multiple of the ring size; `UninitIsNoValue`. `Occupancy` says that
the distance from head to tail stays within N and that an endpoint past its
check still has what it checked for: the other endpoint can only have made more
room or more entries. `SameSlotApart` turns it into `RaceFree`: two indices less
than N apart never name one slot, before or after the wrap. `SlotsInitialised`
adds which slots hold a value, and `FifoRefinement` maps every step to a step
of `BoundedFifo` or to none.

**Completion slab** (`CompletionSlabProofs`). Assumptions: `SlabSize`, `Roles`
(a thread is a task, a completer or a canceller, not two of them). `IInv` is
`TypeOK`, `ThreadsOK` (a thread is where its role can be) and `Locking`: a
locked state word has exactly one holder, a waker cell at most one user, and
every thread finds in its slot what it left there. `StepKeepsLocking` proves
`Locking` once, for any step that leaves the word alone, acquires, releases or
keeps it, and leaves the waker cell alone, enters or leaves it; each step is then shown to be one of these kinds. `Serialized` follows.

**Executor** (`ExecutorProofs`). Assumption: `Sized` (levels, slices, capacity,
priorities). The invariant is the conjunction of four parts, proved one after
the other.

* `Typed` and `Watch`. `Watch` says, for each place of the
  owner on its way to the halt, that a wake it did not see when it looked has
  rung the doorbell or has a thread about to; after the halt, that the
  interrupt is pending or about to be sent. `Awake` follows. It is about `Spec`,
  where the halt enables interrupts and stops in one step; with `Halt = "wfi"`
  the gap of section 3 is a behaviour of `WfiSpec` and not of `Spec`.
* `Queues`. `Once(t)`: at most one place, among the
  inboxes, the ready queues and the threads about to push, holds t, and one
  does exactly when t's word says SCHEDULED. `Word(t)`: what the other bits say
  of the future, the poll and the table. `OnLevel` and `Born`: a task is queued
  at its own level, and only a spawned one is woken.
* `Table`, the table and the slots its tasks remember are
  inverse to each other and `live` is the number of futures not retired, and
  `Credited`. `Invariance` is the conjunction, `Exact` what it says of
  `TasksExact`. Collecting the inbox is the delicate step: what it appends to
  the table is the new members of a list, each once (`UnheldExact`), and there
  is room because the table holds only live tasks (`HeldLive`, `Fits`).

**Storage service** (`StorageServiceProofs`). Assumptions: `Sized` (two handles,
a ring and a round at least), `Nothing` (`None` is no string, handle or request).
`HandlesLive` and `AnswersMatched` hold for every table, ring, round budget and
deadline (`Live`, `Matched`). Neither is inductive: that a command leaves nothing
open depends on where its one request is. `IInv` adds that.

* `Typed` holds the reason why answers fit: requests and answers on the ring are
  together no more than it takes, since a poll that sends takes an answer off
  first if there is one.
* `Mounted` and `Queued`: the published root, every request on the ring and what
  an answer opened are of the service's present epoch; a handle once given to
  the shell names the shell's own object or, its slot emptied since, nothing
  (`Issued`). `Carries` says that no operation of the filesystem loses this.
* `Asking`: what a command in progress is about to send is about the handle it is
  at, the root or one it opened; outside of a line the session is empty.
* `Tidy`: as long as no line was given up, the request is in hand, on the ring or
  answered, alone (`InHand`, `Sent`, `Back`), and the shell has open exactly what
  the command will learn of.

Serving a batch is the delicate step. The batch is a recursive function, so what
it keeps is stated of one state of it (`Through`) and carried over the whole
batch by `Iterates` and `Induction`.

**Block ring** (`BlockRingProofs`). Assumptions: `Geometry` (a volume has fewer
slots than the ring has entries), `Nothing` (`None` is no id, request or answer).
A buffer that is not lent or in flight holds what the device would answer
(`NeverStale`), and every request awaited is in one place (`Ordered`), for any
blocks, slots, ring and queue depth. `IInv` is what makes both inductive.

* `Spread`: what the volume waits for, the reads in flight and the request a call
  settles, is in exactly one of six places, once: submission queue, held back by
  the driver, at the device, pending at the driver, completion queue, set aside
  by `take`. `Hops` and `Sifts` say what each move does to the six. That the next
  id is new (`NewId`) and that the answers set aside fit their array (`ParkedFit`)
  are counted from it.
* `Asks` and `Tells`: a request asks for what its slot is waiting for, and an
  answer under way is still what the device would answer. A write must not make
  one false, which is why `write` first gives up or waits for the slots of its
  block (`Swept`).
* `Alone`: a flush at the device is there by itself.

Taking an answer is the delicate step: `take` sets aside every answer before the
one it wants (`Taking`, `LandTakes`).

**Facts.** The library's induction theorems take an operator, which the provers
cannot instantiate. `LeastElement` (a set of naturals has a least element) is
derived from the well-foundedness of `<`; `Induction` and `Iterates` (a function
defined by recursion over 0..n has the values its equation gives) follow from it
and take sets and functions only.

### Only model-checked

* Liveness: `ReadyWakes`, `Served`, `OperationEnds`, `WaitsEnd`,
  `AnsweredEventually`, `ProgramsEnd`. The proof system has no rules for
  fairness.
* `Journal`, `MetadataTree`, `Network`, `Domains`, `Devices`, `KernelBoot`: they
  compute trees, tables and parsers with recursive operators, which the provers
  do not take.
* The refinements `ImplementsQueue` and `ImplementsView`.

## 5. What is not modelled

* core executor.rs (single-core, replaced by `sys/rt`), locks, peers and the
  audit ring: short, and used only inside steps that are atomic here.
* The heap's free lists and the timer wheel's cascade: sequential algorithms
  with their own exhaustive tests; the executor's timers are a choice of what
  expires.
* Bytes: header codecs, checksums, firmware tables, assembly of traps and of the
  start of other cores, host tools.
* Where the drivers' DMA frames come from: each arena resumes an allocator from
  a copy of the platform's cursor (kernel virtio.rs:30 and 74), so a later
  `claim_ram` (filemap.rs:64) starts at the same frames. `Devices` has frames of
  its own and `Paging` claims from the one cursor; no property spans the two.
* Three interleavings outside the models: a core attaching between the two
  readings of the peer set (kernel smp.rs:254), two owners racing for one
  interrupt line (core interrupt.rs:166), an executor dropped while wakers for
  its tasks are still out.
