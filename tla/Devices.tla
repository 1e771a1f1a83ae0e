------------------------------ MODULE Devices -------------------------------
(***************************************************************************)
(* The kernel's three DMA devices, brought up and torn down one after the  *)
(* other as kernel virtio.rs, nvme.rs and network.rs do, each behind the   *)
(* IOMMU and on the same interrupt line. A device is routed, its endpoint  *)
(* attached, its regions mapped, and only then made bus master; it is      *)
(* stopped before the first of its regions comes back. While it runs, the  *)
(* driver, the device, the interrupt and the timer interleave freely.      *)
(*                                                                         *)
(* An `expect` that fails halts the kernel, and what its devices do then   *)
(* is not followed. What the hardware may answer is a choice: a command    *)
(* can be refused, a request can fail, be late, or never come back.        *)
(***************************************************************************)
EXTENDS DeviceEngines

CONSTANTS Ports,         \* the devices, in the order the kernel meets them
          Frames,        \* frames of a device's arena
          InputRanges,   \* the input pages an IOMMU may report
          DomainRanges,  \* and the domain numbers
          Ops, Direct,   \* the operations a client queues, and those it waits for
          MaxRequests,   \* requests a device is asked for before it is stopped
          MaxUnseen      \* interrupts counted for a network client before it looks

VARIABLES life,   \* which device, how far it has come, the queue sizes agreed on, its client
          dma,    \* the IOMMU, the arena, the driver's mappings, a fault seen
          hw,     \* bus mastering, DMA translated, the device running, MSI-X, a message on its way
          line,   \* core InterruptSlab, one line and its arrivals not yet taken
          cpu,    \* the driver's call in progress
          drv,    \* the driver
          medium, sent, answer

vars == <<life, dma, hw, line, cpu, drv, medium, sent, answer>>

Unanswered == [none |-> TRUE]

NoDriver == [port |-> "none"]

Idle == [pc |-> "idle", late |-> FALSE, call |-> "none", op |-> No]

Port == Ports[life.port]

READ == {"r"}
WRITE == {"w"}

\* The regions a driver maps, in its order.
Footprint(port) ==
  LET region(n, perm) == [n |-> n, perm |-> perm]
      queue == <<region(1, READ), region(1, READ), region(1, READ \cup WRITE)>>
      pair == <<region(1, READ), region(1, WRITE)>>
  IN CASE port = "virtio" -> queue \o <<region(1, READ \cup WRITE), region(DEPTH, READ \cup WRITE)>>
       [] port = "nvme" -> pair \o <<region(1, WRITE)>> \o pair \o <<region(DEPTH, READ \cup WRITE)>>
       [] port = "net" -> queue \o <<region(life.queue[1], WRITE)>>
                            \o queue \o <<region(life.queue[2], READ)>>

NoDma == [iommu |-> NewIommu({}, {}), arena |-> Over(Frames), maps |-> <<>>, fault |-> FALSE]

\* The network's clients: the UDP round trips, then the TCP echo, which remembers
\* how many arrivals it took last and whether it has submitted since.
NoClient == [name |-> "udp", seen |-> 0, submitted |-> FALSE]

Init ==
  /\ life = [port |-> 1, stage |-> "route", step |-> 1, queue |-> <<>>, client |-> NoClient]
  /\ dma = NoDma
  /\ hw = [control |-> FALSE, bm |-> FALSE, platform |-> FALSE, running |-> FALSE, vec |-> FALSE, msi |-> FALSE]
  /\ line = [bound |-> FALSE, unseen |-> 0, waker |-> FALSE]
  /\ cpu = Idle /\ drv = NoDriver
  /\ medium = 0 /\ sent = 0 /\ answer = Unanswered

Goes(stage) == life' = [life EXCEPT !.stage = stage, !.step = 1]

Steps == life' = [life EXCEPT !.step = @ + 1]

At(stage) == life.stage = stage /\ cpu.pc = "idle"

Driving == <<line, cpu, drv, medium, sent, answer>>

(* ----------------------------- bringing it up --------------------------- *)

\* isolation::Control::open, device::quiesce and device::route: the line is
\* bound, level with what arrived before, and then the vector is unmasked.
Route ==
  /\ At("route") /\ ~line.bound
  /\ hw' = [hw EXCEPT !.control = TRUE, !.bm = FALSE, !.vec = TRUE]
  /\ line' = [line EXCEPT !.bound = TRUE, !.unseen = 0]
  /\ Goes("attach") /\ UNCHANGED <<dma, cpu, drv, medium, sent, answer>>

Commanded(done, stage) ==
  dma' = [dma EXCEPT !.iommu = done.iommu] /\ Goes(IF done.ok THEN stage ELSE "halted")

\* Control::start, with a fresh arena and controller.
AttachEndpoint(reply) ==
  /\ At("attach")
  /\ \E r \in IommuReports, range \in InputRanges, domains \in DomainRanges :
       IF ~IommuFits(r, range, domains) THEN Goes("halted") /\ UNCHANGED dma
       ELSE Commanded(Attach(NewIommu(Granted(range), domains), Port, reply),
                      IF Port = "virtio" THEN "order" ELSE "handshake")
  /\ UNCHANGED <<hw, Driving>>

\* isolation::ordered: the witness takes its domain between the endpoint's two.
Order(reply) ==
  /\ At("order")
  /\ LET u == dma.iommu
         next == CASE life.step = 1 -> Detach(u, Port, reply)
                   [] life.step = 2 -> Attach(u, "witness", reply)
                   [] life.step = 3 -> Attach(u, Port, reply)
                   [] life.step = 4 -> Detach(u, "witness", reply)
     IN IF next.ok /\ life.step < 4 THEN dma' = [dma EXCEPT !.iommu = next.iommu] /\ Steps
        ELSE Commanded(next, "handshake")
  /\ UNCHANGED <<hw, Driving>>

\* The device agrees on its features and its queues, or is not fit for the driver.
Agreed(fits, sizes, platform) ==
  /\ At("handshake")
  /\ life' = IF fits THEN [life EXCEPT !.stage = "map", !.step = 1, !.queue = sizes]
             ELSE [life EXCEPT !.stage = "halted", !.step = 1]
  /\ hw' = [hw EXCEPT !.platform = platform]
  /\ UNCHANGED <<dma, Driving>>

BlockHandshake ==
  Port = "virtio" /\ \E r \in BlockReports :
    Agreed(BlockFits(r), <<clamp_queue(r.queue, VQ_SIZE)>>, "PLATFORM" \in BlockFeatures(r))

NetHandshake ==
  Port = "net" /\ \E r \in NetReports, queues \in {1, 2} :
    Agreed(NetFits(r, queues), NetSizes(r), "PLATFORM" \in NetFeatures(r))

\* An NVMe controller is always behind the IOMMU.
NvmeHandshake ==
  Port = "nvme" /\ \E r \in NvmeReports : Agreed(NvmeFits(r), <<>>, TRUE)

\* One region, claimed from the arena and mapped; refused, its frames stay claimed.
MapNext(reply) ==
  /\ At("map")
  /\ LET want == Footprint(Port)[life.step]
         frames == Vacant(dma.arena, want.n)
         claimed == Claim(dma.arena, frames, Port)
         result == Map(dma.iommu, Port, frames, want.perm, reply)
     IN IF frames = {} THEN Goes("halted") /\ UNCHANGED dma
        ELSE IF ~result.ok
          THEN Goes("halted") /\ dma' = [dma EXCEPT !.arena = claimed, !.iommu = result.iommu]
        ELSE /\ dma' = [dma EXCEPT !.arena = claimed, !.iommu = result.iommu,
                                   !.maps = Append(@, result.mapping)]
             /\ IF life.step = Len(Footprint(Port)) THEN Goes("enable") ELSE Steps
  /\ UNCHANGED <<hw, Driving>>

\* The queues are programmed, their vectors read back, and a VirtIO device runs
\* once DRIVER_OK is set, before it is bus master; the NVMe controller is made
\* bus master first, and then has to become ready.
Enable(ok) ==
  /\ At("enable")
  /\ IF ~ok THEN Goes("halted") /\ UNCHANGED <<hw, drv>>
     ELSE /\ Goes(IF Port = "nvme" THEN "admin" ELSE "run")
          /\ hw' = [hw EXCEPT !.running = TRUE, !.bm = TRUE]
          /\ CASE Port = "nvme" -> drv' = [port |-> "admin", ring |-> NewRing(ADMIN_ENTRIES), cid |-> 0]
               [] Port = "net" -> drv' = NewNet(life.queue)
               [] OTHER -> \E doorbells \in Windows(Port) : drv' = NewBlock(Port, life.queue[1], doorbells)
  /\ UNCHANGED <<dma, line, cpu, medium, sent, answer>>

(* ------------------- waiting for the device's interrupt ----------------- *)

\* pci::wait polls the line's future under a deadline: look, register, look again.
Look ==
  /\ cpu.pc = "look"
  /\ IF line.unseen # 0
       THEN line' = [line EXCEPT !.unseen = 0] /\ cpu' = [cpu EXCEPT !.pc = "scan", !.late = FALSE]
       ELSE cpu' = [cpu EXCEPT !.pc = "register"] /\ UNCHANGED line
  /\ UNCHANGED <<life, dma, hw, drv, medium, sent, answer>>

Register ==
  /\ cpu.pc = "register"
  /\ line' = [line EXCEPT !.waker = TRUE] /\ cpu' = [cpu EXCEPT !.pc = "recheck"]
  /\ UNCHANGED <<life, dma, hw, drv, medium, sent, answer>>

\* The waker is left to wake the call, and the line is not looked at again.
SleepAtOnce ==
  /\ cpu' = [cpu EXCEPT !.pc = IF cpu.late THEN "scan" ELSE "parked"]
  /\ UNCHANGED line

LookAgain ==
  IF line.unseen # 0
    THEN line' = [line EXCEPT !.unseen = 0] /\ cpu' = [cpu EXCEPT !.pc = "scan", !.late = FALSE]
    ELSE cpu' = [cpu EXCEPT !.pc = IF cpu.late THEN "scan" ELSE "parked"] /\ UNCHANGED line

Recheck ==
  /\ cpu.pc = "recheck" /\ LookAgain
  /\ UNCHANGED <<life, dma, hw, drv, medium, sent, answer>>

\* The interrupt: raise counts the arrival and fires the waker. Only a network
\* client is told how many there were.
Counted == IF Port = "net" THEN line.unseen + 1 ELSE 1

Raise ==
  /\ Port = "net" => line.unseen < MaxUnseen
  /\ life.stage # "halted" /\ hw.msi /\ hw' = [hw EXCEPT !.msi = FALSE]
  /\ line' = [line EXCEPT !.unseen = Counted, !.waker = FALSE]
  /\ cpu' = IF line.waker /\ cpu.pc = "parked" THEN [cpu EXCEPT !.pc = "look"] ELSE cpu
  /\ UNCHANGED <<life, dma, drv, medium, sent, answer>>

\* The deadline passes, and the future is polled once more.
Expire ==
  /\ cpu.pc = "parked"
  /\ cpu' = [cpu EXCEPT !.pc = "look", !.late = TRUE]
  /\ UNCHANGED <<life, dma, hw, line, drv, medium, sent, answer>>

(* --------------------------- the admin commands ------------------------- *)

Commands == <<"identify", "identify", "features", "create", "create">>

\* Admin::submit writes the next command and rings the doorbell.
AdminSubmit ==
  /\ At("admin")
  /\ drv' = [drv EXCEPT !.cid = @ + 1,
                        !.ring = Submit(@, [cid |-> drv.cid, kind |-> Commands[life.step], sector |-> 0])]
  /\ cpu' = [cpu EXCEPT !.pc = "scan", !.call = "admin"]
  /\ UNCHANGED <<life, dma, hw, line, medium, sent, answer>>

\* ...and takes the one completion there can be. What an identify page says
\* may not do either.
AdminScan(fit) ==
  /\ cpu.pc = "scan" /\ cpu.call = "admin"
  /\ IF Completed(drv.ring)
       THEN LET entry == Completion(drv.ring)
                good == entry.cid = drv.cid - 1 /\ entry.ok /\ fit
            IN /\ cpu' = Idle
               /\ IF ~good THEN Goes("halted") /\ drv' = [drv EXCEPT !.ring = Advance(@)]
                  ELSE IF life.step = Len(Commands)
                    THEN Goes("run") /\ \E doorbells \in Windows("nvme") : drv' = NewBlock("nvme", 0, doorbells)
                  ELSE Steps /\ drv' = [drv EXCEPT !.ring = Advance(@)]
     ELSE IF cpu.late THEN Goes("halted") /\ cpu' = Idle /\ UNCHANGED drv
     ELSE cpu' = [cpu EXCEPT !.pc = "look"] /\ UNCHANGED <<life, drv>>
  /\ UNCHANGED <<dma, hw, line, medium, sent, answer>>

(* --------------------------- the block drivers -------------------------- *)

Blocking == At("run") /\ Port # "net"

\* Queue::start.
Start(op) ==
  /\ Blocking /\ op \in Ops[Port] /\ sent < MaxRequests[Port] /\ Accepts(drv, op)
  /\ drv' = Started(drv, sent + 1, op) /\ sent' = sent + 1 /\ answer' = Unanswered
  /\ UNCHANGED <<life, dma, hw, line, cpu, medium>>

\* Queue::reap.
CallReap ==
  /\ Blocking /\ cpu' = [cpu EXCEPT !.pc = "scan", !.call = "reap"]
  /\ answer' = Unanswered /\ UNCHANGED <<life, dma, hw, line, drv, medium, sent>>

IsBlock == drv.port \in {"virtio", "nvme"}

Unsettled(d) == Live(d) # {} \/ \E s \in Slots(d) : d.ready[s] # No

\* Device::read, write and flush, which nothing else is in flight beside.
CallExecute(op) ==
  /\ Blocking /\ op \in Direct[Port] /\ sent < MaxRequests[Port] /\ ~Unsettled(drv)
  /\ sent' = sent + 1 /\ cpu' = [cpu EXCEPT !.pc = "begin", !.call = "execute", !.op = op]
  /\ answer' = Unanswered /\ UNCHANGED <<life, dma, hw, line, drv, medium>>

\* Refused, the operation is offered again after every reap that finds nothing.
Begin ==
  /\ cpu.pc = "begin"
  /\ drv' = IF Accepts(drv, cpu.op) THEN Started(drv, sent, cpu.op) ELSE drv
  /\ cpu' = [cpu EXCEPT !.pc = "scan", !.op = IF Accepts(drv, cpu.op) THEN No ELSE @]
  /\ UNCHANGED <<life, dma, hw, line, medium, sent, answer>>

Scanned(result) ==
  /\ drv' = result.drv
  /\ answer' = IF result.answer = No THEN answer ELSE result.answer
  /\ cpu' = CASE result.out = "wait" -> [cpu EXCEPT !.pc = "look"]
              [] result.out = "again" -> cpu
              [] result.answer = No /\ cpu.call = "execute" -> 
                   [cpu EXCEPT !.pc = IF cpu.op = No THEN "scan" ELSE "begin", !.late = FALSE]
              [] OTHER -> Idle

\* One turn of the loop in Engine::reap.
Reap ==
  /\ cpu.pc = "scan" /\ cpu.call # "admin"
  /\ \E result \in {Scan(drv, cpu.late)} : Scanned(result)
  /\ UNCHANGED <<life, dma, hw, line, medium, sent>>

(* -------------------------- the network driver -------------------------- *)

Networking == life.stage = "run" /\ Port = "net"

Client(name) == Networking /\ cpu.pc = "idle" /\ life.client.name = name

Taken == [line EXCEPT !.unseen = 0]

Drains == cpu' = [cpu EXCEPT !.pc = "drain"]

\* udp_round_trip takes the arrivals, and drains the queue unless there were none.
Poll ==
  /\ Client("udp") /\ line.unseen # 0
  /\ line' = Taken /\ Drains
  /\ UNCHANGED <<life, dma, hw, drv, medium, sent, answer>>

\* tcp_echo begins, with a request submitted and the arrivals so far taken.
HandOver ==
  /\ Client("udp")
  /\ life' = [life EXCEPT !.client = [name |-> "tcp", seen |-> line.unseen, submitted |-> TRUE]]
  /\ line' = Taken /\ UNCHANGED <<dma, hw, cpu, drv, medium, sent, answer>>

\* The look of tcp_echo goes by when the count it takes is the one it took last,
\* unless a request was submitted since or an idle poll is due.
Level(client, arrivals) == ~client.submitted /\ arrivals = client.seen

PollStream(idle) ==
  /\ Client("tcp") /\ line' = Taken
  /\ IF Level(life.client, line.unseen) /\ ~idle THEN UNCHANGED <<life, cpu>>
     ELSE life' = [life EXCEPT !.client = [@ EXCEPT !.seen = line.unseen, !.submitted = FALSE]] /\ Drains
  /\ UNCHANGED <<dma, hw, drv, medium, sent, answer>>

\* A frame is received; after the last, what completed may let the TCP client
\* submit its next request.
ReceiveOne ==
  /\ Networking /\ cpu.pc = "drain"
  /\ IF Returned(drv.rx.queue) THEN drv' = ReceiveFrame(drv) /\ UNCHANGED <<life, cpu>>
     ELSE /\ cpu' = Idle /\ UNCHANGED drv
          /\ \E submitted \in {FALSE, life.client.name = "tcp"} :
               life' = [life EXCEPT !.client.submitted = submitted]
  /\ UNCHANGED <<dma, hw, line, medium, sent, answer>>

Transmit ==
  /\ Networking /\ drv' = Stage(drv)
  /\ UNCHANGED <<life, dma, hw, line, cpu, medium, sent, answer>>

(* ------------------------------ the devices ----------------------------- *)

\* What the device reaches through the IOMMU, as <<mapping, access>>.
Reached(touched) ==
  dma' = [dma EXCEPT !.fault = @ \/ ~hw.platform \/ \E t \in touched :
            ~Reaches(dma.iommu, Port, dma.maps[t[1]], t[2])]

Payload(at, kind) ==
  CASE kind = "Read" -> {<<at, WRITE>>} [] kind = "Write" -> {<<at, READ>>} [] OTHER -> {}

Powered == life.stage # "halted" /\ hw.running /\ hw.bm /\ drv.port # "none"

Signals == hw' = [hw EXCEPT !.msi = @ \/ hw.vec]

TakeBlock ==
  /\ Powered /\ drv.port \in {"virtio", "nvme"} /\ MayTakeOne(drv)
  /\ drv' = Takes(drv)
  /\ Reached(IF drv.port = "nvme" THEN {<<4, READ>>} ELSE {<<1, READ>>, <<2, READ>>, <<4, READ>>})
  /\ UNCHANGED <<life, hw, line, cpu, medium, sent, answer>>

ServeBlock(ok) ==
  /\ Powered /\ drv.port \in {"virtio", "nvme"} /\ MayAnswerIt(drv)
  /\ \E c \in Held(drv) :
       /\ drv' = Served(drv, c, ok, medium) /\ medium' = Wrote(drv, c, ok, medium)
       /\ Reached(IF drv.port = "nvme" THEN {<<5, WRITE>>} \cup Payload(6, KindOf(drv, c))
                  ELSE {<<3, WRITE>>, <<4, WRITE>>} \cup Payload(5, KindOf(drv, c)))
  /\ Signals /\ UNCHANGED <<life, line, cpu, sent, answer>>

TakeAdmin ==
  /\ Powered /\ drv.port = "admin" /\ MayFetch(drv.ring)
  /\ drv' = [drv EXCEPT !.ring = Fetch(@)] /\ Reached({<<1, READ>>})
  /\ UNCHANGED <<life, hw, line, cpu, medium, sent, answer>>

ServeAdmin(ok) ==
  /\ Powered /\ drv.port = "admin" /\ MayAnswer(drv.ring)
  /\ \E c \in drv.ring.held :
       /\ drv' = [drv EXCEPT !.ring = Answer(@, c, ok)]
       /\ Reached({<<2, WRITE>>} \cup IF c.kind = "identify" THEN {<<3, WRITE>>} ELSE {})
  /\ Signals /\ UNCHANGED <<life, line, cpu, medium, sent, answer>>

TakeFrame(half) ==
  /\ Powered /\ drv.port = "net" /\ MayTake(drv[half].queue)
  /\ drv' = [drv EXCEPT ![half].queue = Take(@)]
  /\ Reached(IF half = "rx" THEN {<<1, READ>>, <<2, READ>>}
             ELSE {<<5, READ>>, <<6, READ>>, <<8, READ>>})
  /\ UNCHANGED <<life, hw, line, cpu, medium, sent, answer>>

ReturnFrame(half) ==
  /\ Powered /\ drv.port = "net"
  /\ \E head \in drv[half].queue.held : drv' = [drv EXCEPT ![half].queue = GiveBack(@, head, 1)]
  /\ Reached(IF half = "rx" THEN {<<3, WRITE>>, <<4, WRITE>>} ELSE {<<7, WRITE>>})
  /\ Signals /\ UNCHANGED <<life, line, cpu, medium, sent, answer>>

(* ---------------------------- tearing it down --------------------------- *)

\* reset: the device stops, or the driver gives up before touching a mapping.
\* Either way the driver is consumed.
Reset(ok) ==
  /\ At("run")
  /\ IF ok THEN Goes("unmap") /\ hw' = [hw EXCEPT !.running = FALSE]
     ELSE Goes("halted") /\ UNCHANGED hw
  /\ drv' = NoDriver /\ medium' = 0 /\ sent' = 0 /\ answer' = Unanswered
  /\ UNCHANGED <<dma, line, cpu>>

\* Each mapping is removed and its frames released; a mapping that cannot be
\* removed halts the kernel, the network driver having emptied its arena.
UnmapNext(reply) ==
  /\ At("unmap")
  /\ LET mapping == dma.maps[life.step]
         done == Unmap(dma.iommu, mapping, reply)
     IN IF ~done.ok
          THEN /\ Goes("halted")
               /\ dma' = [dma EXCEPT !.iommu = done.iommu,
                                     !.arena = IF Port = "net" THEN Evict(@, Port) ELSE @]
        ELSE /\ dma' = [dma EXCEPT !.iommu = done.iommu, !.arena = Release(@, mapping.frames)]
             /\ IF life.step = Len(dma.maps) THEN Goes("stop") ELSE Steps
  /\ UNCHANGED <<hw, Driving>>

\* The arena is emptied, bus mastering goes, and Control::stop detaches the
\* endpoint and resets the controller.
StopControl(reply) ==
  /\ At("stop")
  /\ LET arena == Evict(dma.arena, Port)
         done == Detach(dma.iommu, Port, reply)
     IN IF ~dma.fault /\ done.ok /\ MayReset(done.iommu)
          THEN /\ hw' = [hw EXCEPT !.bm = FALSE, !.control = FALSE, !.platform = FALSE]
               /\ Goes("unbind") /\ dma' = NoDma
        ELSE /\ hw' = [hw EXCEPT !.bm = FALSE] /\ Goes("halted")
             /\ dma' = [dma EXCEPT !.arena = arena,
                                   !.iommu = IF dma.fault THEN @ ELSE done.iommu]
  /\ UNCHANGED Driving

\* Vectored::stop: the vector is masked, then the line given up.
Unbind ==
  /\ At("unbind")
  /\ hw' = [hw EXCEPT !.vec = FALSE]
  /\ line' = [line EXCEPT !.bound = FALSE, !.waker = FALSE]
  /\ life' = IF life.port = Len(Ports) THEN [life EXCEPT !.stage = "done", !.step = 1]
             ELSE [port |-> life.port + 1, stage |-> "route", step |-> 1, queue |-> <<>>, client |-> NoClient]
  /\ UNCHANGED <<dma, cpu, drv, medium, sent, answer>>

\* Nothing is left for the kernel to do.
Rests == life.stage \in {"done", "halted"} /\ UNCHANGED vars

-----------------------------------------------------------------------------

Driver ==
  \/ Look \/ Register \/ Recheck \/ AdminSubmit \/ Begin \/ Reap
  \/ \E fit \in BOOLEAN : AdminScan(fit)

Next ==
  \/ Route \/ Unbind \/ Rests
  \/ \E reply \in Replies : \/ AttachEndpoint(reply) \/ Order(reply) \/ MapNext(reply)
                            \/ UnmapNext(reply) \/ StopControl(reply)
  \/ BlockHandshake \/ NetHandshake \/ NvmeHandshake
  \/ \E ok \in BOOLEAN : Reset(ok) \/ ServeBlock(ok) \/ ServeAdmin(ok) \/ Enable(ok)
  \/ Driver \/ Raise \/ Expire \/ CallReap
  \/ \E op \in UNION {Ops[p] \cup Direct[p] : p \in DOMAIN Ops} : Start(op) \/ CallExecute(op)
  \/ Poll \/ HandOver \/ ReceiveOne \/ Transmit
  \/ \E idle \in BOOLEAN : PollStream(idle)
  \/ TakeBlock \/ TakeAdmin
  \/ \E half \in {"rx", "tx"} : TakeFrame(half) \/ ReturnFrame(half)

\* The driver's calls run on, its deadline passes, and a client that is owed an
\* answer asks for it: in every state the one of the three that can happen does.
\* The network's clients look again and again, every IDLE_SPINS-th look of the TCP
\* client being an idle poll, and a message sent to the core arrives. The device
\* owes nothing.
Owing == life.stage = "run" /\ IsBlock /\ Unsettled(drv)

RunsOn ==
  IF cpu.pc = "idle" THEN Owing /\ CallReap
  ELSE cpu.pc # "drain" /\ (Driver \/ Expire)

LooksOn == Poll \/ PollStream(TRUE)

Fairness == WF_vars(RunsOn) /\ WF_vars(LooksOn) /\ WF_vars(Raise)

Spec == Init /\ [][Next]_vars /\ Fairness

-----------------------------------------------------------------------------

\* What the IOMMU lets a device reach is what its driver holds: while the kernel
\* runs, every translation leads to frames claimed for the device and no two of
\* them meet, endpoints share no domain, and the frames of a device that may
\* still run are all claimed and mapped. No access of a device ever faults.
\* (Iommu::attach, map, unmap; the order of prepare, enable and reset)
DmaConfined ==
  LET table == dma.iommu.table
      claimed == {f \in Frames : dma.arena[f] # Free}
  IN /\ ~dma.fault
     /\ (life.stage # "halted" \/ hw.running) => \A t \in table : t.frames \subseteq claimed
     /\ \A t, u \in table : t # u => /\ t.frames \cap u.frames = {}
                                    /\ ~Overlap(t.iova, Cardinality(t.frames),
                                                u.iova, Cardinality(u.frames))
     /\ \A a, b \in dma.iommu.attached : a # b => a[1] # b[1] /\ a[2] # b[2]
     /\ \A a \in dma.iommu.attached : a[2] # 0
     /\ hw.running => /\ Len(dma.maps) = Len(Footprint(Port))
                      /\ UNION {t.frames : t \in table} = claimed

\* The driver and the device agree on what is out: every command, chain and
\* buffer that the device may still touch belongs to one slot that the driver
\* does not reuse, and nothing free is out. (Engine::start and reap, Queue::push
\* and pop, Receive and Transmit of the network driver)
RingsExact ==
  CASE drv.port \in {"virtio", "nvme"} -> SlotsMatch(drv)
    [] drv.port = "net" -> NetMatches(drv)
    [] drv.port = "admin" -> /\ Cardinality(Out(drv.ring)) <= 1
                            /\ \A o \in Out(drv.ring) : o[3] = drv.cid - 1
                            /\ At("admin") => Out(drv.ring) = {}
    [] OTHER -> TRUE

\* No arrival is slept through: a parked driver has nothing unseen on its line.
\* A frame the device has returned to an idle UDP client has an interrupt that
\* says so. The TCP client's next look drains the queue, or an interrupt is on its
\* way, or the look finds as many arrivals as the last did, which takes them: the
\* look after that one then finds another count.
\* (InterruptFuture::poll, raise and bind; the looks of udp_round_trip and tcp_echo)
NoArrivalMissed ==
  /\ cpu.pc = "parked" => line.unseen = 0 /\ line.waker
  /\ Client("udp") /\ Returned(drv.rx.queue) => line.unseen # 0 \/ hw.msi
  /\ Client("tcp") /\ Returned(drv.rx.queue) =>
       hw.msi \/ ~Level(life.client, line.unseen) \/ ~Level(life.client, 0)

(* ------------------- the drivers as the promised queue ------------------ *)

\* The slots whose command the device has returned.
ReturnedSlots ==
  IF drv.port = "nvme"
    THEN {drv.ring.cq[i].cid : i \in Span(drv.ring, drv.ring.told, drv.ring.answered)}
    ELSE {HeadSegment(drv.q, e.head).slot :
            e \in Between(drv.q.usedSeen, drv.q.usedIdx, drv.q.used, drv.q.size)}

Succeeded(s) ==
  IF drv.port = "nvme"
    THEN \E i \in Span(drv.ring, drv.ring.told, drv.ring.answered) :
           drv.ring.cq[i].cid = s /\ drv.ring.cq[i].ok
    ELSE drv.control[s].status = "ok"

Open ==
  IF ~IsBlock THEN {}
  ELSE {[id |-> drv.flights[s].id, kind |-> drv.flights[s].op.kind,
         state |-> IF s \notin ReturnedSlots THEN "waiting"
                   ELSE IF Succeeded(s) THEN "served" ELSE "failed",
         val |-> IF s \in ReturnedSlots /\ Succeeded(s) THEN CopyRead(drv, s, drv.flights[s].op) ELSE 0]
          : s \in Live(drv)}
       \cup {[id |-> drv.ready[s].id, kind |-> "none", state |-> "failed", val |-> 0]
          : s \in {s \in Slots(drv) : drv.ready[s] # No}}

CommandFor(s) ==
  CHOOSE c \in drv.ring.held \cup {drv.ring.sq[i] : i \in Span(drv.ring, drv.ring.fetched, drv.ring.rung)} :
    c.cid = s

Adrift ==
  IF ~IsBlock THEN {}
  ELSE {[id |-> drv.flights[s].id,
         kind |-> IF drv.port = "nvme" THEN CommandFor(s).kind ELSE drv.control[s].kind]
          : s \in {s \in Slots(drv) : drv.flights[s] # No /\ s \notin ReturnedSlots} \ Live(drv)}

Ids == 1..Max({MaxRequests[p] : p \in DOMAIN MaxRequests})

Promised == INSTANCE DeviceQueue WITH
  Ids <- Ids, Kinds <- {"Read", "Write", "Flush"},
  open <- Open, adrift <- Adrift, medium <- medium, answer <- answer,
  deaf <- drv.port = "nvme" /\ "cq" \notin drv.doorbells

\* The drivers keep the promise of the block queue: each request is answered
\* once, Ok only for what the device did, with the bytes it moved, whatever was
\* given up on before and came back late; an error of a controller whose
\* completion doorbell cannot be written says nothing. (Engine::start and reap)
ImplementsQueue == Promised!Spec

\* Every request a driver took is answered, or its device stopped, even if the
\* device never answers: a client can only ask for so much, and the driver then
\* comes to owe nothing. A frame returned to an idle network client is drained in
\* the end, the TCP client's by its idle poll at the latest, or the client is done.
\* (Engine::reap, timeout_one; the looks of udp_round_trip and tcp_echo)
AnsweredEventually ==
  /\ Owing ~> ~Owing
  /\ (Networking /\ Returned(drv.rx.queue)) ~> (~Networking \/ cpu.pc = "drain")
=============================================================================
