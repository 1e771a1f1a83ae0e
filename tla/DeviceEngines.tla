--------------------------- MODULE DeviceEngines ----------------------------
(***************************************************************************)
(* The request engine of the two block drivers, device/nvme queue.rs and   *)
(* device/virtio block.rs, as functions of the driver's state. They are    *)
(* the same engine over two rings: a slot owns a bounce buffer, `flights`  *)
(* says which request holds it, `ready` keeps answers found without the    *)
(* device. A request given up on leaves its slot behind as a flight with   *)
(* no operation, until the device returns the command: until then the      *)
(* device may still write the slot's buffer.                               *)
(*                                                                         *)
(* An operation moves one block of PER_BLOCK sectors. The bytes a write    *)
(* carries are its request's number; a read brings back what the buffer    *)
(* holds; what a free slot's buffer held is not kept. Writes to the mapped *)
(* regions stay inside them (data_at is below the region's length), so     *)
(* their error paths are not taken.                                        *)
(***************************************************************************)
EXTENDS Integers, Sequences, FiniteSets, FiniteSetsExt, DeviceRings, DmaSpace

CONSTANTS DEPTH,      \* QUEUE_DEPTH and REQUESTS
          IO_ENTRIES, \* entries of the NVMe I/O pair
          VQ_SIZE,    \* queue::MAX_SIZE
          Capacity, PER_BLOCK,
          PREFERRED_IOVA, \* where the aperture begins when it reaches that far
          ADMIN_ENTRIES   \* entries of the NVMe admin pair

No == [no |-> TRUE]

NoHeader == [kind |-> "none", sector |-> 0, status |-> "none"]

Slots(d) == 0..(d.depth - 1)

\* The doorbells inside the window a driver has mapped: nothing checks that the
\* NVMe stride or the VirtIO notify offset stay within it.
Windows(port) ==
  CASE port = "nvme" -> {{"sq", "cq"}, {"sq"}, {}} [] port = "virtio" -> {{"notify"}, {}} [] OTHER -> {{}}

\* Nvme::from_parts and Block::start_mapped: the state a driver starts from.
NewBlock(port, size, doorbells) ==
  LET depth == IF port = "nvme" THEN DEPTH ELSE Min({size \div 3, DEPTH})
  IN [port |-> port, depth |-> depth, doorbells |-> doorbells,
      flights |-> [s \in 0..(depth - 1) |-> No], ready |-> [s \in 0..(depth - 1) |-> No],
      ring |-> NewRing(IO_ENTRIES), q |-> NewQueue(size), reqs |-> NewRequests(size),
      control |-> [s \in 0..(depth - 1) |-> NoHeader],
      data |-> [s \in 0..(depth - 1) |-> 0]]

FreeSlots(d) == {s \in Slots(d) : d.flights[s] = No /\ d.ready[s] = No}

Live(d) == {s \in Slots(d) : d.flights[s] # No /\ d.flights[s].op # No}

validate(port, op) ==
  IF op.kind = "Flush" THEN "Ok"
  ELSE IF port = "nvme" /\ op.sector % PER_BLOCK # 0 THEN "Unaligned"
  ELSE IF op.sector + PER_BLOCK > Capacity THEN "Range" ELSE "Ok"

Finish(id, result, val) == [id |-> id, result |-> result, val |-> val]

Parked(d, slot, id, error) == [d EXCEPT !.ready[slot] = Finish(id, error, 0)]

Staged(d, slot, id, op) == IF op.kind = "Write" THEN [d EXCEPT !.data[slot] = id] ELSE d

(* -------------------------------- start --------------------------------- *)

\* The command goes to the tail of the submission queue, its identifier the slot.
\* A doorbell that cannot be written takes the flight back and answers the
\* request; the tail has moved.
StartNvme(d, slot, id, op) ==
  LET entry == [cid |-> slot, kind |-> op.kind, sector |-> op.sector]
  IN IF "sq" \in d.doorbells
       THEN [Staged(d, slot, id, op) EXCEPT
               !.flights[slot] = [id |-> id, op |-> op, head |-> slot, token |-> No],
               !.ring = Submit(@, entry)]
     ELSE Parked([d EXCEPT !.ring = WriteCommand(@, entry)], slot, id, "Device")

Segment(slot, op) ==
  IF op.kind = "Flush" THEN <<[buf |-> "header", slot |-> slot], [buf |-> "status", slot |-> slot]>>
  ELSE <<[buf |-> "header", slot |-> slot], [buf |-> "data", slot |-> slot],
         [buf |-> "status", slot |-> slot]>>

\* The header, the chain, the request's token and the kick. A kick that cannot
\* be written answers the request and leaves the published chain's flight.
StartVirtio(d, slot, id, op) ==
  LET segments == Segment(slot, op)
      staged == [Staged(d, slot, id, op) EXCEPT
                   !.control[slot] = [kind |-> op.kind, sector |-> op.sector, status |-> "none"]]
      head == Chained(d.q, 1)[1]
      issued == Issue(d.reqs, head)
      token == Token(issued, head)
  IN IF ~MayPush(d.q, Len(segments)) THEN d
     ELSE IF "notify" \in d.doorbells
       THEN [staged EXCEPT !.q = Push(@, segments), !.reqs = issued,
               !.flights[slot] = [id |-> id, op |-> op, head |-> head, token |-> token]]
     ELSE [staged EXCEPT !.q = Push(@, segments), !.reqs = Cancel(issued, token),
             !.flights[slot] = [id |-> id, op |-> No, head |-> head, token |-> token],
             !.ready[slot] = Finish(id, "Device", 0)]

\* Whether `start` takes the request, or hands the operation back.
Accepts(d, op) ==
  /\ FreeSlots(d) # {}
  /\ \/ d.port = "nvme" \/ validate(d.port, op) # "Ok"
     \/ MayPush(d.q, Len(Segment(0, op)))

Started(d, id, op) ==
  IF FreeSlots(d) = {} THEN d
  ELSE LET slot == Min(FreeSlots(d))
       IN IF validate(d.port, op) # "Ok" THEN Parked(d, slot, id, validate(d.port, op))
          ELSE IF d.port = "nvme" THEN StartNvme(d, slot, id, op)
          ELSE StartVirtio(d, slot, id, op)

(* --------------------------------- reap --------------------------------- *)

\* A scan ends the call with an answer (or with none), goes round again, or
\* has to wait for the device.
Ends(d, answer) == [drv |-> d, out |-> "return", answer |-> answer]
Again(d) == [drv |-> d, out |-> "again", answer |-> No]
Waits(d) == [drv |-> d, out |-> "wait", answer |-> No]

\* The slot is free as soon as the request is given up on.
GiveUpAndFree(d, slot, error) ==
  Ends([d EXCEPT !.flights[slot] = No,
                 !.reqs = IF d.port = "nvme" THEN @ ELSE Cancel(@, d.flights[slot].token)],
       Finish(d.flights[slot].id, error, 0))

\* timeout_one and fail_one: the flight stays, without its operation.
GiveUp(d, slot, error) ==
  Ends([d EXCEPT !.flights[slot].op = No,
                 !.reqs = IF d.port = "nvme" THEN @ ELSE Cancel(@, d.flights[slot].token)],
       Finish(d.flights[slot].id, error, 0))

FailOne(d, error) == IF Live(d) = {} THEN Ends(d, No) ELSE GiveUp(d, Min(Live(d)), error)

\* copy_read: a read answers with what its slot's buffer holds.
CopyRead(d, slot, op) == IF op.kind = "Read" THEN d.data[slot] ELSE 0

Freed(d, slot) ==
  [d EXCEPT !.flights[slot] = No, !.data[slot] = 0, !.control[slot] = NoHeader]

Settled(d, slot, ok) ==
  LET flight == d.flights[slot]
      freed == Freed(d, slot)
  IN IF flight.op = No THEN Again(freed)
     ELSE Ends(freed, IF ok THEN Finish(flight.id, "Ok", CopyRead(d, slot, flight.op))
                      ELSE Finish(flight.id, "Device", 0))

\* A head that cannot be announced fails the first live request, and what the
\* completion said is not looked at: its slot stays taken.
ScanNvme(d) ==
  LET entry == Completion(d.ring)
      moved == [d EXCEPT !.ring = Advance(@)]
  IN IF "cq" \notin d.doorbells THEN FailOne([d EXCEPT !.ring = MoveHead(@)], "Device")
     ELSE IF entry.cid \notin Slots(d) \/ d.flights[entry.cid] = No THEN FailOne(moved, "Device")
     ELSE Settled(moved, entry.cid, entry.ok)

ScanVirtio(d) ==
  LET popped == Pop(d.q)
      head == Popped(d.q).head
      owners == {s \in Slots(d) : d.flights[s] # No /\ d.flights[s].head = head}
      moved == [d EXCEPT !.q = popped]
  IN IF popped = Failed THEN FailOne(d, "Device")
     ELSE IF owners = {} THEN FailOne(moved, "Device")
     ELSE LET slot == Min(owners)
              done == [moved EXCEPT !.reqs = Complete(@, head)]
          IN IF ~Delivers(d.reqs, head) THEN Again(Freed(done, slot))
             ELSE Settled(done, slot, d.control[slot].status = "ok")

\* The deadline is not looked at, and the wait begins again.
NothingForever(d, expired) == IF Live(d) = {} THEN Ends(d, No) ELSE Waits(d)

NothingYet(d, expired) ==
  IF expired THEN FailOne(d, "Timeout")
  ELSE IF Live(d) = {} THEN Ends(d, No)
  ELSE Waits(d)

Scan(d, expired) ==
  LET ready == {s \in Slots(d) : d.ready[s] # No}
  IN IF ready # {} THEN Ends([d EXCEPT !.ready[Min(ready)] = No], d.ready[Min(ready)])
     ELSE IF d.port = "nvme" /\ Completed(d.ring) THEN ScanNvme(d)
     ELSE IF d.port = "virtio" /\ Returned(d.q) THEN ScanVirtio(d)
     ELSE NothingYet(d, expired)

(* --------------------- what the device does with it --------------------- *)

\* The command a device holds: the NVMe entry it fetched, or the header the
\* chain leads to.
Held(d) == IF d.port = "nvme" THEN d.ring.held ELSE d.q.held

SlotOf(d, c) == IF d.port = "nvme" THEN c.cid ELSE HeadSegment(d.q, c).slot

KindOf(d, c) == IF d.port = "nvme" THEN c.kind ELSE d.control[SlotOf(d, c)].kind

MayAnswerIt(d) == d.port = "virtio" \/ MayAnswer(d.ring)

\* The device moves the data, then returns the command.
Served(d, c, ok, medium) ==
  LET moved == IF ok /\ KindOf(d, c) = "Read" THEN [d EXCEPT !.data[SlotOf(d, c)] = medium] ELSE d
  IN IF d.port = "nvme" THEN [moved EXCEPT !.ring = Answer(@, c, ok)]
     ELSE [moved EXCEPT !.control[SlotOf(d, c)].status = IF ok THEN "ok" ELSE "error",
                        !.q = GiveBack(@, c, 1)]

Wrote(d, c, ok, medium) ==
  IF ok /\ KindOf(d, c) = "Write" THEN d.data[SlotOf(d, c)] ELSE medium

MayTakeOne(d) == IF d.port = "nvme" THEN MayFetch(d.ring) ELSE MayTake(d.q)

Takes(d) == IF d.port = "nvme" THEN [d EXCEPT !.ring = Fetch(@)] ELSE [d EXCEPT !.q = Take(@)]

(* --------------------- what the engine may never do --------------------- *)

\* Every command that is out belongs to the flight of the one slot it names,
\* and every flight has exactly one command out.
SlotsMatch(d) ==
  LET flying == {s \in Slots(d) : d.flights[s] # No}
  IN IF d.port = "nvme"
       THEN /\ {o[3] : o \in Out(d.ring)} = flying
            /\ Cardinality(Out(d.ring)) = Cardinality(flying)
       ELSE /\ {d.flights[s].head : s \in flying} = Outstanding(d.q)
            /\ Cardinality(Outstanding(d.q)) = Cardinality(flying)
            /\ \A s \in flying : HeadSegment(d.q, d.flights[s].head).slot = s
            /\ Conserved(d.q)

-----------------------------------------------------------------------------
(***************************************************************************)
(* The two queues of the network driver (device/virtio net.rs) as          *)
(* functions of its state. The receive queue always offers the device one  *)
(* buffer per slot; the transmit queue copies a frame into a slot no frame *)
(* is in flight from. `heads` remembers which slot a chain's head stands   *)
(* for. Frames are not told apart: the slots they travel in are.           *)
(***************************************************************************)

CONSTANTS NETWORK_SIZE,
          NetQueues     \* the sizes of the two queues a network device may offer

SlotsOf(q) == 0..(q.size - 1)

NoHeads(size) == [d \in 0..(size - 1) |-> End]

\* Receive::post, which cannot fail on a queue that has just given a chain back.
Post(half, slot) ==
  LET head == Chained(half.queue, 1)[1]
  IN [half EXCEPT !.queue = Push(@, <<[buf |-> "frame", slot |-> slot]>>), !.heads[head] = slot]

RECURSIVE PostAll(_, _)
PostAll(half, slot) ==
  IF slot = half.queue.size THEN half ELSE PostAll(Post(half, slot), slot + 1)

\* Receive::new and Transmit::new.
NewNet(sizes) ==
  LET half(size) == [queue |-> NewQueue(size), heads |-> NoHeads(size)]
  IN [port |-> "net", rx |-> PostAll(half(sizes[1]), 0), tx |-> half(sizes[2]), free |-> 0..(sizes[2] - 1)]

\* Receive::receive of a returned buffer: whatever the frame was worth, its
\* slot is posted again.
ReceiveFrame(d) ==
  LET head == Popped(d.rx.queue).head
      slot == d.rx.heads[head]
      taken == [d.rx EXCEPT !.queue = Pop(@), !.heads[head] = End]
  IN [d EXCEPT !.rx = Post(taken, slot)]

\* Transmit::reap: every slot the device has finished with is free again.
RECURSIVE ReapSent(_)
ReapSent(d) ==
  IF ~Returned(d.tx.queue) THEN d
  ELSE LET head == Popped(d.tx.queue).head
       IN ReapSent([d EXCEPT !.free = @ \cup {d.tx.heads[head]},
                             !.tx = [@ EXCEPT !.queue = Pop(@), !.heads[head] = End]])

\* Transmit::stage once the sent frames are reaped: the lowest free slot, or Busy.
StageIn(d) ==
  IF d.free = {} THEN d
  ELSE LET slot == Min(d.free)
       IN [d EXCEPT !.tx = Post(@, slot), !.free = @ \ {slot}]

Stage(d) == StageIn(ReapSent(d))

\* A queue's chains that are out, by the slot they stand for: one head each,
\* leading to that slot's buffer.
HeadsMatch(half) ==
  /\ Conserved(half.queue)
  /\ Outstanding(half.queue) = {h \in DOMAIN half.heads : half.heads[h] # End}
  /\ \A h \in Outstanding(half.queue) :
       HeadSegment(half.queue, h) = [buf |-> "frame", slot |-> half.heads[h]]

InFlight(half) == {half.heads[h] : h \in {h \in DOMAIN half.heads : half.heads[h] # End}}

\* Every receive slot is with the device or on its way back, and no transmit
\* slot is both free and in flight.
NetMatches(d) ==
  /\ HeadsMatch(d.rx) /\ HeadsMatch(d.tx)
  /\ InFlight(d.rx) = SlotsOf(d.rx.queue)
  /\ InFlight(d.tx) = SlotsOf(d.tx.queue) \ d.free
  /\ Cardinality(Outstanding(d.rx.queue)) = d.rx.queue.size

-----------------------------------------------------------------------------
(* What a device reports while its driver brings it up, and what the driver *)
(* makes of it: the status and feature handshake of virtio config.rs, and   *)
(* the demands of the block, network, IOMMU and NVMe drivers. A report is   *)
(* one of the few a demand tells apart; a device that does not meet every   *)
(* demand is refused before it may master the bus.                          *)

(* ------------------------------- virtio --------------------------------- *)

\* Status: the reset settles, FEATURES_OK sticks, and the configuration is read
\* under one generation; then what is offered, and the largest queue.
Virtio(offers, queues) ==
  [resets : BOOLEAN, content : BOOLEAN, steady : BOOLEAN,
   offers : SUBSET ({"VERSION_1"} \cup offers), queue : queues]

\* The features accepted: none when the device is refused.
negotiate(r, wanted) ==
  IF r.resets /\ r.content /\ "VERSION_1" \in r.offers
    THEN r.offers \cap (wanted \cup {"VERSION_1"}) ELSE {}

PowerOfTwo(n) == \E k \in 0..15 : n = 2^k

\* The queue size taken, or 0 for a queue the driver cannot use.
clamp_queue(offered, most) ==
  LET size == Min({offered, most})
  IN IF offered # 0 /\ PowerOfTwo(size) THEN size ELSE 0

\* The IOMMU rounds what it is offered down instead.
queue_size(offered, minimum) ==
  LET capped == Min({offered, VQ_SIZE})
  IN IF capped < minimum THEN 0 ELSE Max({s \in 1..capped : PowerOfTwo(s)})

BlockReports == Virtio({"RO", "FLUSH", "PLATFORM"}, {0, 4, 6, VQ_SIZE, 2 * VQ_SIZE})

BlockFeatures(r) == negotiate(r, {"RO", "FLUSH", "PLATFORM"})

\* The depth the block driver runs at; below two it does not.
BlockDepth(r) == Min({clamp_queue(r.queue, VQ_SIZE) \div 3, DEPTH})

BlockFits(r) ==
  /\ "RO" \notin BlockFeatures(r) /\ {"FLUSH", "PLATFORM"} \subseteq BlockFeatures(r)
  /\ r.steady /\ BlockDepth(r) >= 2

NetReports == Virtio({"MAC", "MRG_RXBUF", "PLATFORM"}, NetQueues)

NetFeatures(r) == negotiate(r, {"MAC", "MRG_RXBUF", "PLATFORM"})

require_features(features) == {"MAC", "MRG_RXBUF", "PLATFORM"} \subseteq features

\* The receive queue and the transmit queue are sized one after the other.
NetSizes(r) == [k \in 1..2 |-> clamp_queue(r.queue[k], NETWORK_SIZE)]

NetFits(r, queues) ==
  /\ require_features(NetFeatures(r)) /\ queues >= 2 /\ r.steady
  /\ \A k \in 1..2 : NetSizes(r)[k] # 0

(* ------------------------------ the IOMMU ------------------------------- *)

IommuFeatures == {"INPUT_RANGE", "DOMAIN_RANGE", "MAP_UNMAP"}

IommuReports == Virtio(IommuFeatures, {0, 1, 2, 3, VQ_SIZE})

\* The pages of the input range that are handed out: never page zero, and the
\* low ones only when the range ends before the preferred start.
Granted(range) ==
  LET low == Max({Min(range), 1})
      start == IF Max({PREFERRED_IOVA, low}) <= Max(range) THEN Max({PREFERRED_IOVA, low}) ELSE low
  IN {p \in range : p >= start}

IommuFits(r, range, domains) ==
  /\ IommuFeatures \subseteq negotiate(r, IommuFeatures) /\ r.steady
  /\ Granted(range) # {} /\ first_domain(domains) <= Max(domains)
  /\ queue_size(r.queue, 2) # 0

(* --------------------------------- NVMe --------------------------------- *)

NvmeReports == [version : {0, 1}, nvm : BOOLEAN, entries : {ADMIN_ENTRIES - 1, ADMIN_ENTRIES},
                minPage : {0, 1}, maxPage : {0, 1}, stops : BOOLEAN]

validate_capabilities(r) ==
  r.version >= 1 /\ r.nvm /\ r.entries >= ADMIN_ENTRIES /\ r.minPage = 0 /\ r.maxPage >= r.minPage

NvmeFits(r) == validate_capabilities(r) /\ r.stops
=============================================================================
