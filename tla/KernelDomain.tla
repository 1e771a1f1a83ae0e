---------------------------- MODULE KernelDomain ----------------------------
(***************************************************************************)
(* What the kernel gives a domain (kernel domain.rs): the image it is      *)
(* mapped from, the handles it names files through, and the ring pair it   *)
(* is spoken to through.                                                   *)
(*                                                                         *)
(* Admission and mapping of a domain's image: Image::parse and load of     *)
(* sys/domain lib.rs, and the kernel's mapper and allocate_mapping         *)
(* (kernel domain.rs), as functions of the image and of the memory left.   *)
(*                                                                         *)
(* An image is what parse reads out of its bytes: their number, whether    *)
(* the identification is the one supported, the machine, the entry and the *)
(* program headers. Addresses are bytes, PAGE to the page; TOP stands for  *)
(* the largest 64-bit number.                                              *)
(*                                                                         *)
(* The handle space a shell domain names files and directories through,    *)
(* and the filesystem operations behind it: ShellHandles, shell_open,      *)
(* shell_read and shell_close of kernel domain.rs over the capability      *)
(* table of storage/fs service.rs.                                         *)
(*                                                                         *)
(* A handle on the wire is a slot number with its kind tag; a capability   *)
(* never leaves the kernel. What a name means on the volume is a choice.   *)
(*                                                                         *)
(* The ring pair a domain shares with the kernel (base/abi ring.rs), the   *)
(* words in its slots (base/abi wire.rs) and the domain's runtime client   *)
(* (user/runtime lib.rs). Each ring is two indices and N slots in memory   *)
(* both sides write; the kernel acts on the head and tail it keeps.        *)
(***************************************************************************)
EXTENDS Capabilities

CONSTANTS PAGE, TOP, ELF_HEADER, PROGRAM_HEADER, SEGMENTS, ARCHITECTURE

Header(kind, flags, offset, address, file, memory, align) ==
  [kind |-> kind, flags |-> flags, offset |-> offset, address |-> address,
   file |-> file, memory |-> memory, align |-> align]

RoundUp(bytes) == ((bytes + PAGE - 1) \div PAGE) * PAGE

Segment(h) ==
  [address |-> h.address, memory |-> h.memory, mapped |-> RoundUp(h.address + h.memory) - h.address,
   file |-> h.file, write |-> "w" \in h.flags, execute |-> "x" \in h.flags, read |-> "r" \in h.flags]

HoldsAddress(segment, at) == segment.address <= at /\ at < segment.address + segment.memory

\* The sums that could wrap, each checked before it is used.
Overflows(h) ==
  \/ h.offset + h.file > TOP
  \/ h.address + h.memory > TOP
  \/ h.address + h.memory + PAGE - 1 > TOP

Malformed(bytes, h) ==
  \/ h.memory = 0
  \/ h.file > h.memory
  \/ h.offset + h.file > bytes
  \/ h.address % PAGE # 0
  \/ h.offset % PAGE # 0
  \/ h.align # PAGE
  \/ ~(h.flags \subseteq {"r", "w", "x"})
  \/ "r" \notin h.flags

\* Mutant: a segment both writable and executable is admitted.
HeaderErrorLax(image, seen, prior, h) ==
  CASE h.kind \in {"DYNAMIC", "INTERP"} -> "Unsupported"
    [] seen = SEGMENTS -> "TooManySegments"
    [] Overflows(h) \/ Malformed(image.bytes, h) -> "Segment"
    [] seen # 0 /\ h.address < prior -> "Overlap"
    [] OTHER -> "None"

\* Why one program header is refused, asked in the order of the loop's body.
HeaderError(image, seen, prior, h) ==
  CASE h.kind \in {"DYNAMIC", "INTERP"} -> "Unsupported"
    [] seen = SEGMENTS -> "TooManySegments"
    [] Overflows(h) \/ Malformed(image.bytes, h) -> "Segment"
    [] {"w", "x"} \subseteq h.flags -> "WriteExecute"
    [] seen # 0 /\ h.address < prior -> "Overlap"
    [] OTHER -> "None"

\* One turn of the loop; the end of the last admitted segment is what the next may not precede.
Admit(image, found, h) ==
  IF found.error # "None" \/ h.kind = "NOTE" THEN found
  ELSE LET error == HeaderError(image, Len(found.segments), found.prior, h) IN
    IF error # "None" THEN [found EXCEPT !.error = error]
    ELSE [error |-> "None", prior |-> RoundUp(h.address + h.memory),
          segments |-> Append(found.segments, Segment(h)),
          entry |-> found.entry \/ ("x" \in h.flags /\ HoldsAddress(Segment(h), image.entry))]

Refused(error) == [error |-> error, prior |-> 0, segments |-> <<>>, entry |-> FALSE]

ParseImage(image) ==
  IF image.bytes < ELF_HEADER THEN Refused("Truncated")
  ELSE IF ~image.identified THEN Refused("Format")
  ELSE IF image.machine # ARCHITECTURE THEN Refused("Architecture")
  ELSE IF image.size # PROGRAM_HEADER \/ image.count = 0 THEN Refused("Format")
  ELSE IF image.count * image.size + image.offset > image.bytes THEN Refused("Truncated")
  ELSE LET found == FoldLeft(LAMBDA f, h : Admit(image, f, h), Refused("None"), image.headers) IN
    IF found.error = "None" /\ (found.segments = <<>> \/ ~found.entry) THEN Refused("Entry") ELSE found

-----------------------------------------------------------------------------
(* The page arena the extents come from, in address order, and the frames behind them. *)

NewMemory(start, end, frames) == [next |-> start, end |-> end, frames |-> frames]

HasExtent(memory, bytes) == memory.next + bytes <= memory.end

TakeExtent(memory, bytes) == [memory EXCEPT !.next = @ + bytes]

TakeFrames(memory, bytes) == [memory EXCEPT !.frames = @ - bytes \div PAGE]

Mapping(start, bytes, write, execute, payload) ==
  [start |-> start, end |-> start + bytes, read |-> TRUE, write |-> write, execute |-> execute,
   payload |-> payload]

\* ImageMapper::map: the extent must be the address the segment was linked at.
MapSegment(memory, segment, granted) ==
  LET after == TakeExtent(memory, segment.mapped) IN
  IF ~HasExtent(memory, segment.mapped) THEN [error |-> "Address", memory |-> memory]
  ELSE IF memory.next # segment.address THEN [error |-> "Address", memory |-> after]
  ELSE IF memory.frames < segment.mapped \div PAGE THEN [error |-> "Platform", memory |-> after]
  ELSE IF (segment.write /\ segment.execute) \/ ~segment.read
  THEN [error |-> "Address", memory |-> TakeFrames(after, segment.mapped)]
  ELSE IF ~granted THEN [error |-> "Platform", memory |-> TakeFrames(after, segment.mapped)]
  ELSE [error |-> "None", memory |-> TakeFrames(after, segment.mapped),
        mapping |-> Mapping(segment.address, segment.mapped, segment.write, segment.execute, TRUE)]

\* allocate_mapping: zeroed, granted and kept, or the kernel stops.
CanMap(memory, bytes) == HasExtent(memory, bytes) /\ memory.frames >= bytes \div PAGE

-----------------------------------------------------------------------------
(* Regions a call names, resolved against what the domain was given. *)

Covering(mappings, start, end, Right(_)) ==
  {i \in DOMAIN mappings : mappings[i].payload /\ Right(mappings[i])
                           /\ mappings[i].start <= start /\ end <= mappings[i].end}

Readable(mapping) == mapping.read
Writable(mapping) == mapping.write

Resolves(mappings, base, aperture, region, Right(_)) ==
  /\ region.offset + region.len <= aperture
  /\ Covering(mappings, base + region.offset, base + region.offset + region.len, Right) # {}

-----------------------------------------------------------------------------
(* The handles. *)

CONSTANTS SLOTS,      \* slots of each kind in the domain's table
          FS_HANDLES, \* capacity of the filesystem's own table
          SIZE        \* length of a file

SHELL_DIR_RESULT == 8
SHELL_FILE_RESULT == 16

TagFor(kind) == IF kind = "Dir" THEN SHELL_DIR_RESULT ELSE SHELL_FILE_RESULT

Owner == 3

NoCap == [slot |-> 0, gen |-> 0]

Failed(state) == [state EXCEPT !.result = -1]

\* The filesystem with the one root capability it was asked for, in the domain's first slot.
NewShell ==
  LET fs == Insert(NewTable(FS_HANDLES), 1, Owner, TagFor("Dir")) IN
  [fs |-> fs, result |-> 0, touched |-> None,
   Dir |-> [i \in 0..SLOTS-1 |-> IF i = 0 THEN Named(fs, 1) ELSE NoCap],
   File |-> [i \in 0..SLOTS-1 |-> NoCap]]

\* Both tag bits must be exactly the kind's own.
SlotOf(handle, kind) ==
  IF (handle \div SHELL_DIR_RESULT) % 4 = TagFor(kind) \div SHELL_DIR_RESULT THEN handle - TagFor(kind) ELSE -1

Lookup(shell, handle, kind) ==
  LET slot == SlotOf(handle, kind) IN
  IF slot \in 0..SLOTS-1 THEN shell[kind][slot] ELSE NoCap

FreeSlots(shell, kind) == {i \in 0..SLOTS-1 : shell[kind][i] = NoCap}

Lowest(slots) == CHOOSE i \in slots : \A j \in slots : i <= j

Place(shell, kind, cap) ==
  IF kind = "Dir" THEN [shell EXCEPT !.Dir[Lowest(FreeSlots(shell, kind))] = cap]
  ELSE [shell EXCEPT !.File[Lowest(FreeSlots(shell, kind))] = cap]

\* Mutant: a table with no room keeps what was just opened.
RememberStranding(shell, kind, cap) ==
  IF FreeSlots(shell, kind) = {} THEN Failed(shell)
  ELSE [Place(shell, kind, cap) EXCEPT !.result = Lowest(FreeSlots(shell, kind)) + TagFor(kind)]

\* A table with no room gives the capability back before it refuses.
Remember(shell, kind, cap) ==
  IF FreeSlots(shell, kind) = {} THEN Failed([shell EXCEPT !.fs = Revoke(@, cap)])
  ELSE [Place(shell, kind, cap) EXCEPT !.result = Lowest(FreeSlots(shell, kind)) + TagFor(kind)]

Touch(shell, base, region, write) ==
  [shell EXCEPT !.touched = [start |-> base + region.offset, end |-> base + region.offset + region.len,
                             write |-> write]]

\* Fs::apply(Open): the parent must be held, the name must exist, and the table must have room.
FsOpen(shell, found) ==
  LET at == Room(shell.fs) IN
  IF found \notin {"Dir", "File"} \/ at = 0 THEN Failed(shell)
  ELSE Remember([shell EXCEPT !.fs = Insert(@, at, Owner, TagFor(found))], found, Named(shell.fs, at))

shell_open(shell, mappings, base, aperture, call, found) ==
  LET parent == Lookup(shell, call.cap, "Dir") IN
  IF parent = NoCap THEN Failed(shell)
  ELSE IF ~Resolves(mappings, base, aperture, call.region, Readable) THEN Failed(shell)
  ELSE IF found = "unusable" THEN Failed(Touch(shell, base, call.region, FALSE))
  ELSE IF ~Valid(shell.fs, parent) THEN Failed(Touch(shell, base, call.region, FALSE))
  ELSE FsOpen(Touch(shell, base, call.region, FALSE), found)

ReadBytes(offset, len) == IF offset >= SIZE THEN 0 ELSE IF len < SIZE - offset THEN len ELSE SIZE - offset

shell_read(shell, mappings, base, aperture, call) ==
  LET file == Lookup(shell, call.cap, "File") IN
  IF file = NoCap THEN Failed(shell)
  ELSE IF ~Resolves(mappings, base, aperture, call.region, Writable) THEN Failed(shell)
  ELSE IF ~Valid(shell.fs, file) THEN Failed(Touch(shell, base, call.region, TRUE))
  ELSE [Touch(shell, base, call.region, TRUE) EXCEPT !.result = ReadBytes(call.offset, call.region.len)]

\* Only a file can be closed, and its slot is forgotten once the filesystem let go of it.
shell_close(shell, call) ==
  LET file == Lookup(shell, call.cap, "File") IN
  IF file = NoCap THEN Failed(shell)
  ELSE IF ~Valid(shell.fs, file) THEN Failed(shell)
  ELSE [shell EXCEPT !.fs = Revoke(@, file), !.File[SlotOf(call.cap, "File")] = NoCap, !.result = 0]

\* A write to the console: offset zero, the one output capability, bytes the domain may read.
console_write(shell, mappings, base, aperture, call) ==
  IF call.offset # 0 \/ call.cap # 1 THEN Failed(shell)
  ELSE IF ~Resolves(mappings, base, aperture, call.region, Readable) THEN Failed(shell)
  ELSE [Touch(shell, base, call.region, FALSE) EXCEPT !.result = call.region.len]

-----------------------------------------------------------------------------
(* The ring pair. *)

CONSTANTS N,     \* slots of each ring
          WRAP,  \* an index wraps here, for 2^32
          RADIX  \* base of a region word, and the aperture, for 2^32

Words(id, tag, first, second, third) ==
  [id |-> id, tag |-> tag, first |-> first, second |-> second, third |-> third, reserved |-> 0]

NewRing == [tail |-> 0, head |-> 0, slots |-> [i \in 0..N-1 |-> Words(0, 0, 0, 0, 0)]]

NewChannel == [sub |-> NewRing, com |-> NewRing]

\* The kernel's ends: its private head, its private tail and the fault it latched.
KernelEnds == [head |-> 0, tail |-> 0, fault |-> FALSE]

\* The domain's end, and the next id its client hands out.
DomainEnd == [tail |-> 0, head |-> 0, next |-> 1]

Up(index, by) == (index + by) % WRAP
Ahead(a, b) == (a - b) % WRAP

ReadSlot(ring, index) == ring.slots[index % N]

WriteSlot(ring, index, words) == [ring EXCEPT !.slots[index % N] = words]

-----------------------------------------------------------------------------
(* Regions and calls *)

\* The one bounds check; the mask leaves an empty region where it fails.
Fits(region, bytes) == region.offset + region.len <= bytes

Within(region, bytes) == IF Fits(region, bytes) THEN region ELSE [offset |-> 0, len |-> 0]

Encode(region) == region.offset + RADIX * region.len

Decode(word) == [offset |-> word % RADIX, len |-> word \div RADIX]

Region(words, op) == IF op \in {"Read", "Write"} THEN Decode(words.third) ELSE Decode(words.second)

Tags == <<"Read", "Write", "Flush", "Open", "Close", "Send", "Recv", "Timer", "Message", "Grant">>

TagOf(op) == CHOOSE t \in 1..Len(Tags) : Tags[t] = op

\* What each operation leaves unused, which must be zero; a grant's rights are half a word.
Leftover(words, op) ==
  CASE op \in {"Flush", "Close", "Timer"} -> {words.second, words.third}
    [] op \in {"Open", "Send", "Recv", "Message"} -> {words.third}
    [] op = "Grant" -> {words.third \div RADIX}
    [] OTHER -> {}

HasRegion(op) == op \in {"Read", "Write", "Open", "Send", "Recv", "Message"}

\* The whole slot is judged from a copy: reserved words, the tag, the unused words, the region.
Parse(words) ==
  IF words.reserved # 0 THEN [ready |-> FALSE, id |-> words.id, reject |-> 2]
  ELSE IF words.tag \notin 1..Len(Tags) THEN [ready |-> FALSE, id |-> words.id, reject |-> 1]
  ELSE LET op == Tags[words.tag] IN
    IF ~(Leftover(words, op) \subseteq {0}) THEN [ready |-> FALSE, id |-> words.id, reject |-> 2]
    ELSE IF HasRegion(op) /\ ~Fits(Region(words, op), RADIX)
    THEN [ready |-> FALSE, id |-> words.id, reject |-> 3]
    ELSE [ready |-> TRUE, id |-> words.id, op |-> op, cap |-> words.first,
          offset |-> IF op \in {"Read", "Write"} THEN words.second ELSE 0,
          region |-> IF HasRegion(op) THEN Within(Region(words, op), RADIX) ELSE [offset |-> 0, len |-> 0]]

Call(id, op, cap, offset, region) ==
  CASE op \in {"Read", "Write"} -> Words(id, TagOf(op), cap, offset, Encode(region))
    [] op = "Open" -> Words(id, TagOf(op), cap, Encode(region), 0)
    [] OTHER -> Words(id, TagOf(op), cap, 0, 0)

Reply(id, result) == Words(id, result, 0, 0, 0)

-----------------------------------------------------------------------------
(* The kernel's ends *)

Ready(channel, ends) == Ahead(channel.sub.tail, ends.head)

\* `take`: a fault is permanent, and the head is published after the slot is copied out.
Faults(channel, ends) == ends.fault \/ Ready(channel, ends) > N

Drained(channel, ends) == ~Faults(channel, ends) /\ Ready(channel, ends) = 0

TakeEnds(ends) == [ends EXCEPT !.head = Up(@, 1)]

TakeChannel(channel, ends) == [channel EXCEPT !.sub.head = Up(ends.head, 1)]

Taken(channel, ends) == Parse(ReadSlot(channel.sub, ends.head))

Full(channel, ends) == Ahead(ends.tail, channel.com.head) >= N

\* Mutant: the reply lands one slot past the tail that announces it.
PublishAhead(channel, ends, reply) ==
  [channel EXCEPT !.com = [WriteSlot(@, Up(ends.tail, 1), reply) EXCEPT !.tail = Up(ends.tail, 1)]]

PublishReply(channel, ends, reply) ==
  [channel EXCEPT !.com = [WriteSlot(@, ends.tail, reply) EXCEPT !.tail = Up(ends.tail, 1)]]

PublishEnds(ends) == [ends EXCEPT !.tail = Up(@, 1)]

-----------------------------------------------------------------------------
(* The domain's end, which checks nothing *)

Submit(channel, dom, words) ==
  [channel EXCEPT !.sub = [WriteSlot(@, dom.tail, words) EXCEPT !.tail = Up(dom.tail, 1)]]

SubmitEnd(dom) == [dom EXCEPT !.tail = Up(@, 1)]

Claim(channel, dom, ahead) == [channel EXCEPT !.sub.tail = Up(dom.tail, ahead)]

ClaimEnd(dom, ahead) == [dom EXCEPT !.tail = Up(@, ahead)]

Consumed(channel, dom, ahead) == [channel EXCEPT !.com.head = Up(dom.head, ahead)]

ConsumedEnd(dom, ahead) == [dom EXCEPT !.head = Up(@, ahead)]

HasReply(channel, dom) == channel.com.tail # dom.head

ReplyAt(channel, dom) == ReadSlot(channel.com, dom.head)

\* `Client::request`: one id per request, and no second request while one is borrowed.
RequestEnd(dom) == [SubmitEnd(dom) EXCEPT !.next = @ + 1]
=============================================================================
