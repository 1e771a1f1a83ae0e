------------------------------- MODULE PciBus -------------------------------
(***************************************************************************)
(* Finding and routing PCI functions (crates/device/pci/src and            *)
(* kernel/src/pci.rs): the bus walk, the capability list, sizing a base    *)
(* address register by writing ones into it, and programming a message     *)
(* interrupt, one register write at a time.                                *)
(*                                                                         *)
(* Registers keep their arithmetic over words of WORD values (2^32 in the  *)
(* code): a BAR's low bits say what it is, the writable ones how large.    *)
(***************************************************************************)
EXTENDS Integers, Sequences, FiniteSets, SequencesExt

CONSTANTS WORD, FRAME,               \* values of a register, bytes of a frame
          DEVICES, FUNCTIONS,        \* of a bus, of a device
          DEVICE_BARS, BRIDGE_BARS,
          CAPABILITY_FLOOR, CAPABILITY_LIMIT,
          Buses,                     \* what may be plugged in
          Messages,                  \* messages a fabric may hand out, [high, low, data]
          FirmwareMessage            \* what firmware routed a capability it left enabled at

VARIABLE pci

NoMessage == [high |-> 0, low |-> 0, data |-> 0]

(***************************************************************************)
(* A function's registers. A BAR register keeps `flags` and takes only the *)
(* multiples of `grain` of what is written (external: the hardware).       *)
(***************************************************************************)
Written(hw, value) == value - (value % hw.grain) + hw.flags

IsIo(word) == word % 2 = 1
IsWide(word) == ~IsIo(word) /\ (word \div 2) % 4 = 2
Kept(word, original) == word - (word % (IF IsIo(original) THEN 4 ELSE 16))
Low(word) == Kept(word, word)

NoBar == [some |-> FALSE, memory |-> FALSE, base |-> 0, len |-> 0]

\* The value of the lowest writable bit: the writable bits negated.
Length(writable, values) == (values - writable) % values

\* decode: `values` is WORD for a narrow register and WORD^2 for a wide one.
Decode(original, base, writable, values) ==
  IF writable = 0 \/ Length(writable, values) = 0 THEN NoBar
  ELSE [some |-> TRUE, memory |-> ~IsIo(original), base |-> base, len |-> Length(writable, values)]

DecodeNarrow(original, probed) == Decode(original, Low(original), Kept(probed, original), WORD)

DecodeWide(original, probed, high, probedHigh) ==
  Decode(original, high * WORD + Low(original), probedHigh * WORD + Kept(probed, original), WORD * WORD)

\* The registers this header type has.
BarCount(header) == CASE header = 0 -> DEVICE_BARS [] header = 1 -> BRIDGE_BARS [] OTHER -> 0

\* Bar::span, in frames.
SpanStart(bar) == bar.base \div FRAME
SpanFrames(bar) == ((bar.base + bar.len + FRAME - 1) \div FRAME) - SpanStart(bar)
HasSpan(bar) == bar.some /\ bar.memory /\ bar.base + bar.len < WORD * WORD

\* What the hardware really decodes behind register i (external).
Behind(hw, firmware, i) ==
  LET wide == IsWide(firmware[i])
      size == IF hw[i].grain < WORD \/ ~wide THEN hw[i].grain ELSE hw[i + 1].grain * WORD
      base == IF wide THEN firmware[i + 1] * WORD + Low(firmware[i]) ELSE Low(firmware[i])
  IN IF size >= (IF wide THEN WORD * WORD ELSE WORD) THEN NoBar
     ELSE [some |-> TRUE, memory |-> ~IsIo(firmware[i]), base |-> base, len |-> size]

(***************************************************************************)
(* The capability list: a linked list the device supplies.                 *)
(***************************************************************************)
Malformed == -1
Absent == 0

\* Function::capability: the first with the id, or why there is none.
Capability(caps, list, id) ==
  LET walk[seen \in 0..CAPABILITY_LIMIT, at \in 0..(CAPABILITY_FLOOR + CAPABILITY_LIMIT)] ==
        IF at = 0 THEN Absent
        ELSE IF at < CAPABILITY_FLOOR \/ seen >= CAPABILITY_LIMIT THEN Malformed
        ELSE IF caps[at].id = id THEN at
        ELSE walk[seen + 1, caps[at].next]
  IN walk[0, list]

Preferred(f) ==
  IF Capability(f.caps, f.list, "MSIX") > 0 THEN "MSIX"
  ELSE IF Capability(f.caps, f.list, "MSI") > 0 THEN "MSI" ELSE "None"

\* The entries a list passes through, whatever the walk's bound (reference).
Reached(caps, list) ==
  LET step[n \in 0..Cardinality(DOMAIN caps)] ==
        IF n = 0 THEN {list}
        ELSE step[n - 1] \cup {caps[at].next : at \in step[n - 1] \cap DOMAIN caps}
  IN step[Cardinality(DOMAIN caps)]

(***************************************************************************)
(* The walk of the bus: a cursor and the functions that answered.          *)
(***************************************************************************)
NoFunction == <<-1, 0>>

\* A mistake the walk could make: the flag survives its device.
AdvanceKeeps(device, function, multi) ==
  IF multi /\ function + 1 < FUNCTIONS THEN <<device, function + 1, multi>> ELSE <<device + 1, 0, multi>>

\* Bus::advance: functions 1.. only of a device whose function 0 has several.
AdvanceBus(device, function, multi) ==
  IF multi /\ function + 1 < FUNCTIONS THEN <<device, function + 1, multi>> ELSE <<device + 1, 0, FALSE>>

\* What the walk must find (reference): a device without function 0 is absent.
Answering(bus) ==
  {at \in DOMAIN bus : <<at[1], 0>> \in DOMAIN bus /\ (at[2] = 0 \/ bus[<<at[1], 0>>].multi)}

(***************************************************************************)
(* enumerate, one step per register written. `todo` holds the writes left  *)
(* of a message's programming.                                             *)
(***************************************************************************)
\* As firmware left the function: `live` is the capability it left enabled.
Powered(f) ==
  LET left(id) == IF f.live = id THEN FirmwareMessage ELSE NoMessage
  IN [cmd |-> f.cmd, bars |-> f.bars,
      msi |-> [on |-> f.live = "MSI", message |-> left("MSI")],
      entry |-> [on |-> f.live = "MSIX", masked |-> f.live # "MSIX", message |-> left("MSIX")]]

Enumerating(bus) ==
  [bus |-> bus, regs |-> [at \in DOMAIN bus |-> Powered(bus[at])],
   cursor |-> <<0, 0, FALSE>>, found |-> <<>>, at |-> NoFunction, pc |-> "scan",
   for |-> "size", index |-> 1, saved |-> {}, original |-> 0, probed |-> 0, high |-> 0, bar |-> NoBar,
   sized |-> FALSE, routed |-> NoFunction, bound |-> {}, line |-> NoMessage, todo |-> <<>>]

Here == pci.bus[pci.at]

\* Bus::function: the candidate under the cursor, then past it.
Scan ==
  /\ pci.pc = "scan" /\ pci.cursor[1] < DEVICES
  /\ LET at == <<pci.cursor[1], pci.cursor[2]>>
         there == at \in DOMAIN pci.bus
         multi == IF there /\ at[2] = 0 THEN pci.bus[at].multi ELSE pci.cursor[3]
     IN pci' = [pci EXCEPT !.cursor = AdvanceBus(at[1], at[2], multi),
                           !.found = IF there THEN Append(@, at) ELSE @,
                           !.at = IF there THEN at ELSE @,
                           !.for = "size", !.index = 1,
                           !.pc = IF ~there THEN "scan" ELSE IF pci.sized THEN "edu" ELSE "size"]

ScanEnd ==
  /\ pci.pc = "scan" /\ pci.cursor[1] = DEVICES
  /\ pci' = [pci EXCEPT !.at = NoFunction,
                        !.pc = IF pci.found = <<>> THEN "panic"
                               ELSE IF pci.routed # NoFunction THEN "deliver" ELSE "done"]

\* Where sizing returns to: the next register, or whoever asked.
Returned(bar) ==
  IF pci.for = "route" THEN "map"
  ELSE IF bar.memory \/ pci.index = DEVICE_BARS THEN "edu" ELSE "size"

Return(p, bar) ==
  [p EXCEPT !.pc = Returned(bar), !.bar = bar, !.sized = @ \/ (pci.for = "size" /\ bar.memory),
            !.index = IF Returned(bar) = "size" THEN @ + 1 ELSE @]

\* Function::bar turns decode off for the probe and back on whatever it found.
BarBegin ==
  /\ pci.pc = "size"
  /\ pci' = IF pci.index > BarCount(Here.header) THEN Return(pci, NoBar)
            ELSE [pci EXCEPT !.saved = pci.regs[pci.at].cmd, !.regs[pci.at].cmd = @ \ {"MEM", "IO"},
                             !.pc = "ones"]

BarOnes ==
  /\ pci.pc = "ones"
  /\ pci' = [pci EXCEPT !.original = pci.regs[pci.at].bars[pci.index],
                        !.regs[pci.at].bars[pci.index] = Written(Here.hw[pci.index], WORD - 1),
                        !.pc = "back"]

BarBack ==
  /\ pci.pc = "back"
  /\ LET probed == pci.regs[pci.at].bars[pci.index]
         wide == IsWide(pci.original)
     IN pci' = [pci EXCEPT !.probed = probed,
                           !.regs[pci.at].bars[pci.index] = Written(Here.hw[pci.index], pci.original),
                           !.bar = IF wide THEN NoBar ELSE DecodeNarrow(pci.original, probed),
                           !.pc = IF wide /\ pci.index < BarCount(Here.header) THEN "onesHigh" ELSE "on"]

BarOnesHigh ==
  /\ pci.pc = "onesHigh"
  /\ pci' = [pci EXCEPT !.high = pci.regs[pci.at].bars[pci.index + 1],
                        !.regs[pci.at].bars[pci.index + 1] = Written(Here.hw[pci.index + 1], WORD - 1),
                        !.pc = "backHigh"]

BarBackHigh ==
  /\ pci.pc = "backHigh"
  /\ pci' = [pci EXCEPT !.regs[pci.at].bars[pci.index + 1] = Written(Here.hw[pci.index + 1], pci.high),
                        !.bar = DecodeWide(pci.original, pci.probed, pci.high, pci.regs[pci.at].bars[pci.index + 1]),
                        !.pc = "on"]

BarEnd ==
  /\ pci.pc = "on"
  /\ pci' = [Return(pci, pci.bar) EXCEPT !.regs[pci.at].cmd = pci.saved]

Edu ==
  /\ pci.pc = "edu"
  /\ pci' = [pci EXCEPT !.pc = IF pci.routed = NoFunction /\ Here.edu THEN "route" ELSE "scan"]

(***************************************************************************)
(* route: the line is bound, the message written, the capability enabled,  *)
(* the register window mapped, and only then decode and mastering.         *)
(***************************************************************************)
\* A capability enabled before the message it sends is whole.
MsiStepsEager(wide) == <<"low", "on">> \o (IF wide THEN <<"high">> ELSE <<>>) \o <<"data", "intx">>

\* Function::route_msi.
MsiSteps(wide) == <<"low">> \o (IF wide THEN <<"high">> ELSE <<>>) \o <<"data", "on", "intx">>

\* MsiX::route, then MsiX::enable; MsiX::mask, then MsiX::disable.
RouteSteps == <<"mask", "xlow", "xhigh", "xdata", "unmask", "xon">>
StopSteps == <<"mask", "xoff">>

Programmed(r, step, message) ==
  CASE step = "low"    -> [r EXCEPT !.msi.message.low = message.low]
    [] step = "high"   -> [r EXCEPT !.msi.message.high = message.high]
    [] step = "data"   -> [r EXCEPT !.msi.message.data = message.data]
    [] step = "on"     -> [r EXCEPT !.msi.on = TRUE]
    [] step = "intx"   -> [r EXCEPT !.cmd = @ \cup {"INTX"}]
    [] step = "mask"   -> [r EXCEPT !.entry.masked = TRUE]
    [] step = "xlow"   -> [r EXCEPT !.entry.message.low = message.low]
    [] step = "xhigh"  -> [r EXCEPT !.entry.message.high = message.high]
    [] step = "xdata"  -> [r EXCEPT !.entry.message.data = message.data]
    [] step = "unmask" -> [r EXCEPT !.entry.masked = FALSE]
    [] step = "xon"    -> [r EXCEPT !.entry.on = TRUE]
    [] step = "xoff"   -> [r EXCEPT !.entry.on = FALSE]

\* A fabric without a line to give leaves the function unrouted; a function
\* with MSI-X alone, or a narrow one given a wide message, fails an `expect`.
RouteRefused ==
  /\ pci.pc = "route"
  /\ pci' = [pci EXCEPT !.pc = "scan"]

RouteBound(message) ==
  /\ pci.pc = "route" /\ Preferred(Here) # "None" /\ message \notin pci.bound
  /\ pci' = [pci EXCEPT !.bound = @ \cup {message}, !.line = message,
                        !.todo = MsiSteps(Here.wideMsi),
                        !.pc = IF \/ Capability(Here.caps, Here.list, "MSI") <= 0
                                  \/ (~Here.wideMsi /\ message.high # 0)
                               THEN "panic" ELSE "program"]

\* Where a finished program goes on.
AfterProgram == IF pci.for = "vector" THEN "master" ELSE IF pci.for = "stop" THEN "unbind" ELSE "size"

Program ==
  /\ pci.pc = "program"
  /\ pci' = [pci EXCEPT !.regs[pci.at] = Programmed(@, Head(pci.todo), pci.line),
                        !.todo = Tail(@),
                        !.for = IF Len(pci.todo) = 1 /\ @ = "size" THEN "route" ELSE @,
                        !.index = 1,
                        !.pc = IF Len(pci.todo) = 1 THEN AfterProgram ELSE "program"]

\* A BAR that is no device window is refused and leaves the line bound.
Unmappable(isDevice) ==
  /\ pci.pc = "map" /\ ~(HasSpan(pci.bar) /\ isDevice)
  /\ pci' = [pci EXCEPT !.pc = "scan"]

MapRegisters(isDevice, mapped) ==
  /\ pci.pc = "map" /\ HasSpan(pci.bar) /\ isDevice
  /\ pci' = IF ~mapped THEN [pci EXCEPT !.pc = "scan"]
            ELSE [pci EXCEPT !.regs[pci.at].cmd = @ \cup {"MEM", "BM"}, !.routed = pci.at, !.pc = "scan"]

\* The messages a function can post as its registers are now.
Posts(r) ==
  {m \in {r.msi.message, r.entry.message} :
     /\ "BM" \in r.cmd
     /\ (r.msi.on /\ m = r.msi.message) \/ (r.entry.on /\ ~r.entry.masked /\ m = r.entry.message)}

\* deliver: the device is told to raise, and the arrival has to come.
Deliver ==
  /\ pci.pc = "deliver"
  /\ pci' = [pci EXCEPT !.pc = IF pci.line \in Posts(pci.regs[pci.routed])
                               THEN "done" ELSE "panic"]

(***************************************************************************)
(* A driver's vector (kernel/src/device.rs): quiesce, route, master, and   *)
(* after the device is reset, stop.                                        *)
(***************************************************************************)
Vector(at, message) ==
  /\ pci.pc = "done" /\ pci.at = NoFunction /\ ~pci.bus[at].edu
  /\ Capability(pci.bus[at].caps, pci.bus[at].list, "MSIX") > 0
  /\ message \notin pci.bound
  /\ pci' = [pci EXCEPT !.at = at, !.bound = @ \cup {message}, !.line = message,
                        !.regs[at].cmd = (@ \cup {"MEM", "INTX"}) \ {"BM"},
                        !.for = "vector", !.todo = RouteSteps, !.pc = "program"]

Master ==
  /\ pci.pc = "master"
  /\ pci' = [pci EXCEPT !.regs[pci.at].cmd = @ \cup {"BM"}, !.pc = "driven"]

StopVector ==
  /\ pci.pc = "driven"
  /\ pci' = [pci EXCEPT !.regs[pci.at].cmd = @ \ {"BM"}, !.for = "stop", !.todo = StopSteps, !.pc = "program"]

Unbind ==
  /\ pci.pc = "unbind"
  /\ pci' = [pci EXCEPT !.bound = @ \ {pci.line}, !.pc = "stopped"]

PciStep ==
  \/ Scan \/ ScanEnd \/ BarBegin \/ BarOnes \/ BarBack \/ BarOnesHigh \/ BarBackHigh \/ BarEnd \/ Edu
  \/ RouteRefused \/ (\E message \in Messages : RouteBound(message)) \/ Program \/ Deliver
  \/ (\E at \in {pci.found[i] : i \in DOMAIN pci.found}, message \in Messages : Vector(at, message))
  \/ Master \/ StopVector \/ Unbind

(***************************************************************************)
(* Properties                                                              *)
(***************************************************************************)
\* The walk finds each function that answers exactly once, and sizing a BAR is
\* invisible: the length is the hardware's, a register that holds anything but
\* what firmware put there belongs to a function that decodes nothing, and the
\* register and the command are back before the walk goes on, on the failing
\* paths too ("puts the original value back afterwards, on every path", bar.rs).
\* A capability is found exactly when the list reaches it (function.rs, the walk
\* "is bounded").
BusSound ==
  /\ \A at \in DOMAIN pci.bus :
       /\ pci.regs[at].bars # pci.bus[at].bars => pci.regs[at].cmd \cap {"MEM", "IO"} = {}
       /\ pci.pc \in {"scan", "edu", "map", "done"} =>
            /\ pci.regs[at].bars = pci.bus[at].bars
            /\ pci.bus[at].cmd \subseteq pci.regs[at].cmd
            /\ ~pci.bus[at].edu => pci.regs[at].cmd = pci.bus[at].cmd
  /\ pci.pc = "on" =>
       pci.bar = IF IsWide(Here.bars[pci.index]) /\ pci.index = BarCount(Here.header) THEN NoBar
                 ELSE Behind(Here.hw, Here.bars, pci.index)
  /\ pci.pc \in {"deliver", "done"} =>
       /\ {pci.found[i] : i \in DOMAIN pci.found} = Answering(pci.bus)
       /\ Len(pci.found) = Cardinality(Answering(pci.bus))
  /\ pci.pc = "route" => \A id \in {"MSI", "MSIX"} :
       (Capability(Here.caps, Here.list, id) > 0)
         <=> \E at \in Reached(Here.caps, Here.list) \cap DOMAIN Here.caps : Here.caps[at].id = id

\* A firmware-enabled MSI is rewritten while it may be sent: route_msi does not
\* disable it first, where MsiX::route masks the entry.
Rewriting(at) == pci.pc = "program" /\ pci.at = at /\ pci.bus[at].live = "MSI"

\* A function posts only whole messages, of lines the kernel has bound: the line
\* is bound first, the capability is enabled after the message is written, and a
\* stopped vector is silent before its line is given back (kernel pci.rs `route`:
\* "a device able to deliver into a line nobody owns is a dropped interrupt at
\* best"). A capability firmware left enabled posts firmware's message until the
\* kernel has written its own, and something in between only while an MSI is
\* being rewritten. The interrupt the device is told to raise arrives.
MessagesWhole ==
  /\ \A at \in DOMAIN pci.bus : \A m \in Posts(pci.regs[at]) :
       m \in pci.bound \/ (pci.bus[at].live # "None" /\ (m = FirmwareMessage \/ Rewriting(at)))
  /\ pci.routed # NoFunction => {"INTX", "BM", "MEM"} \subseteq pci.regs[pci.routed].cmd
  /\ pci.pc = "deliver" => pci.line \in Posts(pci.regs[pci.routed])
=============================================================================
