------------------------------ MODULE Domains -------------------------------
(***************************************************************************)
(* The kernel running its two domains (user_smoke and shell_smoke of       *)
(* kernel domain.rs): an image admitted and mapped, a channel, a guard, a  *)
(* stack and a heap beside it, the core switched into it and back, and its *)
(* ring driven while it is stopped. The hello image runs three times over  *)
(* one view (its greeting, a fault probe, a spin probe), then the shell    *)
(* image runs `cat` through the filesystem.                                *)
(*                                                                         *)
(* The programs are the ones under userspace/ on the runtime of            *)
(* user/runtime. In their place a run may put a domain that writes its     *)
(* ring by hand, which the kernel has to survive: `wild` names it. An      *)
(* `expect`, an assertion or a panic stops the machine.                    *)
(***************************************************************************)
EXTENDS KernelDomain, Gateway

CONSTANTS Boots,                 \* a machine, the hello image it is given, the frames it has
          ShellImage, ARENA, ARENA_END, SHELL_BASE, USER_STACK, USER_HEAP,
          Scribbles,             \* slots each program may write by hand
          BUDGET                 \* how many times it writes to its ring

VARIABLES machine,   \* port, tag bits, and which image is wild: fixed
          kern,      \* the kernel's place: stage, program, step, and how the domain left
          hart, page, asids,
          memory,    \* the page arena and the frames left
          mappings,  \* what the running image was given
          view,      \* its view, its tag, and the flush the tag demanded
          channel, ends,
          dom,       \* the domain's ring end
          user,      \* the program's place
          shell      \* the shell's handles, the filesystem's table, the last bytes touched

vars == <<machine, kern, hart, page, asids, memory, mappings, view, channel, ends, dom, user, shell>>

Programs == <<"hello", "fault", "spin", "shell">>

Program == Programs[kern.prog]

IsShell == Program = "shell"

Image == IF IsShell THEN ShellImage ELSE kern.image

Wild == machine.wild = Program

Start == [hello |-> "greet", fault |-> "probe", spin |-> "exit", shell |-> "prompt"]

NewUser(program) ==
  [at |-> Start[program], waiting |-> 0, offset |-> 0, handle |-> 0, code |-> 0, budget |-> BUDGET]

NoExit == [fault |-> FALSE, call |-> 0, value |-> 0]

Init ==
  /\ \E boot \in Boots :
       /\ machine = boot.machine /\ asids = NewAsids(boot.machine.width)
       /\ memory = NewMemory(ARENA, ARENA_END, boot.frames)
       /\ kern = [stage |-> "open", prog |-> 1, step |-> 1, started |-> FALSE, exit |-> NoExit,
                  image |-> boot.image, found |-> Refused("None")]
  /\ hart = NewHart /\ page = NewPage
  /\ mappings = <<>> /\ view = [index |-> 0, tag |-> 0, flush |-> "Nothing"]
  /\ channel = NewChannel /\ ends = KernelEnds /\ dom = DomainEnd
  /\ user = NewUser("hello")
  /\ shell = NewShell

Panic == kern' = [kern EXCEPT !.stage = "panic"]

-----------------------------------------------------------------------------
(* Building a domain *)

\* A view under the next tag. The flush the tag demands is dropped: only the gateway of a hart
\* with no tag bits, or a `cr3` write, makes up for it.
OpenView ==
  /\ kern.stage = "open"
  /\ asids' = Assign(asids).asids
  /\ view' = [index |-> view.index + 1, tag |-> Assign(asids).value, flush |-> Assign(asids).flush]
  /\ kern' = [kern EXCEPT !.stage = "admit"]
  /\ UNCHANGED <<machine, hart, page, memory, mappings, channel, ends, dom, user, shell>>

\* Admission is over before anything is mapped.
AdmitImage ==
  /\ kern.stage = "admit"
  /\ \E found \in {ParseImage(Image)} :
       kern' = [kern EXCEPT !.found = found, !.step = 1,
                            !.stage = IF found.error = "None" THEN "map" ELSE "panic"]
  /\ UNCHANGED <<machine, hart, page, asids, memory, mappings, view, channel, ends, dom, user, shell>>

\* One admitted segment, in address order; the kernel stops at the first that fails.
LoadSegment(granted) ==
  /\ kern.stage = "map" /\ kern.step <= Len(kern.found.segments)
  /\ \E mapped \in {MapSegment(memory, kern.found.segments[kern.step], granted)} :
       /\ memory' = mapped.memory
       /\ IF mapped.error # "None" THEN Panic /\ UNCHANGED mappings
          ELSE /\ mappings' = Append(mappings, mapped.mapping)
               /\ kern' = [kern EXCEPT !.step = @ + 1]
  /\ UNCHANGED <<machine, hart, page, asids, view, channel, ends, dom, user, shell>>

\* The channel, a guard page never granted, the stack and the heap, one after the other.
Furniture(start) ==
  <<Mapping(start, PAGE, TRUE, FALSE, FALSE),
    Mapping(start + 2 * PAGE, USER_STACK, TRUE, FALSE, TRUE),
    Mapping(start + 2 * PAGE + USER_STACK, USER_HEAP, TRUE, FALSE, TRUE)>>

Span == 2 * PAGE + USER_STACK + USER_HEAP

Furnish ==
  /\ kern.stage = "map" /\ kern.step > Len(kern.found.segments)
  /\ IF /\ CanMap(memory, Span - PAGE) /\ HasExtent(memory, Span)
        /\ IsShell => mappings[1].start = SHELL_BASE
     THEN /\ memory' = TakeFrames(TakeExtent(memory, Span), Span - PAGE)
          /\ mappings' = mappings \o Furniture(memory.next)
          /\ kern' = [kern EXCEPT !.stage = "enter", !.found = Refused("None")]
     ELSE Panic /\ UNCHANGED <<memory, mappings>>
  /\ channel' = NewChannel /\ ends' = KernelEnds /\ dom' = DomainEnd
  /\ user' = NewUser(Program)
  /\ UNCHANGED <<machine, hart, page, asids, view, shell>>

Base == mappings[1].start
Aperture == mappings[Len(mappings)].end - Base
Stack == mappings[Len(mappings) - 1]

-----------------------------------------------------------------------------
(* Crossing into it and back *)

\* The first entry of a program maps the gateway into its view and writes its context into the
\* gateway's page; a gateway that cannot be mapped stops the machine.
Enter(mapped) ==
  /\ kern.stage = "enter" /\ (kern.started => mapped)
  /\ page' = IF kern.started \/ ~mapped THEN page
             ELSE Prepare(page, kern.prog, view.index, view.tag, machine.width,
                          machine.port = "riscv" /\ hart.status)
  /\ IF mapped THEN kern' = [kern EXCEPT !.stage = "in", !.step = 1, !.started = TRUE] ELSE Panic
  /\ UNCHANGED <<machine, hart, asids, memory, mappings, view, channel, ends, dom, user, shell>>

GoIn ==
  /\ kern.stage = "in"
  /\ \E step \in {EnterSteps(machine.port)[kern.step]} :
       /\ hart' = EnterHart(machine.port, step, hart, page)
       /\ page' = EnterPage(step, hart, page)
  /\ kern' = IF kern.step = Len(EnterSteps(machine.port)) THEN [kern EXCEPT !.stage = "user"]
             ELSE [kern EXCEPT !.step = @ + 1]
  /\ UNCHANGED <<machine, asids, memory, mappings, view, channel, ends, dom, user, shell>>

\* The domain leaves by a runtime call or by an exception.
Leave(exit) ==
  /\ hart' = Trapped(hart, kern.prog)
  /\ kern' = [kern EXCEPT !.stage = "back", !.step = 1, !.exit = exit]

ComeBack ==
  /\ kern.stage = "back"
  /\ \E step \in {ReturnSteps(machine.port)[kern.step]} :
       /\ hart' = ReturnHart(machine.port, step, hart, page)
       /\ page' = ReturnPage(step, hart, page, kern.exit)
  /\ kern' = IF kern.step = Len(ReturnSteps(machine.port)) THEN [kern EXCEPT !.stage = "judge"]
             ELSE [kern EXCEPT !.step = @ + 1]
  /\ UNCHANGED <<machine, asids, memory, mappings, view, channel, ends, dom, user, shell>>

-----------------------------------------------------------------------------
(* What the kernel makes of it *)

\* Which exit each program is expected to take.
Over(exit) == IF Program = "fault" THEN exit.kind = "Fault" ELSE exit = [kind |-> "Exited", value |-> 0]

Drives(exit) == exit.kind = "Ring" /\ Program \in {"hello", "shell"}

\* The next program. The probes reuse the view, the stack and the arguments of the first; the
\* shell's image has its own slot, and the addresses up to it are spent.
NextProgram ==
  LET next == Programs[kern.prog + 1] IN
  /\ user' = NewUser(next)
  /\ IF next # "shell"
     THEN /\ kern' = [kern EXCEPT !.prog = @ + 1, !.stage = "enter", !.started = FALSE, !.exit = NoExit]
          /\ UNCHANGED <<memory, mappings>>
     ELSE IF memory.next >= SHELL_BASE THEN Panic /\ UNCHANGED <<memory, mappings>>
     ELSE /\ kern' = [kern EXCEPT !.prog = @ + 1, !.stage = "open", !.started = FALSE, !.exit = NoExit]
          /\ memory' = TakeExtent(memory, SHELL_BASE - memory.next)
          /\ mappings' = <<>>

Judge ==
  /\ kern.stage = "judge"
  /\ \E exit \in {Decoded(page)} :
       \/ /\ Drives(exit)
          /\ kern' = [kern EXCEPT !.stage = "drive"]
          /\ UNCHANGED <<memory, mappings, user>>
       \/ /\ Over(exit) /\ ~IsShell /\ NextProgram
       \/ /\ Over(exit) /\ IsShell
          /\ kern' = [kern EXCEPT !.stage = "done"]
          /\ UNCHANGED <<memory, mappings, user>>
       \/ /\ ~Drives(exit) /\ ~Over(exit)
          /\ Panic /\ UNCHANGED <<memory, mappings, user>>
  /\ UNCHANGED <<machine, hart, page, asids, view, channel, ends, dom, shell>>

\* One call of the hello image: its output, and a timer that is over at once.
drive_user(call) ==
  CASE call.op = "Timer" -> [shell EXCEPT !.result = 0]
    [] call.op = "Write" -> console_write(shell, mappings, Base, Aperture, call)
    [] OTHER -> Failed(shell)

\* One call of the shell's; what a name resolves to on the volume is `found`.
drive_shell(call, found) ==
  CASE call.op = "Write" -> console_write(shell, mappings, Base, Aperture, call)
    [] call.op = "Open" -> shell_open(shell, mappings, Base, Aperture, call, found)
    [] call.op = "Read" -> shell_read(shell, mappings, Base, Aperture, call)
    [] call.op = "Close" -> shell_close(shell, call)
    [] OTHER -> Failed(shell)

Served(call, found) ==
  IF ~call.ready THEN [shell EXCEPT !.result = -call.reject]
  ELSE IF IsShell THEN drive_shell(call, found) ELSE drive_user(call)

\* One turn of the drive loop: a reply there is no room for stops the ring, and what was
\* done for it stands.
DriveCall(found) ==
  /\ kern.stage = "drive" /\ ~Faults(channel, ends) /\ ~Drained(channel, ends)
  /\ \E call \in {Taken(channel, ends)} :
       /\ found # "File" => call.ready /\ call.op = "Open" /\ Wild
       /\ \E after \in {Served(call, found)}, room \in {~Full(channel, ends)} :
            /\ shell' = [after EXCEPT !.result = 0]
            /\ channel' = IF ~room THEN TakeChannel(channel, ends)
                          ELSE PublishReply(TakeChannel(channel, ends), ends, Reply(call.id, after.result))
            /\ ends' = IF room THEN PublishEnds(TakeEnds(ends)) ELSE TakeEnds(ends)
            /\ kern' = [kern EXCEPT !.stage = IF room THEN @ ELSE "stopped"]
  /\ UNCHANGED <<machine, hart, page, asids, memory, mappings, view, dom, user>>

DriveEnd ==
  /\ kern.stage = "drive"
  /\ \/ /\ Faults(channel, ends)
        /\ ends' = [ends EXCEPT !.fault = TRUE]
        /\ kern' = [kern EXCEPT !.stage = "stopped"]
     \/ /\ Drained(channel, ends)
        /\ kern' = [kern EXCEPT !.stage = "enter"]
        /\ UNCHANGED ends
  /\ shell' = [shell EXCEPT !.touched = None]
  /\ UNCHANGED <<machine, hart, page, asids, memory, mappings, view, channel, dom, user>>

-----------------------------------------------------------------------------
(* The programs *)

\* Constants lie in the image, names and the read window on the stack.
Constant == [offset |-> 0, len |-> 1]
OnStack == [offset |-> Stack.start - Base, len |-> 1]

OUTPUT == 1

\* The call a program makes at each place.
Asks(id) ==
  CASE user.at \in {"greet", "prompt", "line", "newline", "end"} -> Call(id, "Write", OUTPUT, 0, Constant)
    [] user.at = "print" -> Call(id, "Write", OUTPUT, 0, OnStack)
    [] user.at = "timer" -> Call(id, "Timer", 1, 0, Constant)
    [] user.at = "open" -> Call(id, "Open", SHELL_DIR_RESULT, 0, OnStack)
    [] user.at = "read" -> Call(id, "Read", user.handle, user.offset, OnStack)
    [] user.at = "close" -> Call(id, "Close", user.handle, 0, Constant)

GoTo(at) == [user EXCEPT !.at = at, !.waiting = 0]

Quit(code) == [GoTo("exit") EXCEPT !.code = code]

\* What follows an answer; `line` is whether the file ended a line. A console takes any result; the filesystem's refusals end the shell.
Follows(result, line) ==
  CASE user.at = "greet" -> GoTo("timer")
    [] user.at = "timer" -> Quit(0)
    [] user.at = "prompt" -> GoTo("line")
    [] user.at = "line" -> GoTo("newline")
    [] user.at = "newline" -> GoTo("open")
    [] user.at \in {"open", "read", "close"} /\ result < 0 -> Quit(6)
    [] user.at = "open" -> IF (result \div SHELL_FILE_RESULT) % 2 = 1
                           THEN [GoTo("read") EXCEPT !.handle = result]
                           ELSE [GoTo("close") EXCEPT !.handle = result]
    [] user.at = "read" -> IF result = 0 THEN GoTo(IF line THEN "close" ELSE "end") ELSE [GoTo("print") EXCEPT !.offset = @ + result]
    [] user.at = "print" -> GoTo("read")
    [] user.at = "end" -> GoTo("close")
    [] user.at = "close" -> Quit(0)

WrongCompletion ==
  CASE Program = "hello" -> 3
    [] user.at \in {"prompt", "line", "newline", "print", "end"} -> 8
    [] OTHER -> 6

Running == kern.stage = "user" /\ ~Wild

\* The first poll submits.
Ask ==
  /\ Running /\ user.waiting = 0 /\ user.at \notin {"exit", "probe"}
  /\ channel' = Submit(channel, dom, Asks(dom.next))
  /\ dom' = RequestEnd(dom)
  /\ user' = [user EXCEPT !.waiting = dom.next]
  /\ UNCHANGED <<machine, kern, hart, page, asids, memory, mappings, view, ends, shell>>

\* Every poll looks at the completion ring, and takes what is there to be its own.
Poll ==
  /\ Running /\ user.waiting # 0 /\ HasReply(channel, dom)
  /\ \E line \in BOOLEAN :
       user' = IF ReplyAt(channel, dom).id # user.waiting
               THEN [user EXCEPT !.at = "exit", !.code = WrongCompletion, !.waiting = 0]
               ELSE Follows(ReplyAt(channel, dom).tag, line)
  /\ channel' = Consumed(channel, dom, 1)
  /\ dom' = ConsumedEnd(dom, 1)
  /\ UNCHANGED <<machine, kern, hart, page, asids, memory, mappings, view, ends, shell>>

\* block_on crosses to the kernel whenever the poll is pending.
Kick ==
  /\ Running /\ user.waiting # 0 /\ ~HasReply(channel, dom)
  /\ Leave(NoExit)
  /\ UNCHANGED <<machine, page, asids, memory, mappings, view, channel, ends, dom, user, shell>>

ExitOrFault ==
  /\ Running /\ user.at \in {"exit", "probe"}
  /\ Leave([fault |-> user.at = "probe", call |-> 1, value |-> user.code])
  /\ UNCHANGED <<machine, page, asids, memory, mappings, view, channel, ends, dom, user, shell>>

-----------------------------------------------------------------------------
(* A domain that writes its ring by hand *)

Scribbling == kern.stage = "user" /\ Wild

Spend == user' = [user EXCEPT !.budget = @ - 1]

Scribble(words) ==
  /\ Scribbling /\ user.budget > 0 /\ Spend
  /\ channel' = Submit(channel, dom, words)
  /\ dom' = SubmitEnd(dom)
  /\ UNCHANGED <<machine, kern, hart, page, asids, memory, mappings, view, ends, shell>>

ClaimAhead(ahead) ==
  /\ Scribbling /\ user.budget > 0 /\ Spend
  /\ channel' = Claim(channel, dom, ahead)
  /\ dom' = ClaimEnd(dom, ahead)
  /\ UNCHANGED <<machine, kern, hart, page, asids, memory, mappings, view, ends, shell>>

ConsumeAhead(ahead) ==
  /\ Scribbling /\ user.budget > 0 /\ Spend
  /\ channel' = Consumed(channel, dom, ahead)
  /\ dom' = ConsumedEnd(dom, ahead)
  /\ UNCHANGED <<machine, kern, hart, page, asids, memory, mappings, view, ends, shell>>

\* It may leave by any call, or by a fault.
WildLeave(exit) ==
  /\ Scribbling
  /\ Leave(exit)
  /\ UNCHANGED <<machine, page, asids, memory, mappings, view, channel, ends, dom, user, shell>>

Exits ==
  {NoExit, [fault |-> TRUE, call |-> 0, value |-> 0], [fault |-> FALSE, call |-> 1, value |-> 0],
   [fault |-> FALSE, call |-> 1, value |-> 7], [fault |-> FALSE, call |-> 2, value |-> 0]}

Stopped == kern.stage \in {"done", "panic", "stopped"} /\ UNCHANGED vars

Next ==
  \/ OpenView \/ AdmitImage \/ Furnish
  \/ \E granted \in BOOLEAN : LoadSegment(granted)
  \/ \E mapped \in BOOLEAN : Enter(mapped)
  \/ GoIn \/ ComeBack \/ Judge \/ DriveEnd
  \/ \E found \in {"File", "Dir", "missing", "unusable"} : DriveCall(found)
  \/ Ask \/ Poll \/ Kick \/ ExitOrFault
  \/ Scribbling /\ \E words \in Scribbles[Program] : Scribble(words)
  \/ \E ahead \in 1..N+1 : ClaimAhead(ahead)
  \/ \E ahead \in 1..N : ConsumeAhead(ahead)
  \/ \E exit \in Exits : WildLeave(exit)
  \/ Stopped

\* One core runs all of this, and it does not stop.
Spec == Init /\ [][Next]_vars /\ WF_vars(Next)

-----------------------------------------------------------------------------
(* Properties *)

\* A tag used again on a hart that keeps what it cached, without the flush it demanded.
Unflushed == view.flush = "Everything" /\ machine.port = "riscv" /\ machine.width > 0

\* Between the kernel and a domain the gateway leaves no moment an interrupt could take half a
\* kernel (root, trap vector, registers); a program runs on its own registers and view, and on
\* no translation cached for another, unless its tag came with a flush that was dropped; the
\* kernel goes on exactly as it was, told the exit that happened and not one an earlier program
\* left in the page. (the gateways of both ports; Asids::assign and its callers)
GatewayConfined ==
  /\ Deliverable(machine.port, hart) => WholeKernel(hart)
  /\ hart.mode = "user" => hart.regs = {kern.prog} /\ hart.root = view.index /\ (Unflushed \/ OwnTranslations(hart))
  /\ kern.stage \notin {"in", "user", "back"} =>
       WholeKernel(hart) /\ hart.sources /\ (machine.port = "riscv" => hart.status)
  /\ kern.stage = "judge" => /\ page.fault = kern.exit.fault
                             /\ ~page.fault => page.call = kern.exit.call /\ page.value = kern.exit.value

\* What an image may ask for, said once and for the whole image: loads the code supports, page by
\* page in rising order, inside the file, no page both writable and executable, an entry to run.
Loads(image) == SelectSeq(image.headers, LAMBDA h : h.kind = "LOAD")

End(h) == h.address + h.memory

Admissible(image) ==
  /\ image.identified /\ image.machine = ARCHITECTURE /\ image.bytes >= ELF_HEADER
  /\ image.size = PROGRAM_HEADER /\ image.count > 0
  /\ image.offset + image.count * PROGRAM_HEADER <= image.bytes
  /\ \A i \in DOMAIN image.headers : image.headers[i].kind \in {"LOAD", "NOTE"}
  /\ Len(Loads(image)) \in 1..SEGMENTS
  /\ \A i \in DOMAIN Loads(image) : LET h == Loads(image)[i] IN
       /\ h.flags \in {{"r"}, {"r", "w"}, {"r", "x"}}
       /\ {h.address % PAGE, h.offset % PAGE} = {0} /\ h.align = PAGE
       /\ 0 < h.memory /\ h.file <= h.memory /\ h.offset + h.file <= image.bytes
       /\ End(h) + PAGE - 1 <= TOP
       /\ \A j \in 1..i-1 : \A at \in h.address..End(h)-1 : at \div PAGE > (End(Loads(image)[j]) - 1) \div PAGE
  /\ \E i \in DOMAIN Loads(image) :
       "x" \in Loads(image)[i].flags /\ image.entry \in Loads(image)[i].address..End(Loads(image)[i])-1

Apart(a, b) == a.end <= b.start \/ b.end <= a.start

\* Admission accepts exactly what it should, and an image it refuses has taken nothing. What a
\* domain is given is apart, never both writable and executable, with no page under the stack. A
\* call, however its ring was written, has the kernel touch only bytes the domain itself was given
\* as payload and could have touched the same way.
MemoryConfined ==
  /\ kern.found.error # "None" => ~Admissible(Image)
  /\ mappings # <<>> => Admissible(Image)
  /\ kern.prog = 1 /\ ~Admissible(Image) => memory.next = ARENA /\ \E boot \in Boots : boot.frames = memory.frames /\ boot.image = Image
  /\ \A i, j \in DOMAIN mappings : i # j => Apart(mappings[i], mappings[j])
  /\ \A i \in DOMAIN mappings : ~(mappings[i].write /\ mappings[i].execute)
  /\ kern.stage = "enter" =>
       \A i \in DOMAIN mappings : Apart(mappings[i], [start |-> Stack.start - PAGE, end |-> Stack.start])
  /\ shell.touched # None =>
       \E i \in DOMAIN mappings :
         /\ mappings[i].start <= shell.touched.start /\ shell.touched.end <= mappings[i].end
         /\ mappings[i].payload /\ (shell.touched.write => mappings[i].write)

Slots == {"Dir", "File"} \X (0..SLOTS-1)

HeldAt(slot) == shell[slot[1]][slot[2]]

\* Whatever a shell domain asks, the capabilities the filesystem keeps for it and the slots it can
\* name them by match one to one and in kind: nothing opened is stranded, no slot names something
\* closed, and a slot reused for another file is not reachable as the old one.
HandlesExact ==
  /\ \A slot \in Slots : HeldAt(slot) # NoCap =>
       Valid(shell.fs, HeldAt(slot)) /\ shell.fs[HeldAt(slot).slot].resource = TagFor(slot[1])
  /\ \A i \in Live(shell.fs) :
       Cardinality({slot \in Slots : HeldAt(slot) # NoCap /\ HeldAt(slot).slot = i}) = 1

\* A program of this tree that is running comes to the end the kernel expects of it: every request
\* is answered, in its turn and to its own id, however often block_on crosses over.
ProgramsEnd == Running ~> (kern.stage = "judge" /\ Over(Decoded(page)))
=============================================================================
