------------------------------ MODULE Gateway -------------------------------
(***************************************************************************)
(* How a core enters a domain and comes back: the gateway page of both     *)
(* ports (riscv domain.rs, x86_64 domain.rs), the tags that keep two views *)
(* apart in the TLB (sys/arch asid.rs), and the state a domain is resumed  *)
(* from (sys/arch domain.rs).                                              *)
(*                                                                         *)
(* The gateway is code no compiler checks, so it is kept as the list of    *)
(* its steps, each one a group of instructions between two points where an *)
(* interrupt could land. Registers are abstracted to whose values they     *)
(* are: zero for the kernel, the number of a program otherwise.            *)
(*                                                                         *)
(* hart: the core. root and tag are its view, caught what its TLB holds,   *)
(*   sources is `sie` (RISC-V) or IF (x86), status is `sstatus.SIE`.       *)
(* page: the gateway's data. The user's register file, the kernel's saved  *)
(*   context, and what the trap path reports.                              *)
(***************************************************************************)
EXTENDS Integers, Sequences

Kernel == {0}

NewHart ==
  [mode |-> "kernel", root |-> 0, tag |-> 0, vector |-> "kernel", sources |-> TRUE, status |-> TRUE,
   regs |-> Kernel, caught |-> {<<0, 0>>}]

NewPage ==
  [root |-> 0, vector |-> "none", sources |-> FALSE, status |-> FALSE, regs |-> {},
   file |-> {}, flags |-> FALSE, view |-> 0, tag |-> 0, flush |-> FALSE,
   fault |-> FALSE, call |-> 0, value |-> 0]

-----------------------------------------------------------------------------
(* Asids *)

NewAsids(width) == [width |-> width, next |-> 1, generation |-> 1]

AsidCapacity(asids) == 2^asids.width - 1

Wraps(asids) == asids.next > AsidCapacity(asids)

\* The next tag; past the last one the generation moves and the numbers start over, which
\* demands a flush before the tag is used.
Assign(asids) ==
  IF ~Wraps(asids)
  THEN [value |-> asids.next, flush |-> "Nothing", asids |-> [asids EXCEPT !.next = @ + 1]]
  ELSE LET value == IF AsidCapacity(asids) = 0 THEN 0 ELSE 1 IN
    [value |-> value, flush |-> "Everything",
     asids |-> [asids EXCEPT !.generation = @ + 1, !.next = value + 1]]

-----------------------------------------------------------------------------
(* Entering *)

\* The first entry: the register file and the reports cleared, then the context of this program.
Prepare(page, program, view, tag, width, status) ==
  [page EXCEPT !.file = {program}, !.fault = FALSE, !.call = 0, !.value = 0, !.view = view,
               !.tag = tag, !.flush = (width = 0), !.flags = status]

RiscvEnter ==
  <<"saveRoot", "saveVector", "saveStatus", "mask", "saveRegs", "trap", "status", "root", "fence", "regs",
    "leave">>

X86Enter == <<"mask", "saveRoot", "saveRegs", "frame", "root", "regs", "leave">>

EnterSteps(port) == IF port = "riscv" THEN RiscvEnter ELSE X86Enter

\* A `satp` write keeps what is cached; a `cr3` write drops what the new tag had.
SwitchRoot(port, hart, root, tag) ==
  [hart EXCEPT !.root = root, !.tag = tag,
               !.caught = {e \in @ : port = "riscv" \/ e[1] # tag} \cup {<<tag, root>>}]

Fence(hart, page) == IF page.flush THEN [hart EXCEPT !.caught = {<<hart.tag, hart.root>>}] ELSE hart

\* What one step of the way in leaves of the core and of the page.
EnterHart(port, step, hart, page) ==
  CASE step = "mask" -> [hart EXCEPT !.sources = FALSE]
    [] step = "trap" -> [hart EXCEPT !.vector = "gateway"]
    [] step = "status" -> [hart EXCEPT !.status = page.flags]
    [] step = "root" -> SwitchRoot(port, hart, page.view, page.tag)
    [] step = "fence" -> Fence(hart, page)
    [] step = "regs" -> [hart EXCEPT !.regs = page.file]
    [] step = "leave" /\ port = "riscv" -> [hart EXCEPT !.mode = "user", !.status = FALSE]
    [] step = "leave" /\ port = "x86" -> [hart EXCEPT !.mode = "user", !.sources = page.flags]
    [] OTHER -> hart

EnterPage(step, hart, page) ==
  CASE step = "mask" -> [page EXCEPT !.sources = hart.sources]
    [] step = "saveRoot" -> [page EXCEPT !.root = hart.root]
    [] step = "saveVector" -> [page EXCEPT !.vector = hart.vector]
    [] step = "saveStatus" -> [page EXCEPT !.status = hart.status]
    [] step = "saveRegs" -> [page EXCEPT !.regs = hart.regs]
    [] OTHER -> page

-----------------------------------------------------------------------------
(* Coming back *)

\* What the trap or the interrupt gate does before the gateway's first instruction.
Trapped(hart, program) ==
  [hart EXCEPT !.mode = "kernel", !.status = FALSE, !.regs = @ \cup {program}]

\* The path that ran decides what is reported, never a register the domain filled.
Report(page, exit) ==
  IF exit.fault THEN [page EXCEPT !.fault = TRUE]
  ELSE [page EXCEPT !.fault = FALSE, !.call = exit.call, !.value = exit.value]

\* Mutant: sources come back with the status word, before the registers.
RiscvReturnEarly ==
  <<"file", "root", "fence", "vector", "sources", "status", "regs", "resume">>

RiscvReturn == <<"file", "root", "fence", "vector", "status", "regs", "sources", "resume">>

X86Return == <<"file", "root", "regs", "sources", "resume">>

ReturnSteps(port) == IF port = "riscv" THEN RiscvReturn ELSE X86Return

ReturnHart(port, step, hart, page) ==
  CASE step = "root" -> SwitchRoot(port, hart, page.root, 0)
    [] step = "fence" -> Fence(hart, page)
    [] step = "vector" -> [hart EXCEPT !.vector = page.vector]
    [] step = "status" -> [hart EXCEPT !.status = page.status]
    [] step = "regs" -> [hart EXCEPT !.regs = page.regs]
    [] step = "sources" -> [hart EXCEPT !.sources = page.sources]
    [] OTHER -> hart

ReturnPage(step, hart, page, exit) ==
  IF step = "file" THEN Report([page EXCEPT !.file = hart.regs, !.flags = FALSE], exit) ELSE page

\* What `enter` tells the kernel of the reports.
Decoded(page) ==
  CASE page.fault -> [kind |-> "Fault", value |-> 0]
    [] page.call = 0 -> [kind |-> "Ring", value |-> 0]
    [] page.call = 1 -> [kind |-> "Exited", value |-> page.value]
    [] OTHER -> [kind |-> "Unknown", value |-> page.call]

-----------------------------------------------------------------------------
\* Whether an interrupt would be taken now. Below S-mode `sstatus.SIE` masks nothing.
Deliverable(port, hart) ==
  hart.sources /\ (port = "x86" \/ hart.mode = "user" \/ hart.status)

WholeKernel(hart) ==
  hart.mode = "kernel" /\ hart.root = 0 /\ hart.vector = "kernel" /\ hart.regs = Kernel

OwnTranslations(hart) == \A e \in hart.caught : e[1] = hart.tag => e[2] = hart.root
=============================================================================
