--------------------------- MODULE StorageService ---------------------------
(***************************************************************************)
(* The storage service, its one client and the two supervisors over them,  *)
(* as kernel/init.rs runs them: the filesystem behind a capability table   *)
(* and a ring (fs service.rs, sys/core capability.rs), the name it is      *)
(* published under (sys/core registry.rs), the shell's session             *)
(* (user/shell session.rs, shell.rs), and the hooks that end an epoch on   *)
(* either side (fs restart.rs, sys/core cell.rs).                          *)
(*                                                                         *)
(* One thread runs everything.  Between lines the service may restart or   *)
(* publish; a line is polled, with or without the service being served     *)
(* after each poll, until it finishes or its rounds run out; then the      *)
(* shell's supervisor looks at the clock.                                  *)
(*                                                                         *)
(* Two fields are not in the code: a handle carries the service epoch that *)
(* issued it, and a request or an answer carries whether it belongs to the *)
(* request awaited now (`mine`) instead of an id compared with the last.   *)
(***************************************************************************)
EXTENDS Integers, Sequences

CONSTANTS
    HANDLES,        \* slots of the filesystem's capability table
    RING,           \* requests the ring takes each way
    ROUNDS,         \* polls one line gets
    DEADLINE,       \* lines the shell may miss before it is restarted
    MaxGeneration,  \* bound: slot generations at which a line may open a name
    MaxEpochs,      \* bound: restarts of the service
    None

ASSUME Sized ==
    /\ HANDLES \in Nat \ {0, 1}
    /\ {RING, ROUNDS} \subseteq Nat \ {0}
    /\ {DEADLINE, MaxGeneration, MaxEpochs} \subseteq Nat

VARIABLES
    table,      \* Fs::open
    pending,    \* Fs::pending
    sealed,     \* Fs::sealed
    names,      \* the one slot of Registry<Storage, 1>
    epoch,      \* which life of the service this is
    sq, cq,     \* the ring
    shell,      \* the session and the command it is running
    line,       \* where init is, whether it serves this line, its polls so far
    lag,        \* tick - heartbeat of the shell's supervisor
    clean       \* no line was given up since the shell last (re)started

vars == <<table, pending, sealed, names, epoch, sq, cq, shell, line, lag, clean>>

-----------------------------------------------------------------------------
(* The capability table. *)

Slots == 1..HANDLES
Cap(i, g) == [slot |-> i, gen |-> g, epoch |-> epoch]

Valid(t, c) == t[c.slot].gen = c.gen /\ t[c.slot].object # None

FreeSlots(t) == {i \in Slots: t[i].object = None}
FirstFree(t) == CHOOSE i \in FreeSlots(t): \A j \in FreeSlots(t): i <= j

Insert(t, i, owner, object) ==
    [t EXCEPT ![i].object = object, ![i].owner = owner]

\* revoke and advance_generation.  A 32-bit generation does not wrap here.
Emptied(s) == [s EXCEPT !.object = None, !.gen = @ + 1]

Revoke(t, i) == [t EXCEPT ![i] = Emptied(@)]

RevokeOwner(t, owner) ==
    [i \in Slots |-> IF t[i].object # None /\ t[i].owner = owner
                     THEN Emptied(t[i]) ELSE t[i]]

New == [i \in Slots |-> [gen |-> 1, owner |-> None, object |-> None]]

-----------------------------------------------------------------------------
(* The filesystem behind it. *)

Names == {"docs", "file", "nowhere"}

Answer(r, result, cap) ==
    [kind |-> r.kind, result |-> result, cap |-> cap, mine |-> r.mine]

\* Fs::apply for the operations a shell sends; "use" is Stat, Entry or Read.
Opened(t, r) ==
    IF r.name = "nowhere"
    THEN [table |-> t, answer |-> Answer(r, "missing", None)]
    ELSE IF FreeSlots(t) = {}
    THEN [table |-> t, answer |-> Answer(r, "handles", None)]
    ELSE LET i == FirstFree(t) IN
         [table |-> Insert(t, i, "SHELL", r.name),
          answer |-> Answer(r, "ok", Cap(i, t[i].gen))]

Apply(t, r) ==
    IF ~Valid(t, r.cap) THEN [table |-> t, answer |-> Answer(r, "stale", None)]
    ELSE CASE r.kind = "open" -> Opened(t, r)
           [] r.kind = "use" -> [table |-> t, answer |-> Answer(r, "ok", None)]
           [] r.kind = "close" -> [table |-> Revoke(t, r.cap.slot),
                                   answer |-> Answer(r, "ok", None)]

Least(a, b) == IF a <= b THEN a ELSE b
Prefix(s, n) == SubSeq(s, 1, Least(n, Len(s)))

\* The operations applied in turn, with their answers in order.
Step(done, r) ==
    LET one == Apply(done.table, r) IN
    [table |-> one.table, answers |-> Append(done.answers, one.answer)]

Applied(rs) ==
    LET done[i \in 0..Len(rs)] ==
            IF i = 0 THEN [table |-> table, answers |-> <<>>] ELSE Step(done[i - 1], rs[i])
    IN  done[Len(rs)]

\* Fs::serve: the answer left over goes first; then operations are taken until
\* none is left or an answer finds the completion queue full and is kept.
Serve ==
    LET blocked == pending # None /\ Len(cq) = RING
        first == IF pending # None THEN Append(cq, pending) ELSE cq
        room == RING - Len(first)
        taken == Least(Len(sq), room + 1)
        done == Applied(Prefix(sq, taken))
    IN  IF blocked THEN UNCHANGED <<table, pending, sq, cq>>
        ELSE /\ table' = done.table
             /\ sq' = SubSeq(sq, taken + 1, Len(sq))
             /\ cq' = first \o Prefix(done.answers, room)
             /\ pending' = IF taken > room THEN done.answers[taken] ELSE None

\* Stopped::stop and Stopped::cancel: every request taken off the ring and
\* answered as far as there is room.
Cancelled ==
    LET told == [i \in DOMAIN sq |-> Answer(sq[i], "cancelled", None)] IN
    cq \o Prefix(told, RING - Len(cq))

\* Fs::root for the service's own cell.
Mint(t) == Insert(t, FirstFree(t), "FS", "root")

-----------------------------------------------------------------------------
(* The shell. *)

Quiet == [lease |-> None, command |-> None, name |-> None, cap |-> None,
          opened |-> FALSE, request |-> None]

Request(kind, cap, name) == [kind |-> kind, cap |-> cap, name |-> name, mine |-> TRUE]

\* Session::leased.
LeaseReads == shell.lease # None /\ names.mount # None /\ names.gen = shell.lease

OlderNot(ms) == ms

\* A request given up is older than any the session sends after it.
Older(ms) == [i \in DOMAIN ms |-> [ms[i] EXCEPT !.mine = FALSE]]

GiveUp ==
    /\ sq' = Older(sq)
    /\ cq' = Older(cq)
    /\ pending' = IF pending = None THEN None ELSE [pending EXCEPT !.mine = FALSE]

-----------------------------------------------------------------------------
(* Init: after `commit` closed the file and the root it had opened, and the *)
(* mount was published.                                                     *)

Init ==
    /\ table = Mint([i \in Slots |-> [New[i] EXCEPT !.gen = IF i <= 2 THEN 2 ELSE 1]])
    /\ pending = None
    /\ sealed = TRUE
    /\ epoch = 0
    /\ names = [gen |-> 1, mount |-> Cap(1, 2)]
    /\ sq = <<>> /\ cq = <<>>
    /\ shell = Quiet
    /\ line = [at |-> "between", served |-> FALSE, rounds |-> 0]
    /\ lag = 0
    /\ clean = TRUE

At(where) == line' = [line EXCEPT !.at = where]
Over(how) == line' = [at |-> how, served |-> FALSE, rounds |-> 0]

\* The hooks that end the service's epoch: what is on the ring is cancelled and
\* the publication withdrawn.
Teardown ==
    /\ sq' = <<>>
    /\ cq' = Cancelled
    /\ names' = [gen |-> names.gen + (IF names.mount # None THEN 1 ELSE 0), mount |-> None]

\* Fs::restart: an empty table, whose generations start over.
Remounted ==
    /\ table' = New /\ pending' = None /\ sealed' = FALSE
    /\ epoch' = epoch + 1

\* The requests of the old epoch are left on the ring.
RestartKeepsQueue(ok) ==
    /\ line.at = "between" /\ epoch < MaxEpochs
    /\ names' = [gen |-> names.gen + (IF names.mount # None THEN 1 ELSE 0), mount |-> None]
    /\ Remounted
    /\ UNCHANGED <<sq, cq, shell, line, lag, clean>>

\* Supervisor::restart of the service.  A remount that fails leaves the cell
\* Failed, and init returns.
Restart(ok) ==
    /\ line.at = "between" /\ epoch < MaxEpochs
    /\ Teardown
    /\ IF ok THEN Remounted /\ UNCHANGED line
       ELSE At("stopped") /\ UNCHANGED <<table, pending, sealed, epoch>>
    /\ UNCHANGED <<shell, lag, clean>>

\* Fs::publish: mint the root, seal, put the mount under its name.
Publish ==
    /\ line.at = "between" /\ ~sealed
    /\ FreeSlots(table) # {}
    /\ table' = Mint(table)
    /\ sealed' = TRUE
    /\ names' = [names EXCEPT !.mount = Cap(FirstFree(table), table[FirstFree(table)].gen)]
    /\ UNCHANGED <<pending, epoch, sq, cq, shell, line, lag, clean>>

\* The command line is split and Session::root read; without a mount the line
\* prints "no storage" and is over.
Begin(command, name, served) ==
    /\ line.at = "between"
    /\ name # None => \A i \in Slots: table[i].gen < MaxGeneration
    /\ IF names.mount = None
       THEN /\ shell' = Quiet
            /\ Over("finished")
       ELSE LET root == names.mount IN
            /\ shell' = [lease |-> IF LeaseReads THEN shell.lease ELSE names.gen,
                         command |-> command, name |-> name, cap |-> root, opened |-> FALSE,
                         request |-> Request(IF name = None THEN "use" ELSE "open", root, name)]
            /\ line' = [at |-> "poll", served |-> served, rounds |-> 0]
    /\ UNCHANGED <<table, pending, sealed, names, epoch, sq, cq, lag, clean>>

\* A line that asks storage nothing: `help`, or a command nobody knows.
Help ==
    /\ line.at = "between"
    /\ Over("finished")
    /\ UNCHANGED <<table, pending, sealed, names, epoch, sq, cq, shell, lag, clean>>

\* The shell sends another request, or ends the line.
Ask(kind) == shell' = [shell EXCEPT !.request = Request(kind, shell.cap, None)]
Done == shell' = [Quiet EXCEPT !.lease = shell.lease]

\* Both commands end by closing what they opened; `ls` of the root did not.
MustClose == shell.opened

\* The kind each command goes on with.
Wanted == [ls |-> "docs", cat |-> "file"]

\* What ls and cat make of the answer to the request they await.
Answered(c) ==
    \/ /\ c.result = "ok" /\ c.kind = "open"
       /\ shell' = [shell EXCEPT !.cap = c.cap, !.opened = TRUE,
                        !.request = Request(IF shell.name = Wanted[shell.command]
                                            THEN "use" ELSE "close", c.cap, None)]
       /\ At("poll")
    \/ /\ c.result = "ok" /\ c.kind = "use"
       /\ \/ Ask("use") /\ At("poll")
          \/ MustClose /\ Ask("close") /\ At("poll")
          \/ ~MustClose /\ Done /\ Over("finished")
    \/ /\ c.result = "ok" /\ c.kind = "close"
       /\ Done /\ Over("finished")
    \/ /\ c.result = "missing"
       /\ Done /\ Over("finished")
    \/ /\ c.result \in {"cancelled", "stale"}
       /\ shell' = Quiet /\ Over("finished")
    \/ /\ c.result = "handles"
       /\ shell' = Quiet /\ Over("failed")

\* One poll of Session::request: submit what was not submitted, then look at
\* one completion.  One older than the request awaited is skipped.
Poll ==
    LET unsent == shell.request # None
        refused == unsent /\ Len(sq) = RING
    IN
    /\ line.at = "poll" \/ (line.at = "again" /\ line.rounds < ROUNDS)
    /\ sq' = IF unsent /\ ~refused THEN Append(sq, shell.request) ELSE sq
    /\ IF refused \/ cq = <<>>
       THEN /\ shell' = IF refused THEN shell ELSE [shell EXCEPT !.request = None]
            /\ At("serve")
            /\ UNCHANGED cq
       ELSE /\ cq' = Tail(cq)
            /\ IF Head(cq).mine
               THEN Answered(Head(cq))
               ELSE shell' = [shell EXCEPT !.request = None] /\ At("serve")
    /\ UNCHANGED <<table, pending, sealed, names, epoch, lag, clean>>

\* The closure `drive_bounded` runs after every poll.
ServeLine ==
    /\ line.at = "serve"
    /\ IF line.served THEN Serve ELSE UNCHANGED <<table, pending, sq, cq>>
    /\ line' = [line EXCEPT !.at = "again", !.rounds = @ + 1]
    /\ UNCHANGED <<sealed, names, epoch, shell, lag, clean>>

\* The rounds ran out and the command is dropped where it stood.
Abandon ==
    /\ line.at = "again" /\ line.rounds = ROUNDS
    /\ GiveUp
    /\ Done
    /\ Over("missed")
    /\ clean' = FALSE
    /\ UNCHANGED <<table, sealed, names, epoch, lag>>

\* The shell returned an error it could not print, and init stops.
Fail ==
    /\ line.at = "failed"
    /\ At("stopped")
    /\ UNCHANGED <<table, pending, sealed, names, epoch, sq, cq, shell, lag, clean>>

\* The hooks that end the shell's epoch: its requests are taken off the ring and
\* its handles revoked.
Disconnect ==
    /\ sq' = <<>>
    /\ table' = RevokeOwner(table, "SHELL")

\* Session::reset: the lease goes, and so do the answers not taken.
Reset ==
    /\ cq' = <<>>
    /\ shell' = Quiet

\* The line is over: a heartbeat if it finished, and Supervisor::watch, whose
\* restart runs the hooks and then the session's reset.
Lag == IF line.at = "finished" THEN 0 ELSE lag + 1
Overdue == Lag > DEADLINE

Watch ==
    /\ line.at \in {"finished", "missed"}
    /\ IF Overdue
       THEN Disconnect /\ Reset /\ lag' = 0 /\ clean' = TRUE
       ELSE lag' = Lag /\ UNCHANGED <<table, sq, cq, shell, clean>>
    /\ At("between")
    /\ UNCHANGED <<pending, sealed, names, epoch>>

Next ==
    \/ \E ok \in BOOLEAN: Restart(ok)
    \/ Publish
    \/ Help
    \/ \E served \in BOOLEAN: Begin("ls", None, served)
    \/ \E command \in {"ls", "cat"}, name \in Names, served \in BOOLEAN:
            Begin(command, name, served)
    \/ Poll
    \/ ServeLine
    \/ Abandon
    \/ Fail
    \/ Watch

Spec == Init /\ [][Next]_vars

-----------------------------------------------------------------------------
(* Properties. *)

Caps == [slot: Slots, gen: Nat, epoch: 0..MaxEpochs]
Opt(S) == S \cup {None}
Requests == [kind: {"open", "use", "close"}, cap: Caps, name: Opt(Names), mine: BOOLEAN]
Answers == [kind: {"open", "use", "close"}, cap: Opt(Caps), mine: BOOLEAN,
            result: {"ok", "missing", "handles", "stale", "cancelled"}]

ASSUME Nothing ==
    /\ None \notin {"root", "docs", "file", "FS", "SHELL", "ls", "cat"}
    /\ None \notin Caps /\ None \notin Requests

\* Every queue and slot holds what the code's types allow, neither queue is
\* deeper than the ring, and the shell is never further behind than one line
\* past its deadline.
TypeOK ==
    /\ table \in [Slots -> [gen: Nat \ {0}, owner: {"FS", "SHELL", None},
                            object: {"root", "docs", "file", None}]]
    /\ pending \in Opt(Answers) /\ sealed \in BOOLEAN
    /\ names.gen \in Nat /\ names.mount \in Opt(Caps)
    /\ epoch \in 0..MaxEpochs
    /\ sq \in Seq(Requests) /\ Len(sq) <= RING
    /\ cq \in Seq(Answers) /\ Len(cq) <= RING
    /\ shell.cap \in Opt(Caps) /\ shell.request \in Opt(Requests)
    /\ line.at \in {"between", "poll", "serve", "again", "finished", "missed",
                    "failed", "stopped"}
    /\ line.served \in BOOLEAN /\ line.rounds \in 0..ROUNDS
    /\ lag \in 0..DEADLINE
    /\ clean \in BOOLEAN

\* "Every submission is answered": the requests on the ring and the answers
\* not yet taken always fit the completion queue together, however many lines
\* were given up, so a restart's cancellations are never dropped for want of
\* room and the service never has to hold an answer back.
AnswersFit ==
    /\ Len(sq) + Len(cq) <= RING
    /\ pending = None

\* A service epoch ends with its handles: no request on the ring, and nothing
\* the shell holds, names a live object through a handle that an earlier epoch
\* issued, though a remounted table issues the same numbers again.
HandlesEndWithEpoch ==
    \A c \in {sq[i].cap: i \in DOMAIN sq} \cup ({shell.cap} \ {None}):
        c.epoch # epoch => ~Valid(table, c)

\* A publication outlives its clients: while storage is published its root is
\* a live handle to the root directory of the service's own, whatever the
\* shell lost when it was restarted.
MountLive ==
    names.mount # None =>
        /\ Valid(table, names.mount)
        /\ table[names.mount.slot].object = "root"
        /\ names.mount.epoch = epoch

\* A command closes what it opened: as long as no line was given up, the shell
\* holds no handle between lines.
NothingLeftOpen ==
    line.at = "between" /\ clean =>
        \A i \in Slots: table[i].owner = "SHELL" => table[i].object = None

Mine(ms) == {i \in DOMAIN ms: ms[i].mine}

\* An answer the session takes for its own is the answer to the request it
\* awaits: at most one is anywhere, and only while a command waits for it.
OwnAnswer ==
    /\ \A i, j \in Mine(sq): i = j
    /\ \A i, j \in Mine(cq): i = j
    /\ Mine(sq) = {} \/ Mine(cq) = {}
    /\ Mine(sq) \cup Mine(cq) # {} => shell.command # None /\ shell.request = None

\* Handles are exactly as live as their owners: through given-up lines and
\* restarts of either side, one of an ended epoch names nothing, the published
\* root names the root, and a finished command leaves none behind (restart.rs,
\* service.rs, shell.rs).
HandlesLive == TypeOK /\ HandlesEndWithEpoch /\ MountLive /\ NothingLeftOpen

\* Every request is answered, to whoever asked and to nobody else, and there is
\* always room for the answer (service.rs, session.rs).
AnswersMatched == AnswersFit /\ OwnAnswer

=============================================================================
