------------------------ MODULE StorageServiceProofs ------------------------
(***************************************************************************)
(* The storage service and its shell, for every number of handles, every   *)
(* ring and every deadline, through any restarts and any lines given up.   *)
(***************************************************************************)
EXTENDS StorageService, Facts

Objects == {"root", "docs", "file"}
Slot == [gen: Nat \ {0}, owner: {"FS", "SHELL", None}, object: Objects \cup {None}]
Tables == [Slots -> Slot]

\* A handle to something the shell opened: it names that, or nothing any more.
Issued(t, c) ==
  /\ c.gen <= t[c.slot].gen
  /\ c.gen = t[c.slot].gen => t[c.slot].owner = "SHELL" /\ t[c.slot].object # None

\* A handle to a root the service minted for itself.
Rooted(t, c) ==
  t[c.slot].gen = c.gen /\ t[c.slot].object = "root" /\ t[c.slot].owner = "FS"

\* What the shell has open: nothing, or what c names and nothing else.
Theirs(t, i) == t[i].owner = "SHELL" /\ t[i].object # None
Bare(t) == \A i \in Slots : ~ Theirs(t, i)
Only(t, c) == Valid(t, c) /\ \A i \in Slots : Theirs(t, i) => i = c.slot
Holding(t, opened, c) == IF opened THEN Only(t, c) ELSE Bare(t)

-----------------------------------------------------------------------------
(* The invariant. *)

InLine == line.at \in {"poll", "serve", "again"}

Shells ==
  [lease: Opt(Nat), command: Opt({"ls", "cat"}), name: Opt(Names), cap: Opt(Caps),
   opened: BOOLEAN, request: Opt(Requests)]
Lines ==
  [at: {"between", "poll", "serve", "again", "finished", "missed", "failed", "stopped"},
   served: BOOLEAN, rounds: 0 .. ROUNDS]

Typed ==
  /\ table \in Tables /\ pending = None /\ sealed \in BOOLEAN
  /\ names \in [gen: Nat, mount: Opt(Caps)] /\ epoch \in 0 .. MaxEpochs
  /\ sq \in Seq(Requests) /\ cq \in Seq(Answers) /\ Len(sq) + Len(cq) <= RING
  /\ shell \in Shells /\ line \in Lines
  /\ line.at \in {"poll", "serve"} => line.rounds < ROUNDS
  /\ lag \in 0 .. DEADLINE /\ clean \in BOOLEAN

Mounted ==
  names.mount # None => Rooted(table, names.mount) /\ names.mount.epoch = epoch

\* A request on the ring is of this epoch and closes only what the shell opened.
Fair(t, r) ==
  /\ r.cap.epoch = epoch
  /\ r.kind = "close" => Issued(t, r.cap)
  /\ r.kind = "open" => r.name \in Names

\* What an answer opened is a handle of this epoch to it.
Given(t, c) ==
  c.kind = "open" /\ c.result = "ok" =>
    c.cap \in Caps /\ c.cap.epoch = epoch /\ Issued(t, c.cap)

Queued ==
  /\ \A i \in DOMAIN sq : Fair(table, sq[i])
  /\ \A i \in DOMAIN cq : cq[i].mine => Given(table, cq[i])

\* A request is about the handle the command is at.
Expected(r) ==
  /\ r.cap = shell.cap
  /\ r.kind = "close" => shell.opened
  /\ r.kind = "open" => ~ shell.opened

Unsent(r) ==
  r.mine /\ Expected(r) /\ (r.kind = "open" => r.name \in Names)

Running ==
  /\ names.mount # None
  /\ shell.command # None
  /\ shell.cap \in Caps /\ shell.cap.epoch = epoch
  /\ shell.opened => Issued(table, shell.cap)
  /\ ~ shell.opened => shell.cap = names.mount
  /\ shell.request # None => Unsent(shell.request)
  /\ line.at = "poll" => shell.request # None

Asking == IF InLine THEN Running ELSE shell = [Quiet EXCEPT !.lease = shell.lease]

\* As long as no line was given up, the one request is where the command thinks
\* it is, and the shell has open what the command knows of.
Outcome(c) ==
  \/ c.kind = "open" /\ ~ shell.opened /\ c.result = "ok" /\ Only(table, c.cap)
  \/ c.kind = "open" /\ ~ shell.opened /\ c.result \in {"missing", "handles"} /\ Bare(table)
  \/ c.kind = "use" /\ c.result = "ok" /\ Holding(table, shell.opened, shell.cap)
  \/ c.kind = "close" /\ c.result = "ok" /\ shell.opened /\ Bare(table)

InHand ==
  /\ shell.request # None /\ sq = <<>> /\ cq = <<>>
  /\ Holding(table, shell.opened, shell.cap)
Sent ==
  /\ shell.request = None /\ cq = <<>> /\ Len(sq) = 1
  /\ sq[1].mine /\ Expected(sq[1]) /\ Holding(table, shell.opened, shell.cap)
Back ==
  /\ shell.request = None /\ sq = <<>> /\ Len(cq) = 1
  /\ cq[1].mine /\ Outcome(cq[1])

Tidy ==
  clean => /\ line.at \in {"between", "finished"} => sq = <<>> /\ cq = <<>> /\ Bare(table)
           /\ line.at # "missed"
           /\ InLine => InHand \/ Sent \/ Back

IInv == Typed /\ Mounted /\ Queued /\ OwnAnswer /\ Asking /\ Tidy

-----------------------------------------------------------------------------
(* The capability table. *)

\* The fields of a slot and of a handle.
LEMMA SlotFields ==
  ASSUME NEW t \in Tables, NEW i \in Slots
  PROVE  /\ t[i] \in Slot /\ t[i].gen \in Nat /\ t[i].gen > 0
         /\ t[i].owner \in {"FS", "SHELL", None} /\ t[i].object \in Objects \cup {None}
BY DEF Tables, Slot

\* A handle of this epoch.
LEMMA CapFields ==
  ASSUME NEW c \in Caps
  PROVE  c.slot \in Slots /\ c.gen \in Nat /\ c.epoch \in 0 .. MaxEpochs
BY DEF Caps

\* insert: one slot gets an owner and an object and keeps its generation.
LEMMA Inserts ==
  ASSUME NEW t \in Tables, NEW i \in Slots, NEW o \in {"FS", "SHELL"},
         NEW x \in Objects \cup {None}
  PROVE  /\ Insert(t, i, o, x) \in Tables
         /\ Insert(t, i, o, x)[i] = [gen |-> t[i].gen, owner |-> o, object |-> x]
         /\ \A j \in Slots : j # i => Insert(t, i, o, x)[j] = t[j]
BY Zenon DEF Tables, Slot, Insert

\* A slot that lost its object and whose generation moved on.
Gone(s, old) == s.gen = old.gen + 1 /\ s.owner = old.owner /\ s.object = None

\* A slot emptied is free at its next generation.
LEMMA EmptiedSlot ==
  ASSUME NEW s \in Slot
  PROVE  Emptied(s) \in Slot /\ Gone(Emptied(s), s)
<1>1. Gone(Emptied(s), s)
  BY DEF Slot, Emptied, Gone
<1>2. s.gen + 1 \in Nat \ {0}
  BY DEF Slot
<1>3. Emptied(s) \in Slot
  BY <1>2, Zenon DEF Slot, Emptied
<1> QED
  BY <1>1, <1>3

\* revoke: one slot loses its object and its generation moves on.
LEMMA Revokes ==
  ASSUME NEW t \in Tables, NEW i \in Slots
  PROVE  /\ Revoke(t, i) \in Tables
         /\ Gone(Revoke(t, i)[i], t[i])
         /\ \A j \in Slots : j # i => Revoke(t, i)[j] = t[j]
<1>1. t[i] \in Slot
  BY DEF Tables
<1>2. Emptied(t[i]) \in Slot
  BY <1>1, EmptiedSlot
<1>3. Revoke(t, i) = [j \in Slots |-> IF j = i THEN Emptied(t[i]) ELSE t[j]]
  BY Zenon DEF Revoke, Tables
<1>4. Revoke(t, i) \in Tables
  BY <1>2, <1>3 DEF Tables
<1> QED
  BY <1>1, <1>3, <1>4, EmptiedSlot

\* revoke_owner: every slot of the owner's that names something does the same.
LEMMA RevokesOwner ==
  ASSUME NEW t \in Tables
  PROVE  /\ RevokeOwner(t, "SHELL") \in Tables
         /\ \A i \in Slots : Theirs(t, i) => Gone(RevokeOwner(t, "SHELL")[i], t[i])
         /\ \A i \in Slots : ~ Theirs(t, i) => RevokeOwner(t, "SHELL")[i] = t[i]
<1>1. RevokeOwner(t, "SHELL") = [i \in Slots |-> IF Theirs(t, i) THEN Emptied(t[i]) ELSE t[i]]
  BY DEF RevokeOwner, Theirs
<1>2. \A i \in Slots : t[i] \in Slot
  BY DEF Tables
<1>3. RevokeOwner(t, "SHELL") \in Tables
  BY <1>1, <1>2, EmptiedSlot DEF Tables
<1> QED
  BY <1>1, <1>2, <1>3, EmptiedSlot

\* A table only ever moves on: u has a slot as t had it, or has it opened, or
\* has it emptied under a new generation.
Moved(t, u, i) ==
  \/ u[i] = t[i]
  \/ t[i].object = None /\ u[i].object # None /\ u[i].gen = t[i].gen
  \/ u[i].object = None /\ u[i].owner = t[i].owner /\ u[i].gen = t[i].gen + 1

\* Through such a move a handle the shell was given stays one.
LEMMA MovedIssued ==
  ASSUME NEW t \in Tables, NEW u \in Tables, NEW c \in Caps, Moved(t, u, c.slot), Issued(t, c)
  PROVE  Issued(u, c)
<1>1. c.slot \in Slots /\ c.gen \in Nat
  BY CapFields
<1>2. t[c.slot].gen \in Nat /\ u[c.slot].gen \in Nat
  BY <1>1, SlotFields
<1> QED
  BY <1>1, <1>2 DEF Moved, Issued

\* A root stays one unless it is the slot that is emptied.
LEMMA MovedRooted ==
  ASSUME NEW t \in Tables, NEW u \in Tables, NEW c \in Caps, Moved(t, u, c.slot), Rooted(t, c),
         u[c.slot].object = None => t[c.slot].owner = "SHELL" \/ t[c.slot].object = None
  PROVE  Rooted(u, c)
<1>1. c.slot \in Slots /\ c.gen \in Nat
  BY CapFields
<1>2. t[c.slot].gen \in Nat /\ u[c.slot].gen \in Nat
  BY <1>1, SlotFields
<1>3. "root" # None
  BY Nothing
<1> QED
  BY <1>1, <1>2, <1>3 DEF Moved, Rooted

\* The slot insert takes is free.
LEMMA FirstIsFree ==
  ASSUME NEW t, FreeSlots(t) # {}
  PROVE  FirstFree(t) \in Slots /\ t[FirstFree(t)].object = None
<1>1. FreeSlots(t) \in SUBSET Nat
  BY Sized DEF FreeSlots, Slots
<1>2. \E i \in FreeSlots(t) : \A j \in FreeSlots(t) : i <= j
  BY <1>1, LeastElement
<1>3. FirstFree(t) \in FreeSlots(t)
  <2> DEFINE S == FreeSlots(t)
  <2> HIDE DEF S
  <2> QED BY <1>2 DEF FirstFree, S
<1> QED
  BY <1>3 DEF FreeSlots

-----------------------------------------------------------------------------
(* The operations of the filesystem. *)

\* From t to u no handle the shell was given is lost track of, and no root is
\* lost.
Carries(t, u) ==
  \A c \in Caps : (Issued(t, c) => Issued(u, c)) /\ (Rooted(t, c) => Rooted(u, c))

\* Filling a free slot takes no handle's object away.
LEMMA InsertCarries ==
  ASSUME NEW t \in Tables, NEW i \in Slots, t[i].object = None,
         NEW o \in {"FS", "SHELL"}, NEW x \in Objects
  PROVE  /\ Insert(t, i, o, x) \in Tables
         /\ Carries(t, Insert(t, i, o, x))
<1> DEFINE u == Insert(t, i, o, x)
<1>1. /\ u \in Tables
      /\ u[i] = [gen |-> t[i].gen, owner |-> o, object |-> x]
      /\ \A j \in Slots : j # i => u[j] = t[j]
  BY Inserts
<1>2. x # None
  BY Nothing DEF Objects
<1> HIDE DEF u
<1>3. ASSUME NEW c \in Caps PROVE Moved(t, u, c.slot)
  BY <1>1, <1>2, CapFields DEF Moved
<1>4. ASSUME NEW c \in Caps, u[c.slot].object = None PROVE t[c.slot].object = None
  BY <1>1, <1>2, <1>4, CapFields
<1>5. Carries(t, u)
  BY <1>1, <1>3, <1>4, MovedIssued, MovedRooted DEF Carries
<1> QED
  BY <1>1, <1>5 DEF u

\* Opening: the handle given is the shell's, and the only one if it had none.
LEMMA OpenGives ==
  ASSUME NEW t \in Tables, NEW i \in Slots, t[i].object = None, NEW x \in Objects,
         epoch \in 0 .. MaxEpochs
  PROVE  /\ Cap(i, t[i].gen) \in Caps /\ Cap(i, t[i].gen).epoch = epoch
         /\ Issued(Insert(t, i, "SHELL", x), Cap(i, t[i].gen))
         /\ Bare(t) => Only(Insert(t, i, "SHELL", x), Cap(i, t[i].gen))
<1> DEFINE u == Insert(t, i, "SHELL", x)
           c == Cap(i, t[i].gen)
<1>1. /\ u \in Tables
      /\ u[i] = [gen |-> t[i].gen, owner |-> "SHELL", object |-> x]
      /\ \A j \in Slots : j # i => u[j] = t[j]
  BY Inserts
<1>2. x # None
  BY Nothing DEF Objects
<1>3. t[i].gen \in Nat
  BY SlotFields
<1>4. c \in Caps /\ c.epoch = epoch /\ c.slot = i /\ c.gen = t[i].gen
  BY <1>3 DEF Cap, Caps
<1> HIDE DEF u, c
<1>5. Issued(u, c)
  BY <1>1, <1>2, <1>3, <1>4 DEF Issued
<1>6. ASSUME Bare(t) PROVE Only(u, c)
  BY <1>1, <1>2, <1>4, <1>6 DEF Bare, Only, Theirs, Valid
<1> QED
  BY <1>4, <1>5, <1>6 DEF u, c

\* Fs::root: the handle minted is a root's, and the shell has no more than before.
LEMMA MintGives ==
  ASSUME NEW t \in Tables, NEW i \in Slots, t[i].object = None, epoch \in 0 .. MaxEpochs
  PROVE  /\ Cap(i, t[i].gen) \in Caps /\ Cap(i, t[i].gen).epoch = epoch
         /\ Rooted(Insert(t, i, "FS", "root"), Cap(i, t[i].gen))
         /\ Bare(t) => Bare(Insert(t, i, "FS", "root"))
<1> DEFINE u == Insert(t, i, "FS", "root")
           c == Cap(i, t[i].gen)
<1>0. "root" \in Objects \cup {None} /\ "FS" \in {"FS", "SHELL"}
  BY DEF Objects
<1>1. /\ u \in Tables
      /\ u[i] = [gen |-> t[i].gen, owner |-> "FS", object |-> "root"]
      /\ \A j \in Slots : j # i => u[j] = t[j]
  BY <1>0, Inserts
<1>2. t[i].gen \in Nat
  BY SlotFields
<1>3. c \in Caps /\ c.epoch = epoch /\ c.slot = i /\ c.gen = t[i].gen
  BY <1>2 DEF Cap, Caps
<1> HIDE DEF u, c
<1>4. Rooted(u, c)
  BY <1>1, <1>3 DEF Rooted
<1>5. ASSUME Bare(t) PROVE Bare(u)
  BY <1>1, <1>5 DEF Bare, Theirs
<1> QED
  BY <1>3, <1>4, <1>5 DEF u, c

\* Closing what the shell was given: it is gone, and nothing of anybody else's.
LEMMA CloseTakes ==
  ASSUME NEW t \in Tables, NEW c \in Caps, Valid(t, c), Issued(t, c)
  PROVE  /\ Revoke(t, c.slot) \in Tables
         /\ Carries(t, Revoke(t, c.slot))
         /\ Only(t, c) => Bare(Revoke(t, c.slot))
<1> DEFINE u == Revoke(t, c.slot)
<1>0. c.slot \in Slots
  BY CapFields
<1>1. /\ u \in Tables
      /\ Gone(u[c.slot], t[c.slot])
      /\ \A j \in Slots : j # c.slot => u[j] = t[j]
  BY <1>0, Revokes
<1>2. t[c.slot].owner = "SHELL"
  BY DEF Valid, Issued
<1> HIDE DEF u
<1>3. ASSUME NEW d \in Caps PROVE Moved(t, u, d.slot)
  BY <1>0, <1>1, CapFields DEF Moved, Gone
<1>4. ASSUME NEW d \in Caps, u[d.slot].object = None
      PROVE  t[d.slot].owner = "SHELL" \/ t[d.slot].object = None
  BY <1>1, <1>2, <1>4, CapFields
<1>5. Carries(t, u)
  BY <1>1, <1>3, <1>4, MovedIssued, MovedRooted DEF Carries
<1>6. ASSUME Only(t, c) PROVE Bare(u)
  BY <1>0, <1>1, <1>6 DEF Only, Bare, Theirs, Gone
<1> QED
  BY <1>1, <1>5, <1>6 DEF u

\* revoke_owner: the shell has nothing left, and the service all that it had.
LEMMA OwnerLoses ==
  ASSUME NEW t \in Tables
  PROVE  /\ RevokeOwner(t, "SHELL") \in Tables
         /\ Carries(t, RevokeOwner(t, "SHELL"))
         /\ Bare(RevokeOwner(t, "SHELL"))
<1> DEFINE u == RevokeOwner(t, "SHELL")
<1>1. /\ u \in Tables
      /\ \A i \in Slots : Theirs(t, i) => Gone(u[i], t[i])
      /\ \A i \in Slots : ~ Theirs(t, i) => u[i] = t[i]
  BY RevokesOwner
<1> HIDE DEF u
<1>2. ASSUME NEW d \in Caps PROVE Moved(t, u, d.slot)
  <2>1. d.slot \in Slots
    BY CapFields
  <2>2. CASE Theirs(t, d.slot)
    BY <1>1, <2>1, <2>2 DEF Moved, Gone
  <2>3. CASE ~ Theirs(t, d.slot)
    BY <1>1, <2>1, <2>3 DEF Moved
  <2> QED BY <2>2, <2>3
<1>3. ASSUME NEW d \in Caps, u[d.slot].object = None
      PROVE  t[d.slot].owner = "SHELL" \/ t[d.slot].object = None
  BY <1>1, <1>3, CapFields DEF Theirs
<1>4. Carries(t, u)
  BY <1>1, <1>2, <1>3, MovedIssued, MovedRooted DEF Carries
<1>5. Bare(u)
  <2> SUFFICES ASSUME NEW i \in Slots PROVE ~ Theirs(u, i)
    BY DEF Bare
  <2>1. CASE Theirs(t, i)
    <3>1. u[i].object = None
      BY <1>1, <2>1 DEF Gone
    <3> QED BY <3>1 DEF Theirs
  <2>2. CASE ~ Theirs(t, i)
    BY <1>1, <2>2 DEF Theirs
  <2> QED BY <2>1, <2>2
<1> QED
  BY <1>1, <1>4, <1>5 DEF u

\* What an operation answers: it is the request's answer, and a handle it gives is
\* one of the shell's.
Replied(r, u, a) ==
  a \in Answers /\ a.kind = r.kind /\ a.mine = r.mine /\ Given(u, a)

\* What it answers when the handle it names is live, and what the shell has open
\* then.
Result(t, r, u, a) ==
  \/ a.kind = "open" /\ a.result = "ok" /\ (Bare(t) => Only(u, a.cap))
  \/ a.kind = "open" /\ a.result \in {"missing", "handles"} /\ u = t
  \/ a.kind = "use" /\ a.result = "ok" /\ u = t
  \/ a.kind = "close" /\ a.result = "ok" /\ (Only(t, r.cap) => Bare(u))

Served(t, r, u, a) ==
  /\ u \in Tables /\ Carries(t, u) /\ Replied(r, u, a)
  /\ Valid(t, r.cap) => Result(t, r, u, a)

\* The fields of a request.
LEMMA RequestFields ==
  ASSUME NEW r \in Requests
  PROVE  /\ r.kind \in {"open", "use", "close"} /\ r.cap \in Caps
         /\ r.name \in Opt(Names) /\ r.mine \in BOOLEAN
BY DEF Requests

\* The answer to a request carries its kind and whose it is.
LEMMA AnswerFields ==
  ASSUME NEW r \in Requests, NEW x \in {"ok", "missing", "handles", "stale", "cancelled"},
         NEW c \in Opt(Caps)
  PROVE  /\ Answer(r, x, c) \in Answers
         /\ Answer(r, x, c).kind = r.kind /\ Answer(r, x, c).mine = r.mine
         /\ Answer(r, x, c).result = x /\ Answer(r, x, c).cap = c
BY RequestFields DEF Answer, Answers

\* Fs::apply, for every table and every request of this epoch.
LEMMA ApplyServes ==
  ASSUME NEW t \in Tables, NEW r \in Requests, Fair(t, r), epoch \in 0 .. MaxEpochs
  PROVE  Served(t, r, Apply(t, r).table, Apply(t, r).answer)
<1> DEFINE a == Apply(t, r)
<1>0. /\ r.kind \in {"open", "use", "close"} /\ r.cap \in Caps /\ None \in Opt(Caps)
  BY RequestFields DEF Opt
<1>1. Carries(t, t)
  BY DEF Carries
<1>2. CASE ~ Valid(t, r.cap)
  <2>1. a = [table |-> t, answer |-> Answer(r, "stale", None)]
    BY <1>2 DEF Apply
  <2> DEFINE b == Answer(r, "stale", None)
  <2>2. /\ b \in Answers /\ b.kind = r.kind /\ b.mine = r.mine /\ b.result = "stale"
    BY <1>0, AnswerFields
  <2>3. a.table = t /\ a.answer = b
    BY <2>1
  <2> HIDE DEF a, b
  <2>4. Replied(r, t, b)
    BY <2>2 DEF Replied, Given
  <2> QED
    BY <1>1, <1>2, <2>3, <2>4 DEF Served, a
<1>3. CASE Valid(t, r.cap) /\ r.kind = "use"
  <2>1. a = [table |-> t, answer |-> Answer(r, "ok", None)]
    BY <1>3 DEF Apply
  <2> DEFINE b == Answer(r, "ok", None)
  <2>2. /\ b \in Answers /\ b.kind = r.kind /\ b.mine = r.mine /\ b.result = "ok"
    BY <1>0, AnswerFields
  <2>3. a.table = t /\ a.answer = b
    BY <2>1
  <2> HIDE DEF a, b
  <2>4. Replied(r, t, b)
    BY <1>3, <2>2 DEF Replied, Given
  <2>5. Result(t, r, t, b)
    BY <1>3, <2>2 DEF Result
  <2> QED
    BY <1>1, <2>3, <2>4, <2>5 DEF Served, a
<1>4. CASE Valid(t, r.cap) /\ r.kind = "close"
  <2>1. a = [table |-> Revoke(t, r.cap.slot), answer |-> Answer(r, "ok", None)]
    BY <1>4 DEF Apply
  <2> DEFINE b == Answer(r, "ok", None)
             u == Revoke(t, r.cap.slot)
  <2>2. /\ b \in Answers /\ b.kind = r.kind /\ b.mine = r.mine /\ b.result = "ok"
    BY <1>0, AnswerFields
  <2>3. a.table = u /\ a.answer = b
    BY <2>1
  <2>4. u \in Tables /\ Carries(t, u) /\ (Only(t, r.cap) => Bare(u))
    BY <1>0, <1>4, CloseTakes DEF Fair
  <2> HIDE DEF a, b, u
  <2>5. Replied(r, u, b)
    BY <1>4, <2>2 DEF Replied, Given
  <2>6. Result(t, r, u, b)
    BY <1>4, <2>2, <2>4 DEF Result
  <2> QED
    BY <2>3, <2>4, <2>5, <2>6 DEF Served, a
<1>5. CASE Valid(t, r.cap) /\ r.kind = "open"
  <2>0. a = Opened(t, r)
    BY <1>5 DEF Apply
  <2>1. r.name \in Names
    BY <1>5 DEF Fair
  <2>2. ASSUME NEW x \in {"missing", "handles"}, a = [table |-> t, answer |-> Answer(r, x, None)]
        PROVE  Served(t, r, a.table, a.answer)
    <3> DEFINE b == Answer(r, x, None)
    <3>1. /\ b \in Answers /\ b.kind = r.kind /\ b.mine = r.mine /\ b.result = x
      BY <1>0, AnswerFields
    <3>2. a.table = t /\ a.answer = b
      BY <2>2
    <3> HIDE DEF a, b
    <3>3. Replied(r, t, b)
      BY <3>1 DEF Replied, Given
    <3>4. Result(t, r, t, b)
      BY <1>5, <3>1 DEF Result
    <3> QED
      BY <1>1, <3>2, <3>3, <3>4 DEF Served
  <2>3. CASE r.name = "nowhere"
    BY <2>0, <2>2, <2>3 DEF Opened
  <2>4. CASE r.name # "nowhere" /\ FreeSlots(t) = {}
    BY <2>0, <2>2, <2>4 DEF Opened
  <2>5. CASE r.name # "nowhere" /\ FreeSlots(t) # {}
    <3> DEFINE i == FirstFree(t)
               c == Cap(i, t[i].gen)
               u == Insert(t, i, "SHELL", r.name)
               b == Answer(r, "ok", c)
    <3>1. i \in Slots /\ t[i].object = None
      BY <2>5, FirstIsFree
    <3>2. r.name \in Objects
      BY <2>1, <2>5 DEF Names, Objects
    <3>3. a = [table |-> u, answer |-> b]
      BY <2>0, <2>5 DEF Opened
    <3>4. a.table = u /\ a.answer = b
      BY <3>3
    <3> HIDE DEF i, a
    <3>5. u \in Tables /\ Carries(t, u)
      BY <3>1, <3>2, InsertCarries
    <3>6. c \in Caps /\ c.epoch = epoch /\ Issued(u, c) /\ (Bare(t) => Only(u, c))
      BY <3>1, <3>2, OpenGives
    <3> HIDE DEF c, u
    <3>7. /\ b \in Answers /\ b.kind = r.kind /\ b.mine = r.mine /\ b.result = "ok" /\ b.cap = c
      BY <3>6, AnswerFields DEF Opt
    <3> HIDE DEF b
    <3>8. Replied(r, u, b)
      BY <3>6, <3>7 DEF Replied, Given
    <3>9. Result(t, r, u, b)
      BY <1>5, <3>6, <3>7 DEF Result
    <3> QED
      BY <3>4, <3>5, <3>8, <3>9 DEF Served, a
  <2> QED
    BY <2>3, <2>4, <2>5
<1> QED
  BY <1>0, <1>2, <1>3, <1>4, <1>5

\* Fs::apply keeps the table's type, whatever it is asked.
LEMMA ApplyTyped ==
  ASSUME NEW t \in Tables, NEW r \in Requests, epoch \in 0 .. MaxEpochs
  PROVE  Apply(t, r).table \in Tables /\ Apply(t, r).answer \in Answers
<1>0. /\ r.kind \in {"open", "use", "close"} /\ r.cap \in Caps /\ r.name \in Opt(Names)
      /\ None \in Opt(Caps) /\ r.cap.slot \in Slots
  BY RequestFields, CapFields DEF Opt
<1>1. ASSUME NEW x \in {"ok", "missing", "handles", "stale", "cancelled"}
      PROVE  Answer(r, x, None) \in Answers
  BY <1>0, AnswerFields
<1>2. Revoke(t, r.cap.slot) \in Tables
  BY <1>0, Revokes
<1>3. Opened(t, r).table \in Tables /\ Opened(t, r).answer \in Answers
  <2>1. CASE r.name = "nowhere" \/ FreeSlots(t) = {}
    BY <1>1, <2>1 DEF Opened
  <2>2. CASE r.name # "nowhere" /\ FreeSlots(t) # {}
    <3> DEFINE i == FirstFree(t)
    <3>1. i \in Slots /\ t[i].object = None
      BY <2>2, FirstIsFree
    <3>2. r.name \in Objects \cup {None}
      BY <1>0, <2>2 DEF Names, Objects, Opt
    <3>3. Opened(t, r) = [table |-> Insert(t, i, "SHELL", r.name),
                          answer |-> Answer(r, "ok", Cap(i, t[i].gen))]
      BY <2>2 DEF Opened
    <3> HIDE DEF i
    <3>4. Insert(t, i, "SHELL", r.name) \in Tables
      BY <3>1, <3>2, Inserts, Zenon
    <3>5. Cap(i, t[i].gen) \in Opt(Caps)
      BY <3>1, SlotFields DEF Cap, Caps, Opt
    <3>6. Answer(r, "ok", Cap(i, t[i].gen)) \in Answers
      BY <3>5, AnswerFields
    <3> QED
      BY <3>3, <3>4, <3>6
  <2> QED
    BY <2>1, <2>2
<1>4. CASE ~ Valid(t, r.cap)
  BY <1>1, <1>4 DEF Apply
<1>5. CASE Valid(t, r.cap) /\ r.kind = "open"
  <2>1. Apply(t, r) = Opened(t, r)
    BY <1>5 DEF Apply
  <2> QED BY <1>3, <2>1
<1>6. CASE Valid(t, r.cap) /\ r.kind = "use"
  BY <1>1, <1>6 DEF Apply
<1>7. CASE Valid(t, r.cap) /\ r.kind = "close"
  BY <1>1, <1>2, <1>7 DEF Apply
<1> QED
  BY <1>0, <1>4, <1>5, <1>6, <1>7

Batch == [table: Tables, answers: Seq(Answers)]
Fresh == [table |-> table, answers |-> <<>>]

\* The batch serve applies is the requests one after the other.
LEMMA AppliedRuns ==
  ASSUME NEW rs \in Seq(Requests), table \in Tables, epoch \in 0 .. MaxEpochs
  PROVE  \E f : /\ f[0] = Fresh
                /\ \A i \in 1 .. Len(rs) : f[i] = Step(f[i - 1], rs[i])
                /\ Applied(rs) = f[Len(rs)]
<1> DEFINE n == Len(rs)
           Ext(i, q) == Step(q, rs[i])
           Body(f) == [i \in 0 .. n |-> IF i = 0 THEN Fresh ELSE Ext(i, f[i - 1])]
           F == CHOOSE f : f = Body(f)
           g == [i \in 1 .. n |-> [q \in Batch |-> Ext(i, q)]]
<1>0. n \in Nat /\ Fresh \in Batch
  BY DEF Fresh, Batch
<1>1. \A i \in 1 .. n, q \in Batch : Ext(i, q) \in Batch
  <2> SUFFICES ASSUME NEW i \in 1 .. n, NEW q \in Batch PROVE Step(q, rs[i]) \in Batch
    OBVIOUS
  <2>1. rs[i] \in Requests
    OBVIOUS
  <2>2. ASSUME NEW r \in Requests PROVE Step(q, r) \in Batch
    <3>1. q.table \in Tables /\ q.answers \in Seq(Answers)
      BY DEF Batch
    <3>2. Apply(q.table, r).table \in Tables /\ Apply(q.table, r).answer \in Answers
      BY <3>1, ApplyTyped
    <3> QED
      BY <3>1, <3>2 DEF Step, Batch
  <2> QED
    BY <2>1, <2>2
<1>2. Applied(rs) = F[n]
  BY DEF Applied, Fresh
<1> HIDE DEF n, Ext
<1>4. PICK f \in [0 .. n -> Batch] :
        f[0] = Fresh /\ \A i \in 1 .. n : f[i] = g[i][f[i - 1]]
  <2>1. Fresh \in Batch
    BY <1>0
  <2>2. \A i \in 1 .. n : \A q \in Batch : g[i][q] \in Batch
    BY <1>1
  <2> HIDE DEF g
  <2>3. Iterable(Batch, n, Fresh, g)
    BY <1>0, <2>1, <2>2, Iterates
  <2> QED
    BY <2>3, Zenon DEF Iterable
<1>5. f = Body(f)
  <2>1. ASSUME NEW i \in 1 .. n PROVE f[i] = Ext(i, f[i - 1])
    <3>1. f[i - 1] \in Batch
      BY <1>0
    <3>2. g[i][f[i - 1]] = Ext(i, f[i - 1])
      BY <3>1
    <3> QED
      BY <1>4, <3>2
  <2>2. ASSUME NEW i \in 0 .. n PROVE f[i] = Body(f)[i]
    BY <1>0, <1>4, <2>1
  <2> QED
    BY <2>2
<1>6. F = Body(F)
  <2> HIDE DEF Body
  <2> QED
    BY <1>5
<1> HIDE DEF F
<1>7. F[0] = Fresh /\ \A i \in 1 .. n : F[i] = Ext(i, F[i - 1])
  BY <1>0, <1>6
<1> QED
  BY <1>2, <1>7 DEF n, Ext

\* After i requests: each is answered in its turn, and everything carried along.
Through(rs, i, q) ==
  /\ q.table \in Tables /\ Carries(table, q.table)
  /\ q.answers \in Seq(Answers) /\ Len(q.answers) = i
  /\ \A k \in 1 .. i : Replied(rs[k], q.table, q.answers[k])

\* One more operation of a batch keeps what the batch has shown so far.
LEMMA StepThrough ==
  ASSUME NEW rs \in Seq(Requests), NEW i \in 0 .. Len(rs) - 1, NEW q, Through(rs, i, q),
         Fair(table, rs[i + 1]), epoch \in 0 .. MaxEpochs
  PROVE  Through(rs, i + 1, Step(q, rs[i + 1]))
<1> DEFINE r == rs[i + 1]
           u == Apply(q.table, r).table
           a == Apply(q.table, r).answer
<1>0. Len(rs) \in Nat /\ i \in Nat /\ i + 1 \in 1 .. Len(rs) /\ r \in Requests
  OBVIOUS
<1>1. /\ q.table \in Tables /\ Carries(table, q.table)
      /\ q.answers \in Seq(Answers) /\ Len(q.answers) = i
      /\ \A k \in 1 .. i : Replied(rs[k], q.table, q.answers[k])
  BY DEF Through
<1> HIDE DEF r
<1>2. Fair(q.table, r)
  BY <1>0, <1>1, RequestFields DEF Fair, Carries, r
<1>3. Served(q.table, r, u, a)
  BY <1>0, <1>1, <1>2, ApplyServes
<1>4. Step(q, r).table = u /\ Step(q, r).answers = Append(q.answers, a)
  BY DEF Step
<1> HIDE DEF u, a
<1>5. u \in Tables /\ Carries(q.table, u) /\ Replied(r, u, a) /\ a \in Answers
  BY <1>3 DEF Served, Replied
<1>6. Carries(table, u)
  BY <1>1, <1>5 DEF Carries
<1> DEFINE as == Append(q.answers, a)
<1>7. as \in Seq(Answers) /\ Len(as) = i + 1 /\ as[i + 1] = a
      /\ \A k \in 1 .. i : as[k] = q.answers[k]
  BY <1>0, <1>1, <1>5
<1> HIDE DEF as
<1>8. ASSUME NEW k \in 1 .. i + 1 PROVE Replied(rs[k], u, as[k])
  <2>1. CASE k = i + 1
    BY <1>5, <1>7, <2>1, Zenon DEF r
  <2>2. CASE k # i + 1
    <3>1. k \in 1 .. i
      BY <1>0, <2>2
    <3>2. Replied(rs[k], q.table, q.answers[k])
      BY <1>1, <3>1
    <3>3. Replied(rs[k], u, q.answers[k])
      BY <1>5, <3>2 DEF Replied, Given, Carries
    <3> QED
      BY <1>7, <3>1, <3>3, Zenon
  <2> QED BY <2>1, <2>2, Zenon
<1>9. Through(rs, i + 1, Step(q, r))
  BY <1>4, <1>5, <1>6, <1>7, <1>8 DEF Through, as
<1> QED
  BY <1>9 DEF r

\* Fs::serve's batch, for any queue of requests of this epoch.
LEMMA AppliedThrough ==
  ASSUME NEW rs \in Seq(Requests), \A i \in 1 .. Len(rs) : Fair(table, rs[i]),
         table \in Tables, epoch \in 0 .. MaxEpochs
  PROVE  Through(rs, Len(rs), Applied(rs))
<1>1. PICK f : /\ f[0] = Fresh
               /\ \A i \in 1 .. Len(rs) : f[i] = Step(f[i - 1], rs[i])
               /\ Applied(rs) = f[Len(rs)]
  BY AppliedRuns
<1> DEFINE B == {i \in 0 .. Len(rs) : Through(rs, i, f[i])}
<1>2. Len(rs) \in Nat
  OBVIOUS
<1>3. 0 \in B
  <2>1. Fresh.table = table /\ Fresh.answers = <<>> /\ <<>> \in Seq(Answers) /\ Len(<<>>) = 0
    BY DEF Fresh
  <2>2. Carries(table, table)
    BY DEF Carries
  <2>3. 1 .. 0 = {} /\ 0 \in 0 .. Len(rs)
    BY <1>2
  <2>4. Through(rs, 0, Fresh)
    BY <2>1, <2>2, <2>3 DEF Through
  <2> QED
    BY <1>1, <2>3, <2>4, Zenon
<1>4. ASSUME NEW i \in 0 .. Len(rs) - 1, i \in B PROVE i + 1 \in B
  <2>1. i + 1 \in 1 .. Len(rs) /\ i + 1 \in 0 .. Len(rs) /\ (i + 1) - 1 = i
    BY <1>2
  <2>2. Through(rs, i, f[i])
    BY <1>4, Zenon
  <2>3. Through(rs, i + 1, Step(f[i], rs[i + 1]))
    BY <2>1, <2>2, StepThrough, Zenon
  <2>4. f[i + 1] = Step(f[(i + 1) - 1], rs[i + 1])
    BY <1>1, <2>1, Zenon
  <2>5. f[i + 1] = Step(f[i], rs[i + 1])
    BY <2>1, <2>4, Zenon
  <2> QED
    BY <2>1, <2>3, <2>5, Zenon
<1>5. \A i \in 0 .. Len(rs) : i \in B
  <2> HIDE DEF B
  <2> QED
    BY <1>2, <1>3, <1>4, Induction, Zenon
<1>6. Len(rs) \in 0 .. Len(rs)
  BY <1>2
<1> QED
  BY <1>1, <1>5, <1>6, Zenon

\* A batch of one request is that request's application.
LEMMA AppliedOnce ==
  ASSUME NEW rs \in Seq(Requests), Len(rs) = 1, table \in Tables, epoch \in 0 .. MaxEpochs
  PROVE  /\ Applied(rs).table = Apply(table, rs[1]).table
         /\ Applied(rs).answers = <<Apply(table, rs[1]).answer>>
<1>1. PICK f : /\ f[0] = Fresh
               /\ \A i \in 1 .. Len(rs) : f[i] = Step(f[i - 1], rs[i])
               /\ Applied(rs) = f[Len(rs)]
  BY AppliedRuns
<1>2. 1 \in 1 .. Len(rs) /\ 1 - 1 = 0
  OBVIOUS
<1>3. Applied(rs) = Step(Fresh, rs[1])
  BY <1>1, <1>2
<1>4. Fresh.table = table /\ Fresh.answers = <<>>
  BY DEF Fresh
<1> DEFINE a == Apply(table, rs[1]).answer
<1>5. Append(<<>>, a) = <<a>>
  OBVIOUS
<1> QED
  BY <1>3, <1>4, <1>5 DEF Step

\* A batch of none leaves everything as it was.
LEMMA AppliedNone ==
  ASSUME NEW rs \in Seq(Requests), Len(rs) = 0, table \in Tables, epoch \in 0 .. MaxEpochs
  PROVE  Applied(rs).table = table /\ Applied(rs).answers = <<>>
<1>1. PICK f : f[0] = Fresh /\ Applied(rs) = f[Len(rs)]
  BY AppliedRuns, Zenon
<1> QED
  BY <1>1 DEF Fresh

-----------------------------------------------------------------------------
(* The steps. *)

\* zs is xs followed by ys.
Joined(zs, xs, ys) ==
  /\ zs \in Seq(Answers) /\ Len(zs) = Len(xs) + Len(ys)
  /\ \A i \in 1 .. Len(xs) : zs[i] = xs[i]
  /\ \A i \in Len(xs) + 1 .. Len(xs) + Len(ys) : zs[i] = ys[i - Len(xs)]

\* A concatenation of sequences is one in this sense.
LEMMA Joins ==
  ASSUME NEW xs \in Seq(Answers), NEW ys \in Seq(Answers), NEW zs, zs = xs \o ys
  PROVE  Joined(zs, xs, ys)
BY DEF Joined

\* With room for every answer, serve takes and answers every request.
LEMMA ServeTakes ==
  ASSUME Typed, \A i \in 1 .. Len(sq) : Fair(table, sq[i]), Serve
  PROVE  /\ table' = Applied(sq).table /\ pending' = None /\ sq' = <<>>
         /\ cq' = cq \o Applied(sq).answers
<1>0. /\ sq \in Seq(Requests) /\ cq \in Seq(Answers) /\ Len(sq) \in Nat /\ Len(cq) \in Nat
      /\ Len(sq) + Len(cq) <= RING /\ RING \in Nat /\ pending = None
      /\ table \in Tables /\ epoch \in 0 .. MaxEpochs
  BY Sized DEF Typed
<1>1. SubSeq(sq, 1, Len(sq)) = sq
  BY <1>0
<1>2. SubSeq(sq, Len(sq) + 1, Len(sq)) = <<>>
  BY <1>0
<1>3. /\ Least(Len(sq), RING - Len(cq) + 1) = Len(sq)
      /\ Least(Len(sq), Len(sq)) = Len(sq) /\ Least(RING - Len(cq), Len(sq)) = Len(sq)
  BY <1>0 DEF Least
<1>4. Prefix(sq, Len(sq)) = sq
  BY <1>1, <1>3 DEF Prefix
<1>5. Through(sq, Len(sq), Applied(sq))
  BY <1>0, AppliedThrough
<1> DEFINE as == Applied(sq).answers
<1>6. as \in Seq(Answers) /\ Len(as) = Len(sq)
  BY <1>5 DEF Through
<1>7. SubSeq(as, 1, Len(as)) = as
  <2>1. \A xs \in Seq(Answers) : SubSeq(xs, 1, Len(xs)) = xs
    OBVIOUS
  <2> HIDE DEF as
  <2> QED BY <1>6, <2>1, Zenon
<1>8. Prefix(as, RING - Len(cq)) = as
  <2> HIDE DEF as
  <2> QED BY <1>3, <1>6, <1>7, Zenon DEF Prefix
<1>9. ~ (Len(sq) > RING - Len(cq))
  BY <1>0
<1> HIDE DEF as
<1> QED
  BY <1>0, <1>2, <1>3, <1>4, <1>8, <1>9, Zenon DEF Serve, as

\* A poll after which the service is served.
LEMMA ServeStep ==
  ASSUME IInv, ServeLine, line.served
  PROVE  IInv'
<1>0. /\ sq \in Seq(Requests) /\ cq \in Seq(Answers) /\ Len(sq) \in Nat /\ Len(cq) \in Nat
      /\ Len(sq) + Len(cq) <= RING /\ RING \in Nat /\ pending = None
      /\ table \in Tables /\ epoch \in 0 .. MaxEpochs
  BY Sized DEF IInv, Typed
<1>1. \A i \in 1 .. Len(sq) : Fair(table, sq[i])
  BY <1>0 DEF IInv, Queued
<1> DEFINE as == Applied(sq).answers
<1>2. /\ table' = Applied(sq).table /\ pending' = None /\ sq' = <<>> /\ cq' = cq \o as
  BY <1>1, ServeTakes DEF ServeLine, IInv
<1>3. Through(sq, Len(sq), Applied(sq))
  BY <1>0, <1>1, AppliedThrough
<1>4. /\ table' \in Tables /\ Carries(table, table')
      /\ as \in Seq(Answers) /\ Len(as) = Len(sq)
      /\ \A k \in 1 .. Len(sq) : Replied(sq[k], table', as[k])
  BY <1>2, <1>3 DEF Through
<1>5. /\ line.at = "serve" /\ line \in Lines /\ line.rounds < ROUNDS
      /\ line'.at = "again" /\ line' \in Lines
      /\ UNCHANGED <<sealed, names, epoch, shell, lag, clean>>
  <2>1. line.at = "serve" /\ line \in Lines /\ line.rounds < ROUNDS
    BY DEF IInv, Typed, ServeLine
  <2>2. line' = [line EXCEPT !.at = "again", !.rounds = @ + 1]
    BY DEF ServeLine
  <2>3. line' = [at |-> "again", served |-> line.served, rounds |-> line.rounds + 1]
    BY <2>1, <2>2, Zenon DEF Lines
  <2>4. line.served \in BOOLEAN /\ line.rounds + 1 \in 0 .. ROUNDS
    BY <2>1, Sized DEF Lines
  <2>5. line'.at = "again" /\ line' \in Lines
    BY <2>3, <2>4 DEF Lines
  <2> QED
    BY <2>1, <2>5 DEF ServeLine
<1> HIDE DEF as
<1>6. /\ cq' \in Seq(Answers) /\ Len(cq') = Len(cq) + Len(sq)
      /\ \A i \in 1 .. Len(cq) : cq'[i] = cq[i]
      /\ \A i \in Len(cq) + 1 .. Len(cq) + Len(sq) : cq'[i] = as[i - Len(cq)]
  <2>1. Joined(cq', cq, as)
    BY <1>0, <1>2, <1>4, Joins, Zenon
  <2> QED
    BY <1>4, <2>1, Zenon DEF Joined
<1>7. Typed'
  <2>1. sq' \in Seq(Requests) /\ Len(sq') = 0
    BY <1>2
  <2>2. Len(sq') + Len(cq') <= RING
    BY <1>0, <1>6, <2>1
  <2>3. line'.at = "again"
    BY <1>5
  <2> QED
    BY <1>2, <1>4, <1>5, <1>6, <2>1, <2>2, <2>3, Zenon DEF IInv, Typed
<1>8. Mounted'
  <2> SUFFICES ASSUME names.mount # None PROVE Rooted(table', names.mount) /\ names.mount.epoch = epoch
    BY <1>5 DEF Mounted
  <2>1. Rooted(table, names.mount) /\ names.mount.epoch = epoch /\ names.mount \in Caps
    BY DEF IInv, Mounted, Typed, Opt
  <2> QED
    BY <1>4, <2>1 DEF Carries
<1>9. \A i \in 1 .. Len(cq') :
         \/ i \in 1 .. Len(cq) /\ cq'[i] = cq[i]
         \/ /\ i \in Len(cq) + 1 .. Len(cq) + Len(sq) /\ i - Len(cq) \in 1 .. Len(sq)
            /\ Replied(sq[i - Len(cq)], table', cq'[i])
  <2> SUFFICES ASSUME NEW i \in 1 .. Len(cq'), i \notin 1 .. Len(cq)
               PROVE  /\ i \in Len(cq) + 1 .. Len(cq) + Len(sq) /\ i - Len(cq) \in 1 .. Len(sq)
                      /\ Replied(sq[i - Len(cq)], table', cq'[i])
    BY <1>6
  <2>1. i \in Len(cq) + 1 .. Len(cq) + Len(sq) /\ i - Len(cq) \in 1 .. Len(sq)
    BY <1>0, <1>6
  <2> QED
    BY <1>4, <1>6, <2>1, Zenon
<1>10. Queued'
  <2>1. \A i \in DOMAIN sq' : Fair(table, sq[i])'
    BY <1>2
  <2>2. ASSUME NEW i \in 1 .. Len(cq'), cq'[i].mine PROVE Given(table, cq[i])'
    <3>1. CASE i \in 1 .. Len(cq) /\ cq'[i] = cq[i]
      <4>1. Given(table, cq[i])
        BY <1>0, <2>2, <3>1 DEF IInv, Queued
      <4> QED
        BY <1>4, <1>5, <3>1, <4>1 DEF Given, Carries
    <3>2. CASE Replied(sq[i - Len(cq)], table', cq'[i])
      BY <1>5, <3>2 DEF Replied, Given
    <3> QED
      BY <1>9, <3>1, <3>2
  <2> QED
    BY <1>6, <2>1, <2>2 DEF Queued
<1>11. OwnAnswer'
  <2>1. Mine(sq)' = {}
    BY <1>2 DEF Mine
  <2>2. ASSUME NEW i \in Mine(cq)'
        PROVE  i \in Mine(cq) \/ (i - Len(cq) \in Mine(sq) /\ i \in Int)
    <3>1. i \in 1 .. Len(cq') /\ cq'[i].mine
      BY <1>6 DEF Mine
    <3>2. CASE i \in 1 .. Len(cq) /\ cq'[i] = cq[i]
      BY <1>0, <3>1, <3>2 DEF Mine
    <3>3. CASE i - Len(cq) \in 1 .. Len(sq) /\ Replied(sq[i - Len(cq)], table', cq'[i])
      BY <1>0, <3>1, <3>3 DEF Mine, Replied
    <3> QED
      BY <1>9, <3>1, <3>2, <3>3
  <2>3. ASSUME NEW i \in Mine(cq)', NEW j \in Mine(cq)' PROVE i = j
    <3>1. i \in Int /\ j \in Int
      BY <1>6 DEF Mine
    <3>2. /\ i \in Mine(cq) \/ i - Len(cq) \in Mine(sq)
          /\ j \in Mine(cq) \/ j - Len(cq) \in Mine(sq)
      BY <2>2
    <3>3. /\ \A k, l \in Mine(sq) : k = l
          /\ \A k, l \in Mine(cq) : k = l
          /\ Mine(sq) = {} \/ Mine(cq) = {}
      BY DEF IInv, OwnAnswer
    <3>4. CASE i \in Mine(cq)
      BY <3>2, <3>3, <3>4
    <3>5. CASE i - Len(cq) \in Mine(sq)
      <4>1. i - Len(cq) = j - Len(cq)
        BY <3>2, <3>3, <3>5
      <4> QED
        BY <1>0, <3>1, <4>1
    <3> QED
      BY <3>2, <3>4, <3>5
  <2>4. Mine(cq)' # {} => shell.command # None /\ shell.request = None
    BY <2>2 DEF IInv, OwnAnswer
  <2> QED
    BY <1>5, <2>1, <2>3, <2>4 DEF OwnAnswer
<1>12. Asking'
  <2>1. InLine /\ InLine'
    BY <1>5 DEF InLine
  <2>2. Running
    BY <2>1 DEF IInv, Asking
  <2>3. Running'
    BY <1>4, <1>5, <2>2, Zenon DEF Running, Carries, Unsent, Expected
  <2> QED
    BY <2>1, <2>3 DEF Asking
<1>13. Tidy'
  <2> SUFFICES ASSUME clean PROVE InHand' \/ Sent' \/ Back'
    BY <1>5 DEF Tidy
  <2>1. InHand \/ Sent \/ Back
    BY <1>5 DEF IInv, Tidy, InLine
  <2>2. CASE sq = <<>>
    <3>1. table' = table /\ as = <<>>
      BY <1>0, <1>2, <2>2, AppliedNone, Zenon DEF as
    <3>2. cq' = cq /\ sq' = sq
      BY <1>0, <1>2, <2>2, <3>1
    <3> QED
      BY <1>5, <2>1, <3>1, <3>2, Zenon DEF InHand, Sent, Back, Outcome, Expected
  <2>3. CASE sq # <<>>
    <3>1. Sent
      BY <2>1, <2>3 DEF InHand, Back
    <3> DEFINE a == Apply(table, sq[1]).answer
    <3>2. table' = Apply(table, sq[1]).table /\ as = <<a>>
      BY <1>0, <1>2, <3>1, AppliedOnce DEF as, Sent
    <3>3. cq' = <<a>>
      <4>1. \A x : <<>> \o <<x>> = <<x>>
        OBVIOUS
      <4> HIDE DEF a
      <4> QED BY <1>2, <3>1, <3>2, <4>1, Zenon DEF Sent
    <3>4. sq[1] \in Requests /\ Fair(table, sq[1])
      <4>1. 1 \in 1 .. Len(sq)
        BY <3>1 DEF Sent
      <4> QED BY <1>0, <1>1, <4>1
    <3>5. Served(table, sq[1], table', a)
      BY <1>0, <3>2, <3>4, ApplyServes
    <3> HIDE DEF a
    <3>6. Len(cq') = 1 /\ cq'[1] = a
      BY <3>3
    <3>7. Replied(sq[1], table', a) /\ (Valid(table, sq[1].cap) => Result(table, sq[1], table', a))
      BY <3>5 DEF Served
    <3>8. sq[1].cap = shell.cap /\ Holding(table, shell.opened, shell.cap) /\ Expected(sq[1])
      BY <3>1 DEF Sent, Expected
    <3>9. Valid(table, shell.cap)
      <4>1. Running
        BY <1>5 DEF IInv, Asking, InLine
      <4>2. CASE shell.opened
        BY <3>8, <4>2 DEF Holding, Only
      <4>3. CASE ~ shell.opened
        <5>1. shell.cap = names.mount /\ names.mount # None
          BY <4>1, <4>3 DEF Running
        <5>2. Rooted(table, shell.cap)
          BY <5>1 DEF IInv, Mounted
        <5> QED
          BY <5>2, Nothing DEF Rooted, Valid
      <4> QED BY <4>2, <4>3
    <3>10. Result(table, sq[1], table', a)
      BY <3>7, <3>8, <3>9
    <3>11. a.kind = sq[1].kind /\ a.mine = sq[1].mine
      BY <3>7 DEF Replied
    <3>12. Outcome(cq[1])'
      <4>1. shell' = shell /\ cq'[1] = a
        BY <1>5, <3>6
      <4>2. CASE a.kind = "open" /\ a.result = "ok" /\ (Bare(table) => Only(table', a.cap))
        BY <3>8, <3>11, <4>1, <4>2 DEF Outcome, Expected, Holding
      <4>3. CASE a.kind = "open" /\ a.result \in {"missing", "handles"} /\ table' = table
        BY <3>8, <3>11, <4>1, <4>3 DEF Outcome, Expected, Holding
      <4>4. CASE a.kind = "use" /\ a.result = "ok" /\ table' = table
        BY <3>8, <3>11, <4>1, <4>4, ZenonT(40) DEF Outcome
      <4>5. CASE a.kind = "close" /\ a.result = "ok" /\ (Only(table, sq[1].cap) => Bare(table'))
        BY <3>8, <3>11, <4>1, <4>5 DEF Outcome, Expected, Holding
      <4> QED
        BY <3>10, <4>2, <4>3, <4>4, <4>5 DEF Result
    <3> QED
      BY <1>2, <1>5, <3>1, <3>6, <3>11, <3>12, ZenonT(40) DEF Sent, Back
  <2> QED
    BY <2>2, <2>3
<1> QED
  BY <1>7, <1>8, <1>10, <1>11, <1>12, <1>13 DEF IInv

\* The fields of a shell outside a line.
LEMMA QuietFields ==
  ASSUME Asking, ~ InLine
  PROVE  shell.command = None /\ shell.cap = None /\ shell.request = None /\ shell.opened = FALSE
BY DEF Asking, Quiet

\* Outside a line nothing on the ring is awaited.
LEMMA NoneAwaited ==
  ASSUME Asking, ~ InLine, OwnAnswer
  PROVE  Mine(sq) = {} /\ Mine(cq) = {}
BY QuietFields DEF OwnAnswer

\* A round of a line whose service is not run.
LEMMA SkipStep ==
  ASSUME IInv, ServeLine, ~ line.served
  PROVE  IInv'
<1>1. /\ line.at = "serve" /\ line \in Lines /\ line.rounds < ROUNDS
  BY DEF IInv, Typed, ServeLine
<1>2. line' = [line EXCEPT !.at = "again", !.rounds = @ + 1]
  BY DEF ServeLine
<1>3. line' = [at |-> "again", served |-> line.served, rounds |-> line.rounds + 1]
  BY <1>1, <1>2, Zenon DEF Lines
<1>4. line.served \in BOOLEAN /\ line.rounds + 1 \in 0 .. ROUNDS
  BY <1>1, Sized DEF Lines
<1>5. line'.at = "again" /\ line' \in Lines
  BY <1>3, <1>4 DEF Lines
<1>6. UNCHANGED <<table, pending, sq, cq, sealed, names, epoch, shell, lag, clean>>
  BY DEF ServeLine
<1>7. InLine /\ InLine'
  BY <1>1, <1>5 DEF InLine
<1>8. Typed'
  BY <1>5, <1>6 DEF IInv, Typed
<1>9. Mounted' /\ Queued' /\ OwnAnswer'
  BY <1>6, Zenon DEF IInv, Mounted, Queued, OwnAnswer, Mine, Fair, Given
<1>10. Asking'
  <2>1. Running
    BY <1>7 DEF IInv, Asking
  <2>2. Running'
    BY <1>5, <1>6, <2>1, ZenonT(40) DEF Running, Unsent, Expected
  <2> QED
    BY <1>7, <2>2 DEF Asking
<1>11. Tidy'
  <2> SUFFICES ASSUME clean PROVE InHand' \/ Sent' \/ Back'
    BY <1>5, <1>6 DEF Tidy
  <2>1. InHand \/ Sent \/ Back
    BY <1>7 DEF IInv, Tidy
  <2> QED
    BY <1>6, <2>1, Zenon DEF InHand, Sent, Back, Outcome, Expected
<1> QED
  BY <1>8, <1>9, <1>10, <1>11 DEF IInv

\* Init: the first mount.
LEMMA InitIInv == Init => IInv
<1> SUFFICES ASSUME Init PROVE IInv
  OBVIOUS
<1> DEFINE t == [i \in Slots |-> [New[i] EXCEPT !.gen = IF i <= 2 THEN 2 ELSE 1]]
           c == Cap(1, 2)
<1>0. HANDLES \in Nat /\ HANDLES >= 2 /\ RING \in Nat /\ ROUNDS \in Nat /\ DEADLINE \in Nat /\ MaxEpochs \in Nat
  BY Sized
<1>1. t \in Tables /\ \A i \in Slots : t[i].object = None /\ t[i].gen = IF i <= 2 THEN 2 ELSE 1
  <2>1. \A i \in Slots : i \in Nat
    BY DEF Slots
  <2>2. \A i \in Slots : /\ t[i] \in Slot /\ t[i].object = None
                         /\ t[i].gen = IF i <= 2 THEN 2 ELSE 1
    BY <2>1 DEF New, Slot
  <2> QED
    BY <2>2 DEF Tables
<1>2. 1 \in Slots
  BY <1>0 DEF Slots
<1> HIDE DEF t
<1>3. FirstFree(t) = 1
  <2>1. FreeSlots(t) = Slots
    BY <1>1 DEF FreeSlots
  <2>2. \A i \in Slots : 1 <= i /\ i \in Nat
    BY DEF Slots
  <2>3. \A i \in Slots : (\A j \in Slots : i <= j) => i = 1
    BY <1>2, <2>2
  <2> QED
    BY <1>2, <2>1, <2>2, <2>3 DEF FirstFree
<1>4. table = Insert(t, 1, "FS", "root")
  BY <1>3 DEF Init, Mint, t
<1>5. t[1].gen = 2 /\ t[1].object = None
  BY <1>1, <1>2
<1>6. epoch \in 0 .. MaxEpochs
  BY <1>0 DEF Init
<1>7. c \in Caps /\ c.epoch = epoch /\ Rooted(table, c) /\ (Bare(t) => Bare(table))
  BY <1>1, <1>2, <1>4, <1>5, <1>6, MintGives
<1>8. table \in Tables
  BY <1>1, <1>2, <1>4, <1>5, InsertCarries DEF Objects
<1>9. Bare(table)
  <2>1. Bare(t)
    BY <1>1 DEF Bare, Theirs
  <2> QED BY <1>7, <2>1
<1> HIDE DEF c
<1>10. /\ names = [gen |-> 1, mount |-> c] /\ sq = <<>> /\ cq = <<>> /\ shell = Quiet /\ pending = None
       /\ line = [at |-> "between", served |-> FALSE, rounds |-> 0] /\ lag = 0 /\ clean = TRUE
       /\ sealed = TRUE
  BY DEF Init, c
<1>11. Typed
  <2>1. names \in [gen: Nat, mount: Opt(Caps)]
    BY <1>7, <1>10 DEF Opt
  <2>2. sq \in Seq(Requests) /\ cq \in Seq(Answers) /\ Len(sq) = 0 /\ Len(cq) = 0
    BY <1>10
  <2>3. shell \in Shells
    BY <1>10 DEF Shells, Quiet, Opt
  <2>4. line \in Lines /\ line.at = "between"
    BY <1>0, <1>10 DEF Lines
  <2> QED
    BY <1>0, <1>6, <1>8, <1>10, <2>1, <2>2, <2>3, <2>4 DEF Typed
<1>12. Mounted
  BY <1>7, <1>10 DEF Mounted
<1>13. Queued /\ OwnAnswer
  BY <1>10 DEF Queued, OwnAnswer, Mine
<1>14. ~ InLine
  BY <1>10 DEF InLine
<1>15. Asking
  <2>1. shell = [Quiet EXCEPT !.lease = shell.lease]
    BY <1>10, Zenon DEF Quiet
  <2> QED
    BY <1>14, <2>1 DEF Asking
<1>16. Tidy
  BY <1>9, <1>10, <1>14 DEF Tidy
<1> QED
  BY <1>11, <1>12, <1>13, <1>15, <1>16 DEF IInv

\* Where a line goes on, and where it is over.
LEMMA AtMoves ==
  ASSUME line \in Lines, NEW w, At(w),
         w \in {"between", "poll", "serve", "again", "finished", "missed", "failed", "stopped"}
  PROVE  line' \in Lines /\ line'.at = w /\ line'.rounds = line.rounds
BY DEF At, Lines

\* A line that is over.
LEMMA OverEnds ==
  ASSUME NEW w, Over(w), w \in {"finished", "missed", "failed"}
  PROVE  line' \in Lines /\ line'.at = w /\ ~ InLine'
<1>1. line' = [at |-> w, served |-> FALSE, rounds |-> 0]
  BY DEF Over
<1>2. 0 \in 0 .. ROUNDS
  BY Sized
<1>3. line' \in Lines
  BY <1>1, <1>2 DEF Lines
<1> QED
  BY <1>1, <1>3 DEF InLine

\* A step that changes where the line is, and nothing else, outside of lines.
LEMMA IdleStep ==
  ASSUME IInv, ~ InLine, ~ InLine', line' \in Lines, NEW n \in 0 .. DEADLINE, lag' = n,
         UNCHANGED <<table, pending, sealed, names, epoch, sq, cq, shell, clean>>,
         clean /\ line'.at \in {"between", "finished"} => line.at \in {"between", "finished"},
         clean => line'.at # "missed"
  PROVE  IInv'
<1>1. Typed'
  <2>1. ~ (line'.at \in {"poll", "serve"})
    BY DEF InLine
  <2> QED
    BY <2>1 DEF IInv, Typed
<1>2. Mounted' /\ Queued' /\ OwnAnswer'
  BY DEF IInv, Mounted, Queued, OwnAnswer, Mine, Fair, Given
<1>3. Asking'
  BY DEF IInv, Asking
<1>4. Tidy'
  BY DEF IInv, Tidy
<1> QED
  BY <1>1, <1>2, <1>3, <1>4 DEF IInv

\* A line that asks storage nothing, and an error that stops init.
LEMMA HelpStep == IInv /\ Help => IInv'
<1> SUFFICES ASSUME IInv, Help PROVE IInv'
  OBVIOUS
<1>1. /\ line.at = "between" /\ Over("finished") /\ lag \in 0 .. DEADLINE /\ lag' = lag
      /\ UNCHANGED <<table, pending, sealed, names, epoch, sq, cq, shell, clean>>
  BY DEF Help, IInv, Typed
<1>2. line' \in Lines /\ line'.at = "finished" /\ ~ InLine'
  BY <1>1, OverEnds
<1>3. ~ InLine
  BY <1>1 DEF InLine
<1> QED
  BY <1>1, <1>2, <1>3, IdleStep

\* Init stops.
LEMMA FailStep == IInv /\ Fail => IInv'
<1> SUFFICES ASSUME IInv, Fail PROVE IInv'
  OBVIOUS
<1>1. /\ line.at = "failed" /\ At("stopped") /\ lag \in 0 .. DEADLINE /\ lag' = lag /\ line \in Lines
      /\ UNCHANGED <<table, pending, sealed, names, epoch, sq, cq, shell, clean>>
  BY DEF Fail, IInv, Typed
<1>2. line' \in Lines /\ line'.at = "stopped"
  BY <1>1, AtMoves
<1>3. ~ InLine /\ ~ InLine'
  BY <1>1, <1>2 DEF InLine
<1> QED
  BY <1>1, <1>2, <1>3, IdleStep

\* The end of a line: a heartbeat, or a miss too many, with the hooks and the reset.
LEMMA WatchStep == IInv /\ Watch => IInv'
<1> SUFFICES ASSUME IInv, Watch PROVE IInv'
  OBVIOUS
<1>1. /\ line.at \in {"finished", "missed"} /\ At("between") /\ line \in Lines
      /\ UNCHANGED <<pending, sealed, names, epoch>>
      /\ lag \in 0 .. DEADLINE /\ DEADLINE \in Nat
  BY Sized DEF Watch, IInv, Typed
<1>2. line' \in Lines /\ line'.at = "between"
  BY <1>1, AtMoves
<1>3. ~ InLine /\ ~ InLine'
  BY <1>1, <1>2 DEF InLine
<1>4. CASE ~ Overdue
  <2>1. lag' = Lag /\ UNCHANGED <<table, sq, cq, shell, clean>>
    BY <1>4 DEF Watch
  <2>2. Lag \in 0 .. DEADLINE
    BY <1>1, <1>4 DEF Overdue, Lag
  <2>3. clean => line.at # "missed"
    BY DEF IInv, Tidy
  <2>4. clean => line.at \in {"between", "finished"}
    BY <1>1, <2>3
  <2> QED
    BY <1>1, <1>2, <1>3, <2>1, <2>2, <2>4, IdleStep
<1>5. CASE Overdue
  <2>1. /\ sq' = <<>> /\ table' = RevokeOwner(table, "SHELL") /\ cq' = <<>> /\ shell' = Quiet
        /\ lag' = 0 /\ clean' = TRUE
    BY <1>5 DEF Watch, Disconnect, Reset
  <2>2. table \in Tables
    BY DEF IInv, Typed
  <2>3. table' \in Tables /\ Carries(table, table') /\ Bare(table')
    BY <2>1, <2>2, OwnerLoses
  <2>4. Typed'
    <3>1. shell' \in Shells
      BY <2>1 DEF Shells, Quiet, Opt
    <3>2. sq' \in Seq(Requests) /\ cq' \in Seq(Answers) /\ Len(sq') + Len(cq') = 0
      BY <2>1
    <3>3. RING \in Nat /\ 0 \in 0 .. DEADLINE
      BY Sized
    <3> QED
      BY <1>1, <1>2, <2>1, <2>3, <3>1, <3>2, <3>3 DEF IInv, Typed
  <2>5. Mounted'
    <3> SUFFICES ASSUME names.mount # None
                 PROVE  Rooted(table', names.mount) /\ names.mount.epoch = epoch
      BY <1>1 DEF Mounted
    <3>1. Rooted(table, names.mount) /\ names.mount.epoch = epoch /\ names.mount \in Caps
      BY DEF IInv, Mounted, Typed, Opt
    <3> QED
      BY <2>3, <3>1 DEF Carries
  <2>6. Queued' /\ OwnAnswer'
    BY <2>1 DEF Queued, OwnAnswer, Mine
  <2>7. Asking'
    <3>1. shell' = [Quiet EXCEPT !.lease = shell'.lease]
      BY <2>1, Zenon DEF Quiet
    <3> QED
      BY <1>3, <3>1 DEF Asking
  <2>8. Tidy'
    BY <1>2, <1>3, <2>1, <2>3 DEF Tidy
  <2> QED
    BY <2>4, <2>5, <2>6, <2>7, <2>8 DEF IInv
<1> QED
  BY <1>4, <1>5

\* Fs::publish.
LEMMA PublishStep == IInv /\ Publish => IInv'
<1> SUFFICES ASSUME IInv, Publish PROVE IInv'
  OBVIOUS
<1> DEFINE i == FirstFree(table)
           c == Cap(i, table[i].gen)
<1>1. /\ line.at = "between" /\ FreeSlots(table) # {} /\ table' = Insert(table, i, "FS", "root")
      /\ sealed' = TRUE /\ names' = [names EXCEPT !.mount = c]
      /\ UNCHANGED <<pending, epoch, sq, cq, shell, line, lag, clean>>
  BY DEF Publish, Mint
<1>2. table \in Tables /\ epoch \in 0 .. MaxEpochs /\ names \in [gen: Nat, mount: Opt(Caps)]
      /\ sq \in Seq(Requests) /\ cq \in Seq(Answers)
  BY DEF IInv, Typed
<1>3. i \in Slots /\ table[i].object = None
  BY <1>1, FirstIsFree
<1> HIDE DEF i
<1>4. c \in Caps /\ c.epoch = epoch /\ Rooted(table', c) /\ (Bare(table) => Bare(table'))
  BY <1>1, <1>2, <1>3, MintGives
<1>5. table' \in Tables /\ Carries(table, table')
  <2>1. "root" \in Objects /\ "FS" \in {"FS", "SHELL"}
    BY DEF Objects
  <2> QED
    BY <1>1, <1>2, <1>3, <2>1, InsertCarries
<1> HIDE DEF c
<1>6. names' \in [gen: Nat, mount: Opt(Caps)] /\ names'.mount = c
  BY <1>1, <1>2, <1>4 DEF Opt
<1>7. ~ InLine /\ ~ InLine'
  BY <1>1 DEF InLine
<1>8. Typed'
  BY <1>1, <1>5, <1>6 DEF IInv, Typed
<1>9. Mounted'
  BY <1>1, <1>4, <1>6 DEF Mounted
<1>10. Queued'
  <2>1. ASSUME NEW k \in DOMAIN sq PROVE Fair(table, sq[k])'
    <3>1. Fair(table, sq[k]) /\ sq[k] \in Requests
      BY <1>2 DEF IInv, Queued
    <3>2. sq[k].cap \in Caps
      BY <3>1, RequestFields
    <3> QED
      BY <1>1, <1>5, <3>1, <3>2 DEF Fair, Carries
  <2>2. Mine(cq) = {}
    BY <1>7, NoneAwaited DEF IInv
  <2>3. \A k \in DOMAIN cq : ~ cq[k].mine
    BY <2>2 DEF Mine
  <2> QED
    BY <1>1, <2>1, <2>3 DEF Queued
<1>11. OwnAnswer'
  BY <1>1 DEF IInv, OwnAnswer, Mine
<1>12. Asking'
  BY <1>1, <1>7 DEF IInv, Asking
<1>13. Tidy'
  BY <1>1, <1>4, <1>7 DEF IInv, Tidy
<1> QED
  BY <1>8, <1>9, <1>10, <1>11, <1>12, <1>13 DEF IInv

\* A restart of the service: the ring is emptied into answers nobody awaits, and
\* no handle outlives it.
LEMMA CancelsAll ==
  ASSUME IInv, ~ InLine, Teardown
  PROVE  /\ sq' = <<>> /\ cq' \in Seq(Answers) /\ Len(cq') <= RING
         /\ \A i \in 1 .. Len(cq') : ~ cq'[i].mine
         /\ clean /\ line.at = "between" => cq' = <<>>
<1> DEFINE told == [i \in DOMAIN sq |-> Answer(sq[i], "cancelled", None)]
<1>0. /\ sq \in Seq(Requests) /\ cq \in Seq(Answers) /\ Len(sq) \in Nat /\ Len(cq) \in Nat
      /\ Len(sq) + Len(cq) <= RING /\ RING \in Nat
  BY Sized DEF IInv, Typed
<1>1. Mine(sq) = {} /\ Mine(cq) = {}
  BY NoneAwaited DEF IInv
<1>2. ASSUME NEW i \in 1 .. Len(sq)
      PROVE  Answer(sq[i], "cancelled", None) \in Answers /\ ~ Answer(sq[i], "cancelled", None).mine
  <2>1. sq[i] \in Requests /\ None \in Opt(Caps) /\ i \in DOMAIN sq
    BY <1>0 DEF Opt
  <2>2. ~ sq[i].mine
    BY <1>1, <2>1 DEF Mine
  <2> QED
    BY <2>1, <2>2, AnswerFields
<1>3. /\ told \in Seq(Answers) /\ Len(told) = Len(sq)
      /\ \A i \in 1 .. Len(sq) : ~ told[i].mine
  <2> DEFINE A(i) == Answer(sq[i], "cancelled", None)
  <2>1. \A i \in 1 .. Len(sq) : A(i) \in Answers /\ ~ A(i).mine
    BY <1>2
  <2>2. told = [i \in 1 .. Len(sq) |-> A(i)]
    BY <1>0
  <2> HIDE DEF A, told
  <2> QED
    BY <1>0, <2>1, <2>2
<1>4. Prefix(told, RING - Len(cq)) = told
  <2>1. \A xs \in Seq(Answers) : SubSeq(xs, 1, Len(xs)) = xs
    OBVIOUS
  <2> HIDE DEF told
  <2>2. Least(RING - Len(cq), Len(told)) = Len(told)
    BY <1>0, <1>3 DEF Least
  <2> QED
    BY <1>3, <2>1, <2>2 DEF Prefix
<1>5. cq' = cq \o told /\ sq' = <<>>
  BY <1>4, Zenon DEF Teardown, Cancelled
<1> HIDE DEF told
<1>6. Joined(cq', cq, told)
  BY <1>0, <1>3, <1>5, Joins, Zenon
<1>7. ASSUME NEW i \in 1 .. Len(cq') PROVE ~ cq'[i].mine
  <2>1. CASE i \in 1 .. Len(cq)
    <3>1. cq'[i] = cq[i] /\ i \in DOMAIN cq
      BY <1>0, <1>6, <2>1 DEF Joined
    <3> QED
      BY <1>1, <3>1 DEF Mine
  <2>2. CASE i \notin 1 .. Len(cq)
    <3>1. i \in Len(cq) + 1 .. Len(cq) + Len(told) /\ i - Len(cq) \in 1 .. Len(sq)
      BY <1>0, <1>3, <1>6, <2>2 DEF Joined
    <3>2. cq'[i] = told[i - Len(cq)]
      BY <1>6, <3>1 DEF Joined
    <3> QED
      BY <1>3, <3>1, <3>2
  <2> QED BY <2>1, <2>2
<1>8. ASSUME clean, line.at = "between" PROVE cq' = <<>>
  <2>1. sq = <<>> /\ cq = <<>>
    BY <1>8 DEF IInv, Tidy
  <2>2. Len(cq') = 0 /\ cq' \in Seq(Answers)
    BY <1>3, <1>6, <2>1 DEF Joined
  <2> QED
    BY <2>2
<1> QED
  BY <1>0, <1>3, <1>5, <1>6, <1>7, <1>8 DEF Joined

\* Supervisor::restart of the service, remounted or not.
LEMMA RestartStep == ASSUME NEW ok \in BOOLEAN, IInv, Restart(ok) PROVE IInv'
<1>1. /\ line.at = "between" /\ epoch < MaxEpochs /\ Teardown /\ UNCHANGED <<shell, lag, clean>>
      /\ line \in Lines /\ epoch \in 0 .. MaxEpochs /\ MaxEpochs \in Nat /\ RING \in Nat
  BY Sized DEF Restart, IInv, Typed
<1>2. ~ InLine
  BY <1>1 DEF InLine
<1>3. /\ sq' = <<>> /\ cq' \in Seq(Answers) /\ Len(cq') <= RING
      /\ \A i \in 1 .. Len(cq') : ~ cq'[i].mine
      /\ clean => cq' = <<>>
  BY <1>1, <1>2, CancelsAll
<1>4. names' \in [gen: Nat, mount: Opt(Caps)] /\ names'.mount = None
  <2>1. names.gen \in Nat
    BY DEF IInv, Typed
  <2>2. names.gen + (IF names.mount # None THEN 1 ELSE 0) \in Nat
    BY <2>1
  <2> DEFINE g == names.gen + (IF names.mount # None THEN 1 ELSE 0)
  <2>3. names' = [gen |-> g, mount |-> None]
    BY <1>1 DEF Teardown
  <2> HIDE DEF g
  <2> QED
    BY <2>2, <2>3 DEF Opt, g
<1>5. /\ line' \in Lines /\ ~ InLine' /\ line'.at \in {"between", "stopped"}
      /\ table' \in Tables /\ pending' = None /\ sealed' \in BOOLEAN /\ epoch' \in 0 .. MaxEpochs
      /\ line'.at = "between" => Bare(table')
  <2>1. CASE ok
    <3>1. table' = New /\ pending' = None /\ sealed' = FALSE /\ epoch' = epoch + 1 /\ line' = line
      BY <2>1 DEF Restart, Remounted
    <3>2. New \in Tables /\ \A i \in Slots : New[i].object = None
      BY DEF New, Tables, Slot
    <3>3. Bare(New)
      BY <3>2 DEF Bare, Theirs
    <3>4. epoch' \in 0 .. MaxEpochs
      BY <1>1, <3>1
    <3> QED
      BY <1>1, <3>1, <3>2, <3>3, <3>4, Zenon DEF InLine
  <2>2. CASE ~ ok
    <3>1. At("stopped") /\ UNCHANGED <<table, pending, sealed, epoch>>
      BY <2>2 DEF Restart
    <3>2. line' \in Lines /\ line'.at = "stopped"
      BY <1>1, <3>1, AtMoves
    <3> QED
      BY <1>1, <3>1, <3>2 DEF InLine, IInv, Typed
  <2> QED BY <2>1, <2>2
<1>6. Typed'
  <2>1. sq' \in Seq(Requests) /\ Len(sq') = 0
    BY <1>3
  <2>2. Len(cq') \in Nat /\ Len(sq') + Len(cq') <= RING
    BY <1>1, <1>3, <2>1
  <2> QED
    BY <1>1, <1>3, <1>4, <1>5, <2>1, <2>2 DEF IInv, Typed
<1>7. Mounted'
  BY <1>4 DEF Mounted
<1>8. Mine(cq)' = {} /\ Mine(sq)' = {}
  BY <1>3 DEF Mine
<1>9. Queued' /\ OwnAnswer'
  BY <1>3, <1>8 DEF Queued, OwnAnswer
<1>10. Asking'
  BY <1>1, <1>2, <1>5 DEF IInv, Asking
<1>11. Tidy'
  BY <1>1, <1>3, <1>5 DEF Tidy, InLine
<1> QED
  BY <1>6, <1>7, <1>9, <1>10, <1>11 DEF IInv

\* A line given up: what it asked is asked no more by anyone.
LEMMA OlderRequests ==
  ASSUME NEW rs \in Seq(Requests)
  PROVE  /\ Older(rs) \in Seq(Requests) /\ Len(Older(rs)) = Len(rs)
         /\ \A i \in 1 .. Len(rs) : /\ ~ Older(rs)[i].mine /\ Older(rs)[i].kind = rs[i].kind
                                    /\ Older(rs)[i].cap = rs[i].cap /\ Older(rs)[i].name = rs[i].name
<1> DEFINE O(i) == [rs[i] EXCEPT !.mine = FALSE]
<1>1. \A r \in Requests : /\ [r EXCEPT !.mine = FALSE] \in Requests
                          /\ ~ [r EXCEPT !.mine = FALSE].mine
                          /\ [r EXCEPT !.mine = FALSE].kind = r.kind
                          /\ [r EXCEPT !.mine = FALSE].cap = r.cap
                          /\ [r EXCEPT !.mine = FALSE].name = r.name
  BY Zenon DEF Requests
<1>2. \A i \in 1 .. Len(rs) : rs[i] \in Requests
  OBVIOUS
<1>3. \A i \in 1 .. Len(rs) : /\ O(i) \in Requests /\ ~ O(i).mine /\ O(i).kind = rs[i].kind
                              /\ O(i).cap = rs[i].cap /\ O(i).name = rs[i].name
  BY <1>1, <1>2
<1>4. Older(rs) = [i \in 1 .. Len(rs) |-> O(i)] /\ Len(rs) \in Nat
  BY DEF Older
<1> HIDE DEF O
<1> QED
  BY <1>3, <1>4

\* The same of the answers on the ring.
LEMMA OlderAnswers ==
  ASSUME NEW cs \in Seq(Answers)
  PROVE  /\ Older(cs) \in Seq(Answers) /\ Len(Older(cs)) = Len(cs)
         /\ \A i \in 1 .. Len(cs) : ~ Older(cs)[i].mine
<1> DEFINE O(i) == [cs[i] EXCEPT !.mine = FALSE]
<1>1. \A c \in Answers : [c EXCEPT !.mine = FALSE] \in Answers /\ ~ [c EXCEPT !.mine = FALSE].mine
  BY Zenon DEF Answers
<1>2. \A i \in 1 .. Len(cs) : cs[i] \in Answers
  OBVIOUS
<1>3. \A i \in 1 .. Len(cs) : O(i) \in Answers /\ ~ O(i).mine
  BY <1>1, <1>2
<1>4. Older(cs) = [i \in 1 .. Len(cs) |-> O(i)] /\ Len(cs) \in Nat
  BY DEF Older
<1> HIDE DEF O
<1> QED
  BY <1>3, <1>4

\* Done and a new Quiet leave a shell outside of lines.
LEMMA DoneQuiet ==
  ASSUME shell \in Shells, Done \/ shell' = Quiet
  PROVE  shell' \in Shells /\ shell' = [Quiet EXCEPT !.lease = shell'.lease]
<1>1. shell.lease \in Opt(Nat) /\ None \in Opt(Nat)
  BY DEF Shells, Opt
<1>2. CASE Done
  <2>1. shell' = [lease |-> shell.lease, command |-> None, name |-> None, cap |-> None,
                  opened |-> FALSE, request |-> None]
    BY <1>2, Zenon DEF Done, Quiet
  <2>2. shell'.lease = shell.lease
    BY <2>1
  <2>3. shell' = [Quiet EXCEPT !.lease = shell'.lease]
    BY <1>2, <2>2 DEF Done
  <2>4. shell' \in Shells
    BY <1>1, <2>1 DEF Shells, Opt
  <2> QED
    BY <2>3, <2>4
<1>3. CASE shell' = Quiet
  BY <1>1, <1>3, Zenon DEF Quiet, Shells, Opt
<1> QED
  BY <1>2, <1>3

\* The rounds of a line ran out.
LEMMA AbandonStep == IInv /\ Abandon => IInv'
<1> SUFFICES ASSUME IInv, Abandon PROVE IInv'
  OBVIOUS
<1>1. /\ sq' = Older(sq) /\ cq' = Older(cq) /\ pending' = None /\ Done /\ Over("missed")
      /\ clean' = FALSE /\ UNCHANGED <<table, sealed, names, epoch, lag>>
  BY DEF Abandon, GiveUp, IInv, Typed
<1>2. sq \in Seq(Requests) /\ cq \in Seq(Answers) /\ Len(sq) + Len(cq) <= RING /\ shell \in Shells
  BY DEF IInv, Typed
<1>3. line' \in Lines /\ line'.at = "missed" /\ ~ InLine'
  BY <1>1, OverEnds
<1>4. shell' \in Shells /\ shell' = [Quiet EXCEPT !.lease = shell'.lease]
  BY <1>1, <1>2, DoneQuiet
<1>5. /\ sq' \in Seq(Requests) /\ Len(sq') = Len(sq)
      /\ \A i \in 1 .. Len(sq) : /\ ~ sq'[i].mine /\ sq'[i].kind = sq[i].kind
                                 /\ sq'[i].cap = sq[i].cap /\ sq'[i].name = sq[i].name
  BY <1>1, <1>2, OlderRequests
<1>6. cq' \in Seq(Answers) /\ Len(cq') = Len(cq) /\ \A i \in 1 .. Len(cq) : ~ cq'[i].mine
  BY <1>1, <1>2, OlderAnswers
<1>7. Typed'
  <2>1. Len(sq') + Len(cq') <= RING
    BY <1>2, <1>5, <1>6
  <2>2. line'.at \notin {"poll", "serve"}
    BY <1>3
  <2> QED
    BY <1>1, <1>3, <1>4, <1>5, <1>6, <2>1, <2>2, Zenon DEF IInv, Typed
<1>8. Mounted'
  BY <1>1 DEF IInv, Mounted
<1>9. \A i \in 1 .. Len(sq') : Fair(table, sq[i])'
  <2> SUFFICES ASSUME NEW i \in 1 .. Len(sq') PROVE Fair(table, sq[i])'
    OBVIOUS
  <2>0. \A j \in 1 .. Len(sq) : Fair(table, sq[j])
    BY DEF IInv, Queued
  <2>1. i \in 1 .. Len(sq) /\ Fair(table, sq[i])
    BY <1>5, <2>0
  <2>2. sq'[i].kind = sq[i].kind /\ sq'[i].cap = sq[i].cap /\ sq'[i].name = sq[i].name
    BY <1>5, <2>1
  <2> QED
    BY <1>1, <2>1, <2>2 DEF Fair
<1>10. Queued' /\ OwnAnswer'
  <2>1. Mine(sq)' = {} /\ Mine(cq)' = {}
    BY <1>5, <1>6 DEF Mine
  <2>2. \A i \in DOMAIN cq' : ~ cq'[i].mine
    BY <1>6
  <2>3. DOMAIN sq' = 1 .. Len(sq')
    BY <1>5
  <2> QED
    BY <1>9, <2>1, <2>2, <2>3 DEF Queued, OwnAnswer
<1>11. Asking' /\ Tidy'
  BY <1>1, <1>3, <1>4 DEF Asking, Tidy
<1> QED
  BY <1>7, <1>8, <1>10, <1>11 DEF IInv

\* A line begins: with no mount it is over, otherwise its first request is about
\* the root.
LEMMA BeginStep ==
  ASSUME NEW command \in {"ls", "cat"}, NEW name \in Opt(Names), NEW served \in BOOLEAN,
         name # None => name \in Names, IInv, Begin(command, name, served)
  PROVE  IInv'
<1>1. /\ line.at = "between" /\ UNCHANGED <<table, pending, sealed, names, epoch, sq, cq, lag, clean>>
      /\ shell \in Shells /\ names \in [gen: Nat, mount: Opt(Caps)] /\ ROUNDS \in Nat \ {0}
  BY Sized, Zenon DEF Begin, IInv, Typed
<1>2. ~ InLine
  BY <1>1 DEF InLine
<1>3. Mine(sq) = {} /\ Mine(cq) = {}
  BY <1>2, NoneAwaited DEF IInv
<1>4. Mounted' /\ Queued'
  BY <1>1, ZenonT(40) DEF IInv, Mounted, Queued, Fair, Given, Rooted, Issued
<1>5. OwnAnswer'
  <2>1. Mine(sq)' = {} /\ Mine(cq)' = {}
    BY <1>1, <1>3 DEF Mine
  <2> QED
    BY <2>1, Zenon DEF OwnAnswer
<1>6. CASE names.mount = None
  <2>1. shell' = Quiet /\ Over("finished")
    BY <1>6 DEF Begin
  <2>2. line' \in Lines /\ line'.at = "finished" /\ ~ InLine'
    BY <2>1, OverEnds
  <2>3. shell' \in Shells /\ shell' = [Quiet EXCEPT !.lease = shell'.lease]
    BY <1>1, <2>1, DoneQuiet
  <2>4. Typed'
    BY <1>1, <2>2, <2>3 DEF IInv, Typed
  <2>5. Asking'
    BY <2>2, <2>3 DEF Asking
  <2>6. Tidy'
    BY <1>1, <2>2 DEF IInv, Tidy, Bare, Theirs
  <2> QED
    BY <1>4, <1>5, <2>4, <2>5, <2>6 DEF IInv
<1>7. CASE names.mount # None
  <2> DEFINE root == names.mount
             lease == IF LeaseReads THEN shell.lease ELSE names.gen
             kind == IF name = None THEN "use" ELSE "open"
             ask == Request(kind, root, name)
  <2>1. /\ shell' = [lease |-> lease, command |-> command, name |-> name, cap |-> root,
                     opened |-> FALSE, request |-> ask]
        /\ line' = [at |-> "poll", served |-> served, rounds |-> 0]
    BY <1>7, Zenon DEF Begin
  <2>2. root \in Caps /\ Rooted(table, root) /\ root.epoch = epoch
    BY <1>1, <1>7 DEF IInv, Mounted, Opt
  <2>3. lease \in Opt(Nat)
    BY <1>1, Zenon DEF Shells, Opt
  <2>4. kind \in {"open", "use"} /\ (kind = "open" => name \in Names)
    OBVIOUS
  <2> HIDE DEF root, lease, kind
  <2>5. /\ ask \in Requests /\ ask # None /\ ask.mine /\ ask.cap = root /\ ask.kind = kind
        /\ ask.name = name
    <3>1. /\ ask \in Requests /\ ask.mine /\ ask.cap = root /\ ask.kind = kind
          /\ ask.name = name
      BY <2>2, <2>4 DEF Request, Requests
    <3> QED
      BY <3>1, Nothing
  <2> HIDE DEF ask
  <2>6. /\ shell'.lease = lease /\ shell'.command = command /\ shell'.cap = root
        /\ shell'.opened = FALSE /\ shell'.request = ask
        /\ line'.at = "poll" /\ line'.rounds = 0
    BY <2>1
  <2>7. shell' \in Shells /\ line' \in Lines
    <3>1. command \in Opt({"ls", "cat"}) /\ root \in Opt(Caps) /\ ask \in Opt(Requests)
          /\ 0 \in 0 .. ROUNDS
      BY <1>1, <2>2, <2>5 DEF Opt
    <3> QED
      BY <2>1, <2>3, <3>1 DEF Shells, Lines
  <2>8. Typed'
    <3>1. line'.rounds < ROUNDS
      BY <1>1, <2>6
    <3> QED
      BY <1>1, <2>7, <3>1 DEF IInv, Typed
  <2>9. Unsent(shell.request)'
    BY <2>4, <2>5, <2>6 DEF Unsent, Expected
  <2>10. Asking'
    <3>1. command # None
      BY Nothing
    <3>2. names'.mount = root /\ root # None
      BY <1>1, <1>7 DEF root
    <3>3. Running'
      BY <1>1, <2>2, <2>5, <2>6, <2>9, <3>1, <3>2 DEF Running
    <3> QED
      BY <2>6, <3>3 DEF Asking, InLine
  <2>11. Tidy'
    <3> SUFFICES ASSUME clean' PROVE InHand' /\ line'.at = "poll"
      BY DEF Tidy
    <3>1. sq = <<>> /\ cq = <<>> /\ Bare(table)
      BY <1>1 DEF IInv, Tidy
    <3> QED
      BY <1>1, <2>5, <2>6, <3>1 DEF InHand, Holding, Bare, Theirs
  <2> QED
    BY <1>4, <1>5, <2>8, <2>10, <2>11 DEF IInv
<1> QED
  BY <1>6, <1>7

\* What is left of the answers when the first is taken.
LEMMA TailFields ==
  ASSUME NEW cs \in Seq(Answers), cs # <<>>
  PROVE  /\ Tail(cs) \in Seq(Answers) /\ Len(Tail(cs)) = Len(cs) - 1 /\ Len(cs) \in Nat \ {0}
         /\ Head(cs) = cs[1] /\ cs[1] \in Answers /\ 1 \in DOMAIN cs
         /\ \A i \in 1 .. Len(Tail(cs)) : Tail(cs)[i] = cs[i + 1] /\ i + 1 \in DOMAIN cs
OBVIOUS

\* A poll moves neither the service nor its name.
LEMMA PollQuiet ==
  ASSUME IInv, Poll
  PROVE  /\ UNCHANGED <<table, pending, sealed, names, epoch, lag, clean>> /\ Mounted'
         /\ InLine /\ Running /\ line \in Lines /\ shell \in Shells /\ line.rounds < ROUNDS
         /\ sq \in Seq(Requests) /\ cq \in Seq(Answers) /\ Len(sq) + Len(cq) <= RING
         /\ Len(sq) \in Nat /\ Len(cq) \in Nat /\ RING \in Nat
<1>1. UNCHANGED <<table, pending, sealed, names, epoch, lag, clean>> /\ InLine
  BY DEF Poll, InLine
<1>2. line.rounds < ROUNDS
  BY DEF Poll, IInv, Typed
<1>3. Mounted'
  BY <1>1 DEF IInv, Mounted
<1> QED
  BY <1>1, <1>2, <1>3, Sized DEF IInv, Typed, Asking

\* The answers after the first is taken, when the ones left are as they were.
LEMMA TailKeeps ==
  ASSUME IInv, cq # <<>>, cq' = Tail(cq), UNCHANGED <<table, epoch>>
  PROVE  /\ cq' \in Seq(Answers) /\ Len(cq') = Len(cq) - 1
         /\ \A i \in DOMAIN cq' : cq'[i].mine => Given(table, cq[i])'
         /\ \A i \in Mine(cq)' : i + 1 \in Mine(cq)
         /\ Mine(cq)' \subseteq Int
<1>1. /\ cq' \in Seq(Answers) /\ Len(cq') = Len(cq) - 1 /\ DOMAIN cq' = 1 .. Len(cq')
      /\ \A i \in 1 .. Len(cq') : cq'[i] = cq[i + 1] /\ i + 1 \in DOMAIN cq
  BY TailFields DEF IInv, Typed
<1>2. \A i \in DOMAIN cq' : cq'[i].mine => Given(table, cq[i])'
  <2> SUFFICES ASSUME NEW i \in 1 .. Len(cq'), cq'[i].mine PROVE Given(table, cq[i])'
    BY <1>1
  <2>1. cq'[i] = cq[i + 1] /\ i + 1 \in DOMAIN cq
    BY <1>1
  <2>2. Given(table, cq[i + 1])
    BY <2>1 DEF IInv, Queued
  <2> QED
    BY <2>1, <2>2 DEF Given
<1>3. \A i \in Mine(cq)' : i + 1 \in Mine(cq)
  BY <1>1 DEF Mine
<1>4. Mine(cq)' \subseteq Int
  BY <1>1 DEF Mine
<1> QED
  BY <1>1, <1>2, <1>3, <1>4

\* A poll that finds the ring full, or nothing to send and no answer, changes
\* nothing but where the line is.
LEMMA PollWaits ==
  ASSUME IInv, Poll, UNCHANGED <<sq, cq, shell>>, At("serve")
  PROVE  IInv'
<1>1. /\ UNCHANGED <<table, pending, sealed, names, epoch, lag, clean>> /\ Mounted'
      /\ InLine /\ Running /\ line \in Lines /\ line.rounds < ROUNDS
  BY PollQuiet
<1>2. line' \in Lines /\ line'.at = "serve" /\ line'.rounds = line.rounds
  BY <1>1, AtMoves
<1>3. Typed'
  BY <1>1, <1>2 DEF IInv, Typed
<1>4. Queued' /\ OwnAnswer'
  BY <1>1, ZenonT(40) DEF IInv, Queued, Fair, Given, OwnAnswer, Mine
<1>5. Running' /\ InLine'
  BY <1>1, <1>2, ZenonT(40) DEF Running, InLine, Unsent, Expected
<1>6. InHand \/ Sent \/ Back => (InHand \/ Sent \/ Back)'
  BY <1>1, Zenon DEF InHand, Sent, Back, Outcome, Expected
<1>7. Tidy'
  BY <1>1, <1>2, <1>5, <1>6 DEF IInv, Tidy
<1> QED
  BY <1>1, <1>3, <1>4, <1>5, <1>7 DEF IInv, Asking

\* A session with nothing to send is left as it is.
LEMMA NothingToSend ==
  ASSUME shell \in Shells, shell.request = None
  PROVE  [shell EXCEPT !.request = None] = shell
BY DEF Shells

\* A request sent: it is at the end of the ring, and awaited.
LEMMA PollSends ==
  ASSUME IInv, Poll, shell.request # None, Len(sq) # RING
  PROVE  IInv'
<1> DEFINE r == shell.request
<1>1. /\ UNCHANGED <<table, pending, sealed, names, epoch, lag, clean>> /\ Mounted'
      /\ InLine /\ Running /\ line \in Lines /\ shell \in Shells /\ line.rounds < ROUNDS
      /\ sq \in Seq(Requests) /\ cq \in Seq(Answers) /\ Len(sq) + Len(cq) <= RING
      /\ Len(sq) \in Nat /\ Len(cq) \in Nat /\ RING \in Nat
  BY PollQuiet
<1>2. Mine(sq) = {} /\ Mine(cq) = {}
  BY DEF IInv, OwnAnswer
<1>3. /\ sq' = Append(sq, r)
      /\ shell' = [shell EXCEPT !.request = None] /\ At("serve")
      /\ IF cq = <<>> THEN cq' = cq ELSE cq' = Tail(cq)
  <2>1. CASE cq = <<>>
    BY <2>1 DEF Poll
  <2>2. CASE cq # <<>>
    <3>1. Head(cq) = cq[1] /\ 1 \in DOMAIN cq
      BY <1>1, <2>2, TailFields
    <3>2. ~ Head(cq).mine
      BY <1>2, <3>1 DEF Mine
    <3> QED
      BY <2>2, <3>2 DEF Poll
  <2> QED BY <2>1, <2>2
<1>4. r \in Requests /\ Unsent(r)
  BY <1>1 DEF Shells, Opt, Running
<1>5. /\ shell' \in Shells /\ shell'.request = None /\ shell'.command = shell.command
      /\ shell'.cap = shell.cap /\ shell'.opened = shell.opened
  BY <1>1, <1>3, Zenon DEF Shells, Opt
<1>6. line' \in Lines /\ line'.at = "serve" /\ line'.rounds = line.rounds
  BY <1>1, <1>3, AtMoves
<1> HIDE DEF r
<1>7. /\ sq' \in Seq(Requests) /\ Len(sq') = Len(sq) + 1 /\ sq'[Len(sq) + 1] = r
      /\ \A i \in 1 .. Len(sq) : sq'[i] = sq[i]
  BY <1>1, <1>3, <1>4
<1>8. /\ cq' \in Seq(Answers) /\ Len(cq') <= RING - (Len(sq) + 1) /\ Len(cq') \in Nat
      /\ \A i \in DOMAIN cq' : ~ cq'[i].mine
  <2>1. CASE cq = <<>>
    <3>1. cq' = cq /\ Len(cq) = 0 /\ DOMAIN cq = {}
      BY <1>3, <2>1
    <3> QED
      BY <1>1, <3>1
  <2>2. CASE cq # <<>>
    <3>1. cq' = Tail(cq)
      BY <1>3, <2>2
    <3>2. /\ cq' \in Seq(Answers) /\ Len(cq') = Len(cq) - 1
          /\ \A i \in Mine(cq)' : i + 1 \in Mine(cq)
      BY <1>1, <2>2, <3>1, TailKeeps
    <3>3. Mine(cq)' = {}
      BY <1>2, <3>2
    <3>4. Len(cq') \in Nat
      BY <3>2
    <3> QED
      BY <1>1, <3>2, <3>3, <3>4 DEF Mine
  <2> QED BY <2>1, <2>2
<1>9. Typed'
  <2>1. Len(sq') + Len(cq') <= RING
    BY <1>1, <1>7, <1>8
  <2> QED
    BY <1>1, <1>5, <1>6, <1>7, <1>8, <2>1 DEF IInv, Typed
<1>10. Queued'
  <2>1. ASSUME NEW i \in 1 .. Len(sq') PROVE Fair(table, sq[i])'
    <3>1. CASE i \in 1 .. Len(sq)
      <4>1. Fair(table, sq[i]) /\ sq'[i] = sq[i]
        BY <1>1, <1>7, <3>1 DEF IInv, Queued
      <4> QED
        BY <1>1, <4>1 DEF Fair
    <3>2. CASE i \notin 1 .. Len(sq)
      <4>1. sq'[i] = r
        BY <1>1, <1>7, <3>2
      <4>2. Fair(table, r)
        BY <1>1, <1>4 DEF Running, Unsent, Expected, Fair
      <4> QED
        BY <1>1, <4>1, <4>2 DEF Fair
    <3> QED BY <3>1, <3>2
  <2>2. DOMAIN sq' = 1 .. Len(sq')
    BY <1>7
  <2> QED
    BY <1>8, <2>1, <2>2 DEF Queued
<1>11. OwnAnswer'
  <2>1. Mine(cq)' = {}
    BY <1>8 DEF Mine
  <2>2. \A i \in Mine(sq)' : i = Len(sq) + 1
    <3>1. \A i \in 1 .. Len(sq) : ~ sq[i].mine
      BY <1>1, <1>2 DEF Mine
    <3>2. DOMAIN sq' = 1 .. Len(sq) + 1
      BY <1>7
    <3> QED
      BY <1>1, <1>7, <3>1, <3>2 DEF Mine
  <2>3. shell'.command # None
    BY <1>1, <1>5 DEF Running
  <2> QED
    BY <1>5, <2>1, <2>2, <2>3 DEF OwnAnswer
<1>12. Asking'
  <2>1. Running' /\ InLine'
    BY <1>1, <1>5, <1>6 DEF Running, InLine
  <2> QED
    BY <2>1 DEF Asking
<1>13. Tidy'
  <2> SUFFICES ASSUME clean' PROVE Sent' /\ line'.at = "serve"
    BY <1>6 DEF Tidy
  <2>1. InHand
    BY <1>1 DEF IInv, Tidy, Sent, Back
  <2>2. cq' = <<>> /\ Len(sq') = 1 /\ sq'[1] = r
    <3>1. sq = <<>> /\ cq = <<>> /\ Len(sq) = 0
      BY <2>1 DEF InHand
    <3> QED
      BY <1>3, <1>7, <3>1
  <2>3. r.mine /\ Expected(r)
    BY <1>4 DEF Unsent
  <2>4. Holding(table, shell.opened, shell.cap)
    BY <2>1 DEF InHand
  <2> QED
    BY <1>1, <1>5, <1>6, <2>2, <2>3, <2>4 DEF Sent, Expected
<1> QED
  BY <1>1, <1>9, <1>10, <1>11, <1>12, <1>13 DEF IInv

\* An answer to a request given up is skipped.
LEMMA PollSkips ==
  ASSUME IInv, Poll, shell.request = None, cq # <<>>, ~ Head(cq).mine
  PROVE  IInv'
<1>1. /\ UNCHANGED <<table, pending, sealed, names, epoch, lag, clean>> /\ Mounted'
      /\ InLine /\ Running /\ line \in Lines /\ shell \in Shells /\ line.rounds < ROUNDS
      /\ sq \in Seq(Requests) /\ cq \in Seq(Answers) /\ Len(sq) + Len(cq) <= RING
      /\ Len(sq) \in Nat /\ Len(cq) \in Nat /\ RING \in Nat
  BY PollQuiet
<1>2. sq' = sq /\ cq' = Tail(cq) /\ shell' = shell /\ At("serve")
  <2>1. [shell EXCEPT !.request = None] = shell
    BY <1>1, NothingToSend
  <2> QED
    BY <2>1 DEF Poll
<1>3. line' \in Lines /\ line'.at = "serve" /\ line'.rounds = line.rounds
  BY <1>1, <1>2, AtMoves
<1>4. /\ cq' \in Seq(Answers) /\ Len(cq') = Len(cq) - 1
      /\ \A i \in DOMAIN cq' : cq'[i].mine => Given(table, cq[i])'
      /\ \A i \in Mine(cq)' : i + 1 \in Mine(cq)
      /\ Mine(cq)' \subseteq Int
  BY <1>1, <1>2, TailKeeps
<1>5. Typed'
  <2>1. Len(sq') + Len(cq') <= RING
    BY <1>1, <1>2, <1>4
  <2> QED
    BY <1>1, <1>2, <1>3, <1>4, <2>1 DEF IInv, Typed
<1>6. Queued'
  BY <1>1, <1>2, <1>4 DEF IInv, Queued, Fair
<1>7. OwnAnswer'
  <2>1. Mine(sq)' = Mine(sq) /\ (Mine(cq)' # {} => Mine(cq) # {})
    BY <1>2, <1>4 DEF Mine
  <2>2. \A i, j \in Mine(cq)' : i = j
    <3> SUFFICES ASSUME NEW i \in Mine(cq)', NEW j \in Mine(cq)' PROVE i = j
      OBVIOUS
    <3>1. i + 1 = j + 1
      BY <1>4 DEF IInv, OwnAnswer
    <3> QED
      BY <1>4, <3>1
  <2> QED
    BY <1>2, <2>1, <2>2 DEF IInv, OwnAnswer
<1>8. Asking'
  <2>1. Running' /\ InLine'
    BY <1>1, <1>2, <1>3 DEF Running, InLine
  <2> QED
    BY <2>1 DEF Asking
<1>9. Tidy'
  <2> SUFFICES ASSUME clean' PROVE FALSE
    BY DEF Tidy
  <2>1. Back
    BY <1>1 DEF IInv, Tidy, InHand, Sent
  <2>2. Head(cq) = cq[1]
    BY <1>1, TailFields
  <2> QED
    BY <2>1, <2>2 DEF Back
<1> QED
  BY <1>1, <1>5, <1>6, <1>7, <1>8, <1>9 DEF IInv

\* The session's own answer: it is off the ring and nothing else is awaited.
Taking == Poll /\ shell.request = None /\ cq # <<>> /\ Head(cq).mine

\* The ring after the session took its own answer.
LEMMA TakesQueues ==
  ASSUME IInv, Taking
  PROVE  /\ sq' = sq /\ cq' \in Seq(Answers) /\ Len(sq') + Len(cq') <= RING
         /\ Queued' /\ OwnAnswer'
         /\ Head(cq) = cq[1] /\ cq[1] \in Answers /\ Given(table, cq[1])
         /\ clean => Outcome(cq[1]) /\ sq' = <<>> /\ cq' = <<>>
<1>1. /\ UNCHANGED <<table, pending, sealed, names, epoch, lag, clean>> /\ Mounted'
      /\ InLine /\ Running /\ line \in Lines /\ shell \in Shells /\ line.rounds < ROUNDS
      /\ sq \in Seq(Requests) /\ cq \in Seq(Answers) /\ Len(sq) + Len(cq) <= RING
      /\ Len(sq) \in Nat /\ Len(cq) \in Nat /\ RING \in Nat
  BY PollQuiet DEF Taking
<1>2. sq' = sq /\ cq' = Tail(cq)
  BY DEF Poll, Taking
<1>3. /\ cq' \in Seq(Answers) /\ Len(cq') = Len(cq) - 1
      /\ \A i \in DOMAIN cq' : cq'[i].mine => Given(table, cq[i])'
      /\ \A i \in Mine(cq)' : i + 1 \in Mine(cq)
      /\ Mine(cq)' \subseteq Int
  BY <1>1, <1>2, TailKeeps DEF Taking
<1>4. Head(cq) = cq[1] /\ cq[1] \in Answers /\ 1 \in DOMAIN cq
  BY <1>1, TailFields DEF Taking
<1>5. 1 \in Mine(cq)
  BY <1>4 DEF Mine, Taking
<1>6. Mine(sq)' = {}
  BY <1>2, <1>5 DEF IInv, OwnAnswer, Mine
<1>7. Mine(cq)' = {}
  <2> SUFFICES ASSUME NEW i \in Mine(cq)' PROVE FALSE
    OBVIOUS
  <2>1. i + 1 = 1 /\ i \in Int
    BY <1>3, <1>5 DEF IInv, OwnAnswer
  <2>2. i \in DOMAIN cq' /\ DOMAIN cq' = 1 .. Len(cq')
    BY <1>3 DEF Mine
  <2> QED
    BY <2>1, <2>2
<1>8. OwnAnswer'
  BY <1>6, <1>7 DEF OwnAnswer
<1>9. Queued'
  BY <1>1, <1>2, <1>3 DEF IInv, Queued, Fair
<1>10. Given(table, cq[1])
  BY <1>4, <1>5 DEF IInv, Queued, Mine
<1>11. ASSUME clean PROVE Outcome(cq[1]) /\ sq' = <<>> /\ cq' = <<>>
  <2>1. Back
    BY <1>1, <1>11 DEF IInv, Tidy, InHand, Sent, Taking
  <2>2. Len(cq') = 0 /\ sq = <<>>
    BY <1>3, <2>1 DEF Back
  <2> QED
    BY <1>2, <1>3, <2>1, <2>2 DEF Back
<1>12. Len(sq') + Len(cq') <= RING
  BY <1>1, <1>2, <1>3
<1> QED
  BY <1>2, <1>3, <1>4, <1>8, <1>9, <1>10, <1>11, <1>12

\* The answer ended the line.
LEMMA TakesEnds ==
  ASSUME IInv, Taking, Done \/ shell' = Quiet, NEW how \in {"finished", "failed"}, Over(how),
         clean /\ how = "finished" => Bare(table)
  PROVE  IInv'
<1>1. /\ UNCHANGED <<table, pending, sealed, names, epoch, lag, clean>> /\ Mounted'
      /\ shell \in Shells
  BY PollQuiet DEF Taking
<1>2. /\ sq' = sq /\ cq' \in Seq(Answers) /\ Len(sq') + Len(cq') <= RING
      /\ Queued' /\ OwnAnswer' /\ (clean => sq' = <<>> /\ cq' = <<>>)
  BY TakesQueues
<1>3. line' \in Lines /\ line'.at = how /\ ~ InLine'
  BY OverEnds
<1>4. shell' \in Shells /\ shell' = [Quiet EXCEPT !.lease = shell'.lease]
  BY <1>1, DoneQuiet
<1>5. Typed'
  BY <1>1, <1>2, <1>3, <1>4 DEF IInv, Typed
<1>6. Asking'
  BY <1>3, <1>4 DEF Asking
<1>7. Tidy'
  BY <1>1, <1>2, <1>3 DEF Tidy
<1> QED
  BY <1>1, <1>2, <1>5, <1>6, <1>7 DEF IInv

\* The answer lets the command go on, with a request about the handle it is at.
LEMMA TakesOn ==
  ASSUME IInv, Taking, At("poll"), NEW kind \in {"use", "close"},
         NEW cap \in Caps, NEW opened \in BOOLEAN,
         shell' = [shell EXCEPT !.cap = cap, !.opened = opened,
                                !.request = Request(kind, cap, None)],
         kind = "close" => opened, cap.epoch = epoch,
         opened => Issued(table, cap), ~ opened => cap = names.mount,
         clean => Holding(table, opened, cap)
  PROVE  IInv'
<1> DEFINE ask == Request(kind, cap, None)
<1>1. /\ UNCHANGED <<table, pending, sealed, names, epoch, lag, clean>> /\ Mounted'
      /\ shell \in Shells /\ line \in Lines /\ line.rounds < ROUNDS /\ Running
  BY PollQuiet DEF Taking
<1>2. /\ sq' = sq /\ cq' \in Seq(Answers) /\ Len(sq') + Len(cq') <= RING
      /\ Queued' /\ OwnAnswer' /\ (clean => sq' = <<>> /\ cq' = <<>>)
  BY TakesQueues
<1>3. line' \in Lines /\ line'.at = "poll" /\ line'.rounds = line.rounds
  BY <1>1, AtMoves
<1>4. /\ ask \in Requests /\ ask # None /\ ask.mine /\ ask.cap = cap /\ ask.kind = kind
  <2>1. ask \in Requests /\ ask.mine /\ ask.cap = cap /\ ask.kind = kind
    BY DEF Request, Requests, Opt
  <2> QED
    BY <2>1, Nothing
<1> HIDE DEF ask
<1>5. /\ shell' \in Shells /\ shell'.command = shell.command /\ shell'.cap = cap
      /\ shell'.opened = opened /\ shell'.request = ask
  <2>1. shell' = [shell EXCEPT !.cap = cap, !.opened = opened, !.request = ask]
    BY DEF ask
  <2> QED
    BY <1>1, <1>4, <2>1, Zenon DEF Shells, Opt
<1>6. Typed'
  BY <1>1, <1>2, <1>3, <1>5 DEF IInv, Typed
<1>7. Unsent(shell.request)'
  BY <1>4, <1>5 DEF Unsent, Expected
<1>8. Running' /\ InLine'
  BY <1>1, <1>3, <1>4, <1>5, <1>7 DEF Running, InLine
<1>9. Tidy'
  <2> SUFFICES ASSUME clean' PROVE InHand' /\ line'.at = "poll"
    BY <1>3 DEF Tidy
  <2>1. sq' = <<>> /\ cq' = <<>> /\ Holding(table, opened, cap)
    BY <1>1, <1>2
  <2> QED
    BY <1>1, <1>3, <1>4, <1>5, <2>1 DEF InHand
<1> QED
  BY <1>1, <1>2, <1>6, <1>8, <1>9 DEF IInv, Asking

\* What a command makes of its answer.
LEMMA PollTakes == ASSUME IInv, Taking PROVE IInv'
<1> DEFINE c == cq[1]
<1>1. /\ c \in Answers /\ Given(table, c) /\ (clean => Outcome(c)) /\ Head(cq) = c
  BY TakesQueues
<1>2. Answered(c)
  BY <1>1 DEF Taking, Poll
<1>3. shell \in Shells /\ Running
  BY PollQuiet DEF Taking
<1> HIDE DEF c
<1>4. CASE /\ c.result = "ok" /\ c.kind = "open" /\ At("poll")
           /\ shell' = [shell EXCEPT !.cap = c.cap, !.opened = TRUE,
                            !.request = Request(IF shell.name = Wanted[shell.command]
                                                THEN "use" ELSE "close", c.cap, None)]
  <2>1. c.cap \in Caps /\ c.cap.epoch = epoch /\ Issued(table, c.cap)
    BY <1>1, <1>4 DEF Given
  <2>2. clean => Holding(table, TRUE, c.cap)
    BY <1>1, <1>4 DEF Outcome, Holding
  <2> DEFINE kind == IF shell.name = Wanted[shell.command] THEN "use" ELSE "close"
             cap == c.cap
  <2>3. kind \in {"use", "close"}
    OBVIOUS
  <2>4. shell' = [shell EXCEPT !.cap = cap, !.opened = TRUE, !.request = Request(kind, cap, None)]
    BY <1>4
  <2>5. cap \in Caps /\ cap.epoch = epoch /\ Issued(table, cap) /\ (clean => Holding(table, TRUE, cap))
    BY <2>1, <2>2, Zenon
  <2> HIDE DEF kind, cap
  <2> QED
    BY <1>4, <2>3, <2>4, <2>5, TakesOn, Zenon
<1>5. CASE /\ c.result = "ok" /\ c.kind = "use"
           /\ \/ Ask("use") /\ At("poll")
              \/ MustClose /\ Ask("close") /\ At("poll")
              \/ ~MustClose /\ Done /\ Over("finished")
  <2>1. clean => Holding(table, shell.opened, shell.cap)
    BY <1>1, <1>5 DEF Outcome
  <2> DEFINE cap == shell.cap
             opened == shell.opened
  <2>2. /\ cap \in Caps /\ cap.epoch = epoch /\ opened \in BOOLEAN
        /\ (opened => Issued(table, cap)) /\ (~ opened => cap = names.mount)
    BY <1>3 DEF Running, Shells
  <2>3. ASSUME NEW kind \in {"use", "close"}, Ask(kind)
        PROVE  shell' = [shell EXCEPT !.cap = cap, !.opened = opened,
                                      !.request = Request(kind, cap, None)]
    <3> DEFINE ask == Request(kind, cap, None)
    <3>1. shell' = [shell EXCEPT !.request = ask]
      BY <2>3 DEF Ask
    <3> HIDE DEF ask
    <3>2. [shell EXCEPT !.request = ask] = [shell EXCEPT !.cap = shell.cap, !.opened = shell.opened,
                                                         !.request = ask]
      BY <1>3, ZenonT(40) DEF Shells
    <3> QED
      BY <3>1, <3>2 DEF ask
  <2>4. clean => Holding(table, opened, cap)
    BY <2>1
  <2>5. ASSUME ~ MustClose, Done, Over("finished") PROVE IInv'
    <3>1. clean => Bare(table)
      BY <2>1, <2>5 DEF Holding, MustClose
    <3> QED
      BY <2>5, <3>1, TakesEnds
  <2>6. MustClose => opened
    BY DEF MustClose
  <2> HIDE DEF cap, opened
  <2>7. ASSUME Ask("use"), At("poll") PROVE IInv'
    BY <2>2, <2>3, <2>4, <2>7, TakesOn, Zenon
  <2>8. ASSUME MustClose, Ask("close"), At("poll") PROVE IInv'
    BY <2>2, <2>3, <2>4, <2>6, <2>8, TakesOn, Zenon
  <2> QED
    BY <1>5, <2>5, <2>7, <2>8
<1>6. CASE c.result = "ok" /\ c.kind = "close" /\ Done /\ Over("finished")
  <2>1. clean => Bare(table)
    BY <1>1, <1>6 DEF Outcome
  <2> QED
    BY <1>6, <2>1, TakesEnds, Zenon
<1>7. CASE c.result = "missing" /\ Done /\ Over("finished")
  <2>1. clean => Bare(table)
    BY <1>1, <1>7 DEF Outcome
  <2> QED
    BY <1>7, <2>1, TakesEnds
<1>8. CASE c.result \in {"cancelled", "stale"} /\ shell' = Quiet /\ Over("finished")
  <2>1. ~ clean
    BY <1>1, <1>8 DEF Outcome
  <2> QED
    BY <1>8, <2>1, TakesEnds
<1>9. CASE c.result = "handles" /\ shell' = Quiet /\ Over("failed")
  BY <1>9, TakesEnds
<1> QED
  BY <1>2, <1>4, <1>5, <1>6, <1>7, <1>8, <1>9 DEF Answered

\* One poll of Session::request, by what it finds.
LEMMA PollStep == IInv /\ Poll => IInv'
<1> SUFFICES ASSUME IInv, Poll PROVE IInv'
  OBVIOUS
<1>0. shell \in Shells
  BY PollQuiet
<1>1. CASE shell.request # None /\ Len(sq) = RING
  BY <1>1, PollWaits DEF Poll
<1>2. CASE shell.request # None /\ Len(sq) # RING
  BY <1>2, PollSends
<1>3. CASE shell.request = None /\ cq = <<>>
  <2>1. [shell EXCEPT !.request = None] = shell
    BY <1>0, <1>3, NothingToSend
  <2>2. UNCHANGED <<sq, cq, shell>> /\ At("serve")
    BY <1>3, <2>1 DEF Poll
  <2> QED
    BY <2>2, PollWaits
<1>4. CASE shell.request = None /\ cq # <<>> /\ ~ Head(cq).mine
  BY <1>4, PollSkips
<1>5. CASE shell.request = None /\ cq # <<>> /\ Head(cq).mine
  BY <1>5, PollTakes DEF Taking
<1> QED
  BY <1>1, <1>2, <1>3, <1>4, <1>5

\* A step that changes nothing.
LEMMA StutterStep == IInv /\ UNCHANGED vars => IInv'
<1> SUFFICES ASSUME IInv, UNCHANGED vars PROVE IInv'
  OBVIOUS
<1>1. UNCHANGED <<table, pending, sealed, names, epoch, sq, cq, shell, line, lag, clean>>
  BY DEF vars
<1>2. Typed' /\ Mounted'
  BY <1>1 DEF IInv, Typed, Mounted
<1>3. Queued' /\ OwnAnswer'
  BY <1>1, ZenonT(40) DEF IInv, Queued, Fair, Given, OwnAnswer, Mine
<1>4. Asking'
  BY <1>1 DEF IInv, Asking, InLine, Running, Unsent, Expected
<1>5. Tidy'
  BY <1>1, Zenon DEF IInv, Tidy, InLine, InHand, Sent, Back, Outcome, Expected
<1> QED
  BY <1>2, <1>3, <1>4, <1>5 DEF IInv

\* Every action of the service, of its client and of their supervisors keeps it.
LEMMA NextIInv == IInv /\ [Next]_vars => IInv'
<1> SUFFICES ASSUME IInv, [Next]_vars PROVE IInv'
  OBVIOUS
<1>1. ASSUME NEW ok \in BOOLEAN, Restart(ok) PROVE IInv'
  BY <1>1, RestartStep
<1>2. CASE Publish
  BY <1>2, PublishStep
<1>3. CASE Help
  BY <1>3, HelpStep
<1>4. ASSUME NEW served \in BOOLEAN, Begin("ls", None, served) PROVE IInv'
  <2>1. None \in Opt(Names)
    BY DEF Opt
  <2> QED
    BY <1>4, <2>1, BeginStep
<1>5. ASSUME NEW command \in {"ls", "cat"}, NEW name \in Names, NEW served \in BOOLEAN,
             Begin(command, name, served)
      PROVE  IInv'
  <2>1. name \in Opt(Names)
    BY DEF Opt
  <2> QED
    BY <1>5, <2>1, BeginStep
<1>6. CASE Poll
  BY <1>6, PollStep
<1>7. CASE ServeLine
  <2>1. CASE line.served
    BY <1>7, <2>1, ServeStep
  <2>2. CASE ~ line.served
    BY <1>7, <2>2, SkipStep
  <2> QED BY <2>1, <2>2
<1>8. CASE Abandon
  BY <1>8, AbandonStep
<1>9. CASE Fail
  BY <1>9, FailStep
<1>10. CASE Watch
  BY <1>10, WatchStep
<1>11. CASE UNCHANGED vars
  BY <1>11, StutterStep
<1> QED
  BY <1>1, <1>2, <1>3, <1>4, <1>5, <1>6, <1>7, <1>8, <1>9, <1>10, <1>11 DEF Next

-----------------------------------------------------------------------------
(* What follows. *)

\* The invariant holds whenever the service, the shell and their supervisors run:
\* the awaited request, the answer to it and the shell's handle are where the
\* command stands (service.rs, session.rs, restart.rs).
THEOREM Invariance == Spec => []IInv
  BY InitIInv, NextIInv, PTL DEF Spec

\* The invariant says what the two checked properties say.
LEMMA Lives == IInv => HandlesLive
<1> SUFFICES ASSUME IInv PROVE HandlesLive
  OBVIOUS
<1>1. TypeOK
  <2>1. table \in [Slots -> [gen: Nat \ {0}, owner: {"FS", "SHELL", None},
                             object: {"root", "docs", "file", None}]]
    BY DEF IInv, Typed, Tables, Slot, Objects, Opt
  <2>2. Len(sq) <= RING /\ Len(cq) <= RING
    <3>1. Len(sq) \in Nat /\ Len(cq) \in Nat /\ RING \in Nat /\ Len(sq) + Len(cq) <= RING
      BY Sized DEF IInv, Typed
    <3> QED BY <3>1
  <2>3. /\ names.gen \in Nat /\ names.mount \in Opt(Caps)
        /\ shell.cap \in Opt(Caps) /\ shell.request \in Opt(Requests)
        /\ line.at \in {"between", "poll", "serve", "again", "finished", "missed",
                        "failed", "stopped"}
        /\ line.served \in BOOLEAN /\ line.rounds \in 0..ROUNDS
    BY DEF IInv, Typed, Shells, Lines
  <2>4. pending \in Opt(Answers)
    BY DEF IInv, Typed, Opt
  <2> QED
    BY <2>1, <2>2, <2>3, <2>4 DEF TypeOK, IInv, Typed
<1>2. HandlesEndWithEpoch
  <2>1. \A i \in DOMAIN sq : sq[i].cap.epoch = epoch
    BY DEF IInv, Queued, Fair
  <2>2. shell.cap # None => shell.cap.epoch = epoch
    <3>1. CASE InLine
      BY <3>1 DEF IInv, Asking, Running
    <3>2. CASE ~ InLine
      <4>1. shell = [Quiet EXCEPT !.lease = shell.lease]
        BY <3>2 DEF IInv, Asking
      <4>2. shell.cap = None
        BY <4>1 DEF Quiet
      <4> QED BY <4>2
    <3> QED BY <3>1, <3>2
  <2> QED
    BY <2>1, <2>2 DEF HandlesEndWithEpoch
<1>3. MountLive
  BY Nothing DEF IInv, Mounted, Rooted, MountLive, Valid
<1>4. NothingLeftOpen
  BY DEF IInv, Tidy, Bare, Theirs, NothingLeftOpen
<1> QED
  BY <1>1, <1>2, <1>3, <1>4 DEF HandlesLive

\* And the part of it that the ring's property says.
LEMMA Matches == IInv => AnswersMatched
BY DEF IInv, Typed, AnswersMatched, AnswersFit

\* Handles are exactly as live as their owners, for every size of the table, of
\* the ring, of the rounds a line gets and of the shell's deadline: whatever lines
\* are given up and whoever is restarted (restart.rs, service.rs, shell.rs), a
\* handle of an ended epoch names nothing, the published root names the root, and
\* a command that ran to its end left nothing open.
THEOREM Live == Spec => []HandlesLive
  BY Invariance, Lives, PTL

\* Every request is answered to the one who asked it and to nobody else, and the
\* completion queue always has room for the answers outstanding, so that Fs::serve
\* never has one left over and Stopped::cancel drops none (service.rs,
\* session.rs, restart.rs).
THEOREM Matched == Spec => []AnswersMatched
  BY Invariance, Matches, PTL

=============================================================================
