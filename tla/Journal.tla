-------------------------------- MODULE Journal --------------------------------
(***************************************************************************)
(* MoltFS's journal (crates/storage/fs/src/journal.rs) over a volume       *)
(* (volume.rs): one open transaction of copy-on-write tree nodes and log   *)
(* records, published by sync behind two flushes, compacted into a third   *)
(* log bank when the bank is full, rolled back when a step fails, and      *)
(* recovered by a mount after power is cut at any device write.            *)
(*                                                                         *)
(* Blocks are addressed as on disk: two superblocks, the tree arena, three *)
(* log banks.  A record takes one unit of its bank and carries a payload   *)
(* of one or two units; every write's payload is its own number, so a read *)
(* tells whose bytes it returns.                                           *)
(***************************************************************************)
EXTENDS MetadataTree, TLC

CONSTANTS
    LogSizes,   \* records a bank may hold, by image (Super::log_blocks)
    FileUnits,  \* units of the largest file
    MaxOps,     \* bound: mutations in a behaviour
    Refused,    \* bound: how many writes of a mutation precede a refused one
    MaxFaults   \* bound: calls the device refuses in a behaviour

ASSUME Shape == /\ Capacity \in Nat \ {0, 1} /\ TreeBlocks \in Nat \ (0 .. 3)
                /\ LogSizes \subseteq Nat \ {0} /\ LogSizes # {}
                /\ FileUnits \in 1 .. 8 /\ Refused \subseteq Nat

VARIABLES
    disk,     \* what a read returns, by block
    may,      \* what each block may hold after a power cut
    mount,    \* Volume: superblock, active copy, previous log and tree
    txn,      \* Journal::transaction
    next,     \* Journal::next_object
    hint,     \* Journal::extent_hint
    pc,       \* "idle", the step of sync under way, or "down"
    ops,      \* mutations so far
    faults,   \* calls the device refused so far
    want,     \* history: what the accepted calls have made of the tree
    legal,    \* history: the contents a mount may come back with
    astray    \* history: "transaction" once the open one lost nodes it needs, "root"
              \* while the newest checkpoint names a root of an older generation

volume == <<disk, may>>
journal == <<mount, txn, next, hint>>
history == <<want, legal, astray>>
vars == <<volume, journal, pc, ops, faults, history>>

LOG_BANKS == 3
LogAt == TreeAt + TreeBlocks
LogUnits == mount.super.units
LogBank(bank) == LogAt + bank * LogUnits
Banks == {LogBank(bank) : bank \in 0 .. LOG_BANKS - 1}
LastBlock == LogAt + LOG_BANKS * Max(LogSizes) - 1
Supers == 0 .. SUPERS - 1

\* Object 0 is the root directory; 1 and 2 are files of that name in it.
Files == 1 .. 2
ObjectKey(o) == o
DirentKey(name) == 10 + name
ExtentKey(f, end) == 20 + 10 * f + end
IsExtent(key) == key > 20
ExtentFile(key) == (key - 20) \div 10
ExtentEnd(key) == (key - 20) % 10

\* Values: an object's count or size, a dirent's object, an extent's place.
Plain(n) == <<n, 0, 0>>
Extent(cursor, skip, len) == <<cursor, skip, len>>
Whiteout == Extent(0, 0, 0)

IsRecord(v) == "payload" \in DOMAIN v
IsSuper(v) == "crc" \in DOMAIN v

Closed == [open |-> FALSE]
NoHint == [file |-> 0]
NoRoot == 0
NoBank == 0

-------------------------------------------------------------------------------
(* What a checkpoint or a transaction holds. *)

\* Volume::log_checksum commits to the headers of a region, not its payloads.
LogChecksum(d, at, bytes) ==
    [i \in 1 .. bytes |->
        IF IsRecord(d[at + i - 1])
        THEN LET r == d[at + i - 1] IN <<r.object, r.offset, Len(r.payload)>>
        ELSE <<>>]

\* The live extent at or past key: whiteouts are walked over.
RECURSIVE SkipWhiteouts(_, _, _)
SkipWhiteouts(d, root, found) ==
    IF Len(found) = 2 /\ IsExtent(found[1]) /\ found[2][3] = 0
    THEN SkipWhiteouts(d, root, Next_(d, root, found[1], FALSE))
    ELSE found
NextLive(d, root, key, inclusive) ==
    SkipWhiteouts(d, root, Next_(d, root, key, inclusive))

\* An extent is good when the record it names covers what it claims.
ExtentFits(d, at, bytes, key, value) ==
    /\ value[1] < bytes /\ IsRecord(d[at + value[1]])
    /\ LET r == d[at + value[1]]
       IN /\ r.object = ExtentFile(key)
          /\ r.offset + value[2] = ExtentEnd(key) - value[3]
          /\ value[2] + value[3] <= Len(r.payload)

\* Journal::read of one unit: 0 in a hole, -1 where the read fails.
ReadFrom(d, at, bytes, f, u, found) ==
    CASE found = Corrupt -> -1
      [] found = Nothing -> 0
      [] OTHER ->
            LET key == found[1]
                value == found[2]
                held == ExtentEnd(key) - value[3]
            IN IF ~IsExtent(key) \/ ExtentFile(key) # f \/ held > u THEN 0
               ELSE IF ExtentFits(d, at, bytes, key, value)
                    THEN d[at + value[1]].payload[value[2] + u - held + 1]
                    ELSE -1
ReadUnit(d, root, at, bytes, f, u) ==
    ReadFrom(d, at, bytes, f, u, NextLive(d, root, ExtentKey(f, u + 1), TRUE))

\* Everything a caller can read: names, sizes and file contents.
Number(found) == IF Len(found) = 2 THEN found[2][1] ELSE IF found = Nothing THEN -1 ELSE -2
View(d, root, at, bytes) ==
    [names |-> [f \in Files |-> Number(Get(d, root, DirentKey(f)))],
     count |-> Number(Get(d, root, ObjectKey(0))),
     sizes |-> [f \in Files |-> Number(Get(d, root, ObjectKey(f)))],
     data |-> [f \in Files |-> [u \in 0 .. FileUnits - 1 |-> ReadUnit(d, root, at, bytes, f, u)]]]

\* What the tree and log in use hold: the transaction's, or the checkpoint's.
Root == IF txn.open THEN txn.root ELSE mount.super.root
Region == IF txn.open THEN txn ELSE mount.super
Now == View(disk, Root, Region.at, Region.bytes)

-------------------------------------------------------------------------------
(* Mounting. *)

Verifies(d, super) ==
    /\ LogChecksum(d, super.at, super.bytes) = super.crc
    /\ TreeVerifies(d, super.root, super.gen)

\* The newest copy that verifies, ties to the lower one, and the other copy
\* when that verifies too.
Newest(d, good) ==
    LET copy == CHOOSE c \in good : \A o \in good :
                    d[o].gen < d[c].gen \/ (d[o].gen = d[c].gen /\ c <= o)
        other == good \ {copy}
    IN IF good = {} THEN Closed
       ELSE [open |-> TRUE, super |-> d[copy], copy |-> copy,
             log |-> IF other = {} THEN NoBank ELSE d[CHOOSE c \in other : TRUE].at,
             tree |-> IF other = {} THEN NoRoot ELSE d[CHOOSE c \in other : TRUE].root]
Survey(d) == Newest(d, {c \in Supers : IsSuper(d[c]) /\ Verifies(d, d[c])})

Objects(d, root) ==
    Cardinality({o \in {0} \cup Files : Len(Get(d, root, ObjectKey(o))) = 2})

\* Journal::replay: objects are dense, directories count their entries, every
\* record names a file and every live extent fits its record.
RECURSIVE ExtentsValid(_, _, _)
ExtentsValid(d, super, found) ==
    found # Nothing =>
        /\ found # Corrupt
        /\ ExtentFits(d, super.at, super.bytes, found[1], found[2])
        /\ ExtentsValid(d, super, NextLive(d, super.root, found[1], FALSE))

CountsEntries(view) == view.count = Cardinality({f \in Files : view.names[f] # -1})

Replays(d, super) ==
    /\ super.root # NoRoot
    /\ \A o \in {0} \cup Files :
          o < Objects(d, super.root) <=> Len(Get(d, super.root, ObjectKey(o))) = 2
    /\ CountsEntries(View(d, super.root, super.at, super.bytes))
    /\ \A i \in 1 .. super.bytes :
          d[super.at + i - 1].object \in 1 .. Objects(d, super.root) - 1
    /\ ExtentsValid(d, super, NextLive(d, super.root, ExtentKey(0, 0), FALSE))

-------------------------------------------------------------------------------
(* Transactions. *)

Plenty == 99
Work(t, left) ==
    t @@ [disk |-> disk, may |-> may, cuts |-> {}, ok |-> TRUE, left |-> left, new |-> 0,
          astray |-> FALSE]
TxnOf(m) == [f \in {"open", "at", "bytes", "root", "used", "prot", "gen"} |-> m[f]]

\* Whether the work in m wrote over a node that root reaches on the medium d.
Overwrites(m, d, root) == \E a \in Reached(d, root) : m.disk[a] # d[a]

\* Rolls m back to transaction t, whose nodes were those on d.  The transaction's
\* fields come back, what was written stays: m.astray keeps that t lost a node.
Restore(m, t, d) == t @@ [m EXCEPT !.astray = @ \/ Overwrites(m, d, t.root)]

\* A fresh transaction keeps off every block either checkpoint reaches.
Protected == Reached(disk, mount.super.root) \cup Reached(disk, mount.tree)
Fresh == [open |-> TRUE, at |-> mount.super.at, bytes |-> mount.super.bytes,
          root |-> mount.super.root, used |-> Protected, prot |-> Protected,
          gen |-> mount.super.gen + 1]

\* Mutant: the previous checkpoint's bank is taken for free.
FreeBankForgetful(source) == Banks \ {source, mount.super.at}

\* free_bank: neither the source nor a bank a durable checkpoint names.
FreeBank(source) == Banks \ {source, mount.super.at, mount.log}

Appended(m) == IF m.ok THEN [m EXCEPT !.bytes = @ + 1] ELSE m
AppendRecord(m, object, offset, payload) ==
    IF m.bytes + 1 > LogUnits THEN Fail(m)
    ELSE Appended(Put(m, m.at + m.bytes,
                      [object |-> object, offset |-> offset, payload |-> payload]))

\* Copies every live extent from found on out of source and retargets its key.
\* The walk stays on the root the compaction started from while the inserts
\* move m.root; m.astray keeps that it met something else than that root held.
Copy(m, source, key, value) ==
    LET payload == m.disk[source.at + value[1]].payload
    IN Insert(AppendRecord(m, ExtentFile(key), ExtentEnd(key) - value[3],
                           SubSeq(payload, value[2] + 1, value[2] + value[3])),
              key, Extent(m.bytes, 0, value[3]))

RECURSIVE Compact(_, _, _, _)
Compact(m, source, root, found) ==
    IF ~m.ok \/ found = Nothing THEN m
    ELSE IF found = Corrupt \/ ~ExtentFits(m.disk, source.at, source.bytes, found[1], found[2])
    THEN Fail(m)
    ELSE LET Step(moved, met) ==
                 Compact([moved EXCEPT !.astray = @ \/ met # NextLive(disk, root, found[1], FALSE)],
                         source, root, met)
             Onward(moved) == Step(moved, NextLive(moved.disk, root, found[1], FALSE))
         IN Onward(Copy(m, source, found[1], found[2]))

\* Journal::begin: opens a transaction with room for reserve records, and puts
\* back what was there before when it cannot.
Roomy(moved, before, reserve) ==
    IF moved.ok /\ moved.bytes + reserve <= LogUnits THEN moved
    ELSE [Fail(Restore(moved, before, disk)) EXCEPT !.open = txn.open]
BeginFrom(before, m, free, reserve) ==
    IF before.bytes + reserve <= LogUnits THEN m
    ELSE IF free = {} THEN [Fail(m) EXCEPT !.open = txn.open]
    ELSE Roomy(Compact([m EXCEPT !.at = Min(free), !.bytes = 0], before, before.root,
                       NextLive(disk, before.root, ExtentKey(0, 0), FALSE)),
               before, reserve)
Begin(left, reserve) ==
    LET On(before) == BeginFrom(before, Work(before, left), FreeBank(before.at), reserve)
    IN IF txn.open THEN On(txn)
       ELSE IF \A a \in Protected : Parses(disk, a) THEN On(Fresh)
       ELSE [Fail(Work(Fresh, left)) EXCEPT !.open = FALSE]

\* Cuts [offset, end) out of the extents of f that cover it, from found on.
TrimLeft(m, f, offset, held, value) ==
    IF held < offset
    THEN Insert(m, ExtentKey(f, offset), Extent(value[1], value[2], offset - held))
    ELSE m
TrimRight(m, end, key, held, value) ==
    IF ExtentEnd(key) = end THEN m
    ELSE Insert(m, key, IF ExtentEnd(key) > end
                        THEN Extent(value[1], value[2] + end - held, value[3] - (end - held))
                        ELSE Whiteout)

RECURSIVE Trim(_, _, _, _, _)
Trim(m, f, offset, end, found) ==
    IF ~m.ok \/ found = Nothing THEN m
    ELSE IF found = Corrupt THEN Fail(m)
    ELSE LET held == ExtentEnd(found[1]) - found[2][3]
             Onward(cut) == Trim(cut, f, offset, end, NextLive(cut.disk, cut.root, found[1], FALSE))
         IN IF ExtentFile(found[1]) # f \/ held >= end THEN m
            ELSE Onward(TrimRight(TrimLeft(m, f, offset, held, found[2]), end, found[1], held, found[2]))

Bigger(a, b) == IF a < b THEN b ELSE a

\* What a write does to the tree once its record is stored.
Indexed(m, f, offset, end, size) ==
    LET Trimmed(sized) == Trim(sized, f, offset, end,
                               NextLive(sized.disk, sized.root, ExtentKey(f, offset + 1), TRUE))
    IN Insert(Trimmed(Insert(m, ObjectKey(f), Plain(size))),
              ExtentKey(f, end), Extent(m.bytes - 1, 0, end - offset))

\* Mutant: a write inside the file cuts it off at the write's end.
WriteStepsTruncate(m, f, offset, len, size) ==
    Indexed(AppendRecord(m, f, offset, [i \in 1 .. len |-> ops + 1]),
            f, offset, offset + len, offset + len)

\* The steps of a write and of a create once the transaction is open.
WriteSteps(m, f, offset, len, size) ==
    Indexed(AppendRecord(m, f, offset, [i \in 1 .. len |-> ops + 1]),
            f, offset, offset + len, Bigger(size, offset + len))

CreateSteps(m, name, count) ==
    Insert(Insert(Insert(m, ObjectKey(0), Plain(count + 1)), ObjectKey(next), Plain(0)),
           DirentKey(name), Plain(next))

\* A mutation either completes or leaves the transaction it found.
OrRollback(after, m) == IF after.ok THEN after ELSE Restore(after, TxnOf(m), m.disk)
Steps(m, op) ==
    IF ~m.ok THEN m
    ELSE OrRollback(IF op.create
                    THEN CreateSteps(m, op.file, Number(Get(disk, Root, ObjectKey(0))))
                    ELSE WriteSteps(m, op.file, op.offset, op.len,
                                    Number(Get(disk, Root, ObjectKey(op.file)))), m)
Mutation(op, left) == Steps(Begin(left, op.reserve), op)

-------------------------------------------------------------------------------
(* Calls on the journal. *)

\* The device may refuse any write of a call, or none.
Faults == {Plenty} \cup IF faults < MaxFaults THEN Refused ELSE {}

Ops ==
    [create : {FALSE}, reserve : {1}, file : 1 .. next - 1,
     offset : 0 .. FileUnits - 1, len : 1 .. FileUnits]
        \cup [create : {TRUE}, reserve : {0}, file : Files, offset : {0}, len : {0}]

\* A call whose lookups fail returns before it opens a transaction.
Fits(op) ==
    IF op.create
    THEN /\ next \in Files /\ Get(disk, Root, DirentKey(op.file)) = Nothing
         /\ Number(Get(disk, Root, ObjectKey(0))) >= 0
    ELSE op.offset + op.len <= FileUnits /\ Number(Get(disk, Root, ObjectKey(op.file))) >= 0

\* What an accepted call makes of the contents.
Effect(op) ==
    IF op.create
    THEN [want EXCEPT !.names[op.file] = next, !.count = @ + 1, !.sizes[next] = 0]
    ELSE [want EXCEPT !.sizes[op.file] = Bigger(@, op.offset + op.len),
                      !.data[op.file] = [u \in DOMAIN @ |->
                          IF op.offset <= u /\ u < op.offset + op.len THEN ops + 1 ELSE @[u]]]

\* A write drops the hint before anything moves.
HintAfter(op) == IF op.create THEN hint ELSE NoHint

Mutate(op) ==
    /\ pc = "idle" /\ ops < MaxOps /\ Fits(op)
    /\ \E left \in Faults : \E m \in {Mutation(op, left)} :
          /\ disk' = m.disk /\ may' = m.may
          /\ astray' = astray \cup {d \in {"transaction"} : m.astray}
          /\ txn' = IF m.open THEN TxnOf(m) ELSE Closed
          /\ next' = IF m.ok /\ op.create THEN next + 1 ELSE next
          /\ hint' = HintAfter(op)
          /\ want' = IF m.ok THEN Effect(op) ELSE want
          /\ left # Plenty => ~m.ok
          /\ faults' = IF left # Plenty THEN faults + 1 ELSE faults
    /\ ops' = ops + 1
    /\ UNCHANGED <<mount, pc, legal>>

Write == \E op \in Ops : ~op.create /\ Mutate(op)
Create == \E op \in Ops : op.create /\ Mutate(op)

\* A read leaves behind where the extent it ended on lies.
Read(f, u) ==
    /\ pc = "idle" /\ f < next
    /\ \E found \in {NextLive(disk, Root, ExtentKey(f, u + 1), TRUE)} :
       /\ Len(found) = 2 /\ IsExtent(found[1]) /\ ExtentFile(found[1]) = f
       /\ hint' = [file |-> f, end |-> ExtentEnd(found[1]), value |-> found[2]]
    /\ UNCHANGED <<volume, mount, txn, next, pc, ops, faults, history>>

Settled == [a \in DOMAIN disk |-> {disk[a]}]

\* Mutant: the superblock may overtake what it names.
SyncFlushSkipped ==
    /\ pc = "idle"
    /\ may' = may
    /\ pc' = IF txn.open THEN "publish" ELSE "idle"
    /\ UNCHANGED <<disk, journal, ops, faults, history>>

\* sync, up to its first flush: with nothing open that is all it does.
SyncFlush ==
    /\ pc = "idle"
    /\ may' = Settled
    /\ pc' = IF txn.open THEN "publish" ELSE "idle"
    /\ UNCHANGED <<disk, journal, ops, faults, history>>

NewCheckpoint ==
    [gen |-> mount.super.gen + 1, units |-> LogUnits, root |-> txn.root, at |-> txn.at,
     bytes |-> txn.bytes, crc |-> LogChecksum(disk, txn.at, txn.bytes)]

\* write_checkpoint goes to the copy the mounted checkpoint is not in.
SyncPublish ==
    /\ pc = "publish"
    /\ LET m == Put(Work(txn, 1), 1 - mount.copy, NewCheckpoint)
       IN disk' = m.disk /\ may' = m.may
    /\ legal' = legal \cup {Now}
    /\ pc' = "commit"
    /\ UNCHANGED <<journal, ops, faults, want, astray>>

\* The second flush is the commit point.
SyncCommit ==
    /\ pc = "commit"
    /\ may' = Settled
    /\ mount' = [open |-> TRUE, super |-> NewCheckpoint, copy |-> 1 - mount.copy,
                 log |-> mount.super.at, tree |-> mount.super.root]
    /\ txn' = Closed
    /\ legal' = {Now}
    /\ astray' = {d \in {"root"} : txn.root = mount.super.root}
    /\ pc' = "idle"
    /\ UNCHANGED <<disk, next, hint, ops, faults, want>>

\* The device refuses the superblock or the flush after it: sync returns the
\* error and the transaction stays open.
SyncRefused ==
    /\ pc \in {"publish", "commit"} /\ faults < MaxFaults
    /\ pc' = "idle" /\ faults' = faults + 1
    /\ UNCHANGED <<volume, journal, ops, history>>

-------------------------------------------------------------------------------
(* Power cuts, restarts and mounts. *)

\* The blocks some superblock a cut may leave behind can reach.
RECURSIVE Spanned(_, _)
Spanned(left, blocks) ==
    LET more == UNION {{l[1] : l \in ToSet(v.links)} :
                        v \in {w \in UNION {left[b] : b \in blocks} : IsNode(w) /\ w.level > 0}}
    IN IF more \subseteq blocks THEN blocks ELSE Spanned(left, blocks \cup more)

Reachable(left) ==
    LET supers == {v \in UNION {left[c] : c \in Supers} : IsSuper(v)}
    IN Supers \cup Spanned(left, {s.root : s \in supers})
           \cup UNION {s.at .. s.at + s.bytes - 1 : s \in supers}

\* What those blocks may hold; what the rest holds is never read.
Surviving(left) == [a \in Reachable(left) |-> left[a]]

\* Each unflushed block keeps any value written to it.
Outcomes(left) ==
    FoldSet(LAMBDA a, kept : {k @@ (a :> v) : k \in kept, v \in left[a]}, {<<>>}, DOMAIN left)

\* Nothing in memory outlives the service; the transaction's damage goes with it.
Down ==
    /\ mount' = Closed /\ txn' = Closed /\ next' = 0 /\ hint' = NoHint /\ pc' = "down"
    /\ want' = {} /\ astray' = astray \ {"transaction"}
    /\ UNCHANGED <<ops, faults, legal>>

\* Power goes between two calls, inside sync, or at any write of a mutation.
PowerLoss ==
    /\ pc # "down"
    /\ \E left \in {Surviving(m) : m \in {may} \cup
             IF pc # "idle" \/ ops = MaxOps THEN {}
             ELSE UNION {Mutation(op, Plenty).cuts : op \in {o \in Ops : Fits(o)}}} :
       \E kept \in Outcomes(left) :
          /\ disk' = [a \in DOMAIN disk |-> IF a \in DOMAIN kept THEN kept[a] ELSE Torn]
          /\ may' = [a \in DOMAIN disk |-> {disk'[a]}]
    /\ Down

\* The service restarts on the device as it is.
Restart == pc = "idle" /\ Down /\ UNCHANGED volume

Mounts(found) == found.open /\ Replays(disk, found.super)

Mount ==
    /\ pc = "down"
    /\ \E found \in {Survey(disk)} :
          /\ Mounts(found)
          /\ mount' = found
          /\ next' = Objects(disk, found.super.root)
          /\ want' = View(disk, found.super.root, found.super.at, found.super.bytes)
          /\ legal' = {want'}
          /\ astray' = {}
    /\ pc' = "idle"
    /\ UNCHANGED <<volume, txn, hint, ops, faults>>

\* The image as built: the root directory and one full file, its bytes in the
\* first record of the first bank, and both superblock copies alike.
ImagePayload == [i \in 1 .. FileUnits |-> MaxOps + 1]
ImageTree ==
    LET keys == <<ObjectKey(0), ObjectKey(1), DirentKey(1), ExtentKey(1, FileUnits)>>
        values == <<Plain(1), Plain(FileUnits), Plain(1), Extent(0, 0, FileUnits)>>
        cut == IF Capacity < 4 THEN Capacity ELSE 4
    IN IF cut = 4 THEN <<NodeOf(0, 1, keys, values)>>
       ELSE <<NodeOf(0, 1, SubSeq(keys, 1, cut), SubSeq(values, 1, cut)),
              NodeOf(0, 1, SubSeq(keys, cut + 1, 4), SubSeq(values, cut + 1, 4)),
              NodeOf(1, 1, <<keys[cut + 1]>>, <<Child(TreeAt), Child(TreeAt + 1)>>)>>

Image(units) ==
    LET record == [object |-> 1, offset |-> 0, payload |-> ImagePayload]
        super == [gen |-> 1, units |-> units, root |-> TreeAt + Len(ImageTree) - 1, at |-> LogAt,
                  bytes |-> 1, crc |-> <<<<1, 0, FileUnits>>>>]
    IN [a \in 0 .. LastBlock |->
           CASE a \in Supers -> super
             [] a - TreeAt + 1 \in DOMAIN ImageTree -> ImageTree[a - TreeAt + 1]
             [] a = LogAt -> record
             [] OTHER -> Torn]

Init ==
    /\ \E units \in LogSizes : disk = Image(units)
    /\ may = [a \in 0 .. LastBlock |-> {disk[a]}]
    /\ mount = Survey(disk)
    /\ txn = Closed /\ next = 2 /\ hint = NoHint /\ pc = "idle" /\ ops = 0 /\ faults = 0
    /\ want = View(disk, mount.super.root, LogAt, 1)
    /\ legal = {want} /\ astray = {}

Next ==
    \/ Write
    \/ Create
    \/ \E f \in Files, u \in 0 .. FileUnits - 1 : Read(f, u)
    \/ SyncFlush
    \/ SyncPublish
    \/ SyncCommit
    \/ PowerLoss
    \/ Restart
    \/ Mount

\* Bound: a behaviour ends where sync publishes a transaction that lost nodes, or
\* publishes again over the one copy that verifies.
Intact == pc = "commit" => astray = {}

Spec == Init /\ [][Next]_vars

\* The same journal on a device whose writes and flushes may fail under sync.
FaultySpec == Init /\ [][Next \/ SyncRefused]_vars

\* A client that never syncs: one transaction takes every call.
OneTransactionSpec == Init /\ [][Write \/ Create]_vars

-------------------------------------------------------------------------------
\* The medium holds one of the contents it may hold, positions stay inside their
\* banks and the arena, and a protected block is always a used one
\* (Transaction, TreeTransaction).
TypeOK ==
    /\ DOMAIN disk = 0 .. LastBlock /\ \A a \in 0 .. LastBlock : disk[a] \in may[a]
    /\ mount.open <=> pc # "down"
    /\ mount.open => /\ mount.copy \in Supers /\ mount.super.at \in Banks
                     /\ mount.super.bytes \in 0 .. LogUnits
    /\ txn.open => /\ txn.at \in Banks /\ txn.bytes \in 0 .. LogUnits
                   /\ txn.prot \subseteq txn.used /\ txn.used \subseteq Arena
    /\ next \in {0, 2, 3} /\ pc \in {"idle", "publish", "commit", "down"} /\ ops \in 0 .. MaxOps

(* After a power cut at any device write, or a restart, a mount succeeds and *)
(* returns exactly the last synced contents or, when a sync was under way,   *)
(* exactly the contents it was publishing: the two flushes of Journal::sync, *)
(* the COW arena, free_bank and Volume::survey together, whatever calls were *)
(* refused before.  Behaviours end at the publications Intact names.         *)
RecoveryComplete ==
    pc = "down" =>
        \E found \in {Survey(disk)} :
           /\ Mounts(found)
           /\ View(disk, found.super.root, found.super.at, found.super.bytes) \in legal

\* The tree nodes and log records that the mounted and the previous checkpoint
\* name.
Live ==
    LET other == disk[1 - mount.copy]
        Slots(s) == s.at .. s.at + s.bytes - 1
    IN Reached(disk, mount.super.root) \cup Slots(mount.super)
         \cup IF pc # "commit" /\ IsSuper(other) /\ mount.log # NoBank
              THEN Reached(disk, mount.tree) \cup Slots(other) ELSE {}

(* An open transaction, its compactions and its rollbacks never touch a block *)
(* either durable checkpoint reaches: begin's protected map, write_new's      *)
(* first_clear and free_bank keep both generations on stable storage.         *)
BothGenerationsDurable == pc # "down" => \A a \in Live : may[a] = {disk[a]}

(* A caller reads back what the accepted calls wrote, through trims, node     *)
(* splits, compaction, rollback and sync: names, sizes and every unit of      *)
(* every file.                                                                *)
ReadsBack == pc # "down" => Now = want

(* The extent a read left as a hint is still the one the tree holds, so the   *)
(* next read may skip the descent: write drops the hint before it compacts or *)
(* trims, and nothing else moves an extent.                                   *)
HintFresh ==
    hint # NoHint =>
        Get(disk, Root, ExtentKey(hint.file, hint.end)) = Entry(ExtentKey(hint.file, hint.end), hint.value)

(* Contents, hints and the transaction's own books agree through trims,       *)
(* splits, compaction, refused writes, rollback and sync: a read returns what *)
(* was written whether it starts from the hint or from the root, and a        *)
(* transaction protects only blocks in use.  Contents are lost in two ways    *)
(* only, and astray marks both: a compaction of an open transaction whose     *)
(* walk met nodes its own inserts had replaced (compact), and a rollback to   *)
(* a root whose nodes the failed call had released and overwritten (the       *)
(* copy snapshot took).                                                       *)
ContentsExact == TypeOK /\ ("transaction" \notin astray => ReadsBack /\ HintFresh)
===============================================================================
