----------------------------- MODULE TcpService -----------------------------
(***************************************************************************)
(* stack/tcp service.rs: streams behind capabilities, one parked request   *)
(* each. A stream itself is smoltcp's: its connection state, whether bytes *)
(* wait in it and whether it has room, moved by every `poll`.              *)
(***************************************************************************)
EXTENDS Capabilities

CONSTANT TcpRing

Shut == [state |-> "Closed", rx |-> FALSE, room |-> TRUE]

\* A service with n streams.
TcpNew(n) == [sub |-> <<>>, com |-> <<>>, sockets |-> NewTable(n), held |-> None,
              owner |-> [i \in 1..n |-> None], parked |-> [i \in 1..n |-> None],
              streams |-> [i \in 1..n |-> Shut]]

(***************************************************************************)
(* smoltcp (external).                                                     *)
(***************************************************************************)
MaySend(x) == x.state \in {"Established", "CloseWait"}
MayRecv(x) == x.state = "Established" \/ x.rx

In(state) == [Shut EXCEPT !.state = state]

\* What one poll may make of a stream: the handshake, bytes, a close, a reset.
\* Bytes that came before a reset can still be read.
Moves(x) ==
  {x} \cup
  CASE x.state = "Listen" -> {In("SynReceived")}
    [] x.state = "SynReceived" -> {In("Established"), In("Listen")}
    [] x.state = "SynSent" -> {In("Established"), Shut}
    [] x.state = "Established" -> {[x EXCEPT !.rx = TRUE], [x EXCEPT !.room = TRUE],
                                   [x EXCEPT !.state = "CloseWait"], [x EXCEPT !.state = "Closed"]}
    [] x.state = "CloseWait" -> {[x EXCEPT !.room = TRUE], [x EXCEPT !.state = "Closed"]}
    [] x.state = "Closing" -> {Shut}
    [] OTHER -> {}

Polls(t) == {streams \in [DOMAIN t.streams -> UNION {Moves(x) : x \in ToSet(t.streams)}] :
               \A i \in DOMAIN streams : streams[i] \in Moves(t.streams[i])}

\* Socket::close: a stream with a peer says goodbye first.
Closed(x) == IF MaySend(x) \/ x.state = "SynReceived" THEN In("Closing") ELSE Shut

(***************************************************************************)
(* The service.                                                            *)
(***************************************************************************)
Free(t) ==
  LET free == {i \in DOMAIN t.owner : t.owner[i] = None /\ t.streams[i].state = "Closed"}
  IN IF free = {} THEN 0 ELSE CHOOSE i \in free : \A j \in free : i <= j

Failed(t, q, why) == Publish(t, Answer(q.id, why, None), TcpRing)

\* hold: the stream's capability, or the open undone.
Hold(t, q, i) ==
  IF Room(t.sockets) = 0 THEN [t EXCEPT !.streams[i] = Shut]
  ELSE [t EXCEPT !.sockets = Insert(@, Room(t.sockets), q.owner, i),
                 !.owner[i] = Named(t.sockets, Room(t.sockets))]

Task(q, work, cap) == [id |-> q.id, work |-> work, cap |-> cap, life |-> q.life, fits |-> q.fits]

Listen(t, q) ==
  IF q.port = 0 THEN Failed(t, q, "Unaddressable")
  ELSE IF Free(t) = 0 THEN Failed(t, q, "Full")
  ELSE LET i == Free(t)
           h == Hold([t EXCEPT !.streams[i] = In("Listen")], q, i)
       IN IF h.owner[i] = None THEN Failed(h, q, "Full")
          ELSE Publish(h, Answer(q.id, "Opened", h.owner[i]), TcpRing)

Connect(t, q) ==
  IF Free(t) = 0 THEN Failed(t, q, "Full")
  ELSE IF q.port = 0 THEN Failed(t, q, "Unaddressable")
  ELSE LET i == Free(t)
           h == Hold([t EXCEPT !.streams[i] = In("SynSent")], q, i)
       IN IF h.owner[i] = None THEN Failed(h, q, "Full")
          ELSE [h EXCEPT !.parked[i] = Task(q, "Connect", h.owner[i])]

Park(t, q, i) ==
  IF t.parked[i] # None THEN Failed(t, q, "Busy")
  ELSE [t EXCEPT !.parked[i] = Task(q, q.op, q.cap)]

CloseStream(t, q, i) ==
  IF t.parked[i] # None THEN Failed(t, q, "Busy")
  ELSE Publish([t EXCEPT !.streams[i] = Closed(@), !.sockets = Revoke(@, q.cap), !.owner[i] = None],
               Answer(q.id, "Closed", None), TcpRing)

TcpApply(t, q) ==
  CASE q.op = "Listen" -> Listen(t, q)
    [] q.op = "Connect" -> Connect(t, q)
    [] q.op \in {"Send", "Recv", "Close"} ->
         IF ~Valid(t.sockets, q.cap) THEN Failed(t, q, "Capability")
         ELSE IF q.op = "Close" THEN CloseStream(t, q, t.sockets[q.cap.slot].resource)
         ELSE Park(t, q, t.sockets[q.cap.slot].resource)

\* progress: "wait" while the stream cannot serve the request.
RecvProgress(x) ==
  CASE x.state = "Closed" -> "Reset"
    [] x.state \in {"Listen", "SynSent", "SynReceived"} \/ MayRecv(x) -> "wait"
    [] OTHER -> "Received"

Progress(x, work, resolves) ==
  CASE work = "Connect" -> IF x.state = "Closed" THEN "Reset" ELSE IF MaySend(x) THEN "Opened" ELSE "wait"
    [] work = "Send" -> IF ~MaySend(x) THEN "Reset" ELSE IF ~x.room THEN "wait"
                        ELSE IF ~resolves THEN "Buffer" ELSE "Sent"
    [] work = "Recv" -> IF ~x.rx THEN RecvProgress(x) ELSE IF ~resolves THEN "Buffer" ELSE "Received"

\* What a request that was served leaves of the stream's buffers.
Used(x, work, res) ==
  CASE work = "Send" /\ res = "Sent" -> [x EXCEPT !.room = FALSE]
    [] work = "Recv" /\ res = "Received" -> [x EXCEPT !.rx = FALSE]
    [] OTHER -> x

Resumed(t, i, p, res) ==
  IF res = "wait" THEN t
  ELSE Publish([t EXCEPT !.parked[i] = None, !.streams[i] = Used(@, p.work, res)],
               Answer(p.id, res, IF res = "Opened" THEN p.cap ELSE None), TcpRing)

\* resume: each parked request in turn, until an answer has to be held back.
ResumeAll(t, life) ==
  FoldLeft(LAMBDA s, i : IF s.held # None \/ s.parked[i] = None THEN s
                         ELSE Resumed(s, i, s.parked[i], Progress(s.streams[i], s.parked[i].work,
                                                                  Resolvable(s.parked[i], life))),
           t, [i \in DOMAIN t.parked |-> i])

RECURSIVE TcpDrained(_)
TcpDrained(t) ==
  IF t.sub = <<>> \/ t.held # None THEN t ELSE TcpDrained(TcpApply([t EXCEPT !.sub = Tail(@)], Head(t.sub)))

\* serve's two halves, each a poll and what the streams can now answer. An
\* answer that has to be held back ends it.
Polled(t, streams, life) ==
  IF t.held # None THEN t ELSE ResumeAll([t EXCEPT !.streams = streams], life)

TcpReset(t) ==
  [t EXCEPT !.sockets = RevokeAll(@), !.owner = [i \in DOMAIN @ |-> None],
            !.parked = [i \in DOMAIN @ |-> None], !.held = None,
            !.streams = [i \in DOMAIN @ |-> Shut]]

\* revoke: every stream of a restarted client.
TcpRevoke(t, owner) ==
  LET table == RevokeOwner(t.sockets, owner)
      gone == {i \in DOMAIN t.owner : t.owner[i] # None /\ ~Valid(table, t.owner[i])}
  IN [t EXCEPT !.sockets = table,
               !.owner = [i \in DOMAIN @ |-> IF i \in gone THEN None ELSE @[i]],
               !.parked = [i \in DOMAIN @ |-> IF i \in gone THEN None ELSE @[i]],
               !.streams = [i \in DOMAIN @ |-> IF i \in gone THEN Shut ELSE @[i]]]

TcpOwes(t) ==
  {t.parked[i].id : i \in {j \in DOMAIN t.parked : t.parked[j] # None}} \cup (IF t.held = None THEN {} ELSE {t.held.id})
=============================================================================
