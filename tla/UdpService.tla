----------------------------- MODULE UdpService -----------------------------
(***************************************************************************)
(* stack/udp service.rs: UDP over the IP ring. Two scratch buffers carry   *)
(* the bytes: `tx` is written here and read by the IP service when the     *)
(* frame leaves, `rx` is written there and read here when the answer is    *)
(* taken. The lower ring outlives a restart of this service (cell.rs), so  *)
(* which of its three requests are in flight does too.                     *)
(*                                                                         *)
(* A datagram is a record: its port, its length and a tag for its bytes.   *)
(***************************************************************************)
EXTENDS IpService

CONSTANT UdpRing

MAX_PAYLOAD == 1
UDP == 17

Blank(n) == [i \in 1..n |-> None]

\* A service with n sockets and an inbox of m datagrams.
UdpNew(n, m) == [sub |-> <<>>, com |-> <<>>, sockets |-> NewTable(n), bound |-> Blank(n),
                 receives |-> Blank(n), inbox |-> Blank(m), endpoint |-> None, bindIn |-> FALSE,
                 recvIn |-> FALSE, sendIn |-> FALSE, send |-> None, held |-> None, tx |-> 0, rx |-> None]

\* Mutant: the lower ring's state is forgotten with the rest.
ResetForgets(u) ==
  [u EXCEPT !.sockets = RevokeAll(@), !.bound = Blank(Len(@)), !.receives = Blank(Len(@)),
            !.inbox = Blank(Len(@)), !.send = None, !.held = None, !.sendIn = FALSE]

\* reset: the restart hook.
Reset(u) ==
  [u EXCEPT !.sockets = RevokeAll(@), !.bound = Blank(Len(@)), !.receives = Blank(Len(@)),
            !.inbox = Blank(Len(@)), !.send = None, !.held = None]

\* Slots whose socket is gone are emptied.
Kept(table, slots) ==
  [i \in DOMAIN slots |-> IF slots[i] # None /\ ~Valid(table, slots[i].cap) THEN None ELSE slots[i]]

\* revoke: every socket of a restarted client.
RevokeClient(u, owner) ==
  LET t == RevokeOwner(u.sockets, owner)
  IN [u EXCEPT !.sockets = t, !.bound = Kept(t, @), !.receives = Kept(t, @), !.inbox = Kept(t, @),
               !.send = IF @ # None /\ ~Valid(t, @.cap) THEN None ELSE @]

Refuse(u, q, why) == Publish(u, Answer(q.id, why, None), UdpRing)

\* Mutant: a port that is bound already is bound again.
UdpBindAgain(u, q) ==
  IF q.port = 0 THEN Refuse(u, q, "Taken")
  ELSE IF Room(u.sockets) = 0 THEN Refuse(u, q, "Full")
  ELSE LET cap == Named(u.sockets, Room(u.sockets))
       IN Publish([u EXCEPT !.sockets = Insert(@, Room(u.sockets), q.owner, q.port),
                            !.bound[First(u.bound, IsNone)] = [port |-> q.port, cap |-> cap]],
                  Answer(q.id, "Bound", cap), UdpRing)

UdpBind(u, q) ==
  IF q.port = 0 \/ (\E i \in DOMAIN u.bound : u.bound[i] # None /\ u.bound[i].port = q.port)
  THEN Refuse(u, q, "Taken")
  ELSE IF Room(u.sockets) = 0 THEN Refuse(u, q, "Full")
  ELSE LET cap == Named(u.sockets, Room(u.sockets))
           t == [u EXCEPT !.sockets = Insert(@, Room(u.sockets), q.owner, q.port)]
           b == First(u.bound, IsNone)
       IN IF b = 0 THEN Refuse(t, q, "Full")
          ELSE Publish([t EXCEPT !.bound[b] = [port |-> q.port, cap |-> cap]],
                       Answer(q.id, "Bound", cap), UdpRing)

Pair(u, s) == [u |-> u, s |-> s]

SendOp(u, q) ==
  [id |-> "send", op |-> "Send", cap |-> u.endpoint, to |-> q.to, len |-> q.len, tag |-> q.tag]

\* start_send: the scratch buffer is written, then the request is offered below.
UdpSend(u, s, q, resolves) ==
  IF u.endpoint = None \/ u.sendIn THEN Pair(Refuse(u, q, "Busy"), s)
  ELSE IF ~Valid(u.sockets, q.cap) THEN Pair(Refuse(u, q, "Capability"), s)
  ELSE IF ~resolves THEN Pair(Refuse(u, q, "Buffer"), s)
  ELSE IF q.len > MAX_PAYLOAD THEN Pair(Refuse(u, q, "TooLarge"), s)
  ELSE LET written == [u EXCEPT !.tx = q.tag]
       IN IF q.to = "other" THEN Pair(Refuse(written, q, "Malformed"), s)
          ELSE IF Len(s.sub) >= IpRing["udp"] THEN Pair(Refuse(written, q, "Busy"), s)
          ELSE Pair([written EXCEPT !.sendIn = TRUE, !.send = [id |-> q.id, cap |-> q.cap]],
                    [s EXCEPT !.sub = Append(@, SendOp(u, q))])

\* deliver: one datagram into one receive's buffer.
Handed(u, stored, r, resolves) ==
  IF stored.len > r.len THEN Refuse(u, r, "TooLarge")
  ELSE IF ~resolves THEN Refuse(u, r, "Buffer")
  ELSE Publish(u, Answer(r.id, "Received", None), UdpRing)

StoredFor(u, cap) == First(u.inbox, LAMBDA d : d # None /\ d.cap = cap)

UdpRecv(u, q, resolves) ==
  IF ~Valid(u.sockets, q.cap) THEN Refuse(u, q, "Capability")
  ELSE IF \E i \in DOMAIN u.receives : u.receives[i] # None /\ u.receives[i].cap = q.cap THEN Refuse(u, q, "Busy")
  ELSE IF StoredFor(u, q.cap) # 0
  THEN Handed([u EXCEPT !.inbox[StoredFor(u, q.cap)] = None], u.inbox[StoredFor(u, q.cap)], q, resolves)
  ELSE IF First(u.receives, IsNone) = 0 THEN Refuse(u, q, "Full")
  ELSE [u EXCEPT !.receives[First(u.receives, IsNone)] = q]

\* Slots of one socket are emptied.
Without(slots, cap) == [i \in DOMAIN slots |-> IF slots[i] # None /\ slots[i].cap = cap THEN None ELSE slots[i]]

UdpClose(u, q) ==
  IF (\E i \in DOMAIN u.receives : u.receives[i] # None /\ u.receives[i].cap = q.cap)
       \/ (u.send # None /\ u.send.cap = q.cap)
  THEN Refuse(u, q, "Busy")
  ELSE IF ~Valid(u.sockets, q.cap) THEN Refuse(u, q, "Capability")
  ELSE Publish([u EXCEPT !.sockets = Revoke(@, q.cap),
                         !.bound = Without(@, q.cap),
                         !.inbox = Without(@, q.cap)],
               Answer(q.id, "Closed", None), UdpRing)

\* arm_ip: the protocol is bound once, then one receive is kept in flight.
ArmIp(u, s) ==
  IF u.endpoint = None
  THEN IF u.bindIn \/ Len(s.sub) >= IpRing["udp"] THEN Pair(u, s)
       ELSE Pair([u EXCEPT !.bindIn = TRUE],
                 [s EXCEPT !.sub = Append(@, [id |-> "bind", op |-> "Bind", protocol |-> UDP])])
  ELSE IF u.recvIn \/ Len(s.sub) >= IpRing["udp"] THEN Pair(u, s)
  ELSE Pair([u EXCEPT !.recvIn = TRUE],
            [s EXCEPT !.sub = Append(@, [id |-> "recv", op |-> "Recv", cap |-> u.endpoint, len |-> MTU])])

\* receive: the datagram in `rx` goes to a waiting receive, the inbox, or nowhere.
Receive(u, d, life) ==
  LET b == First(u.bound, LAMBDA x : x # None /\ x.port = d.port)
  IN IF ~d.good \/ b = 0 \/ d.len > MAX_PAYLOAD THEN u
     ELSE LET cap == u.bound[b].cap
              stored == [cap |-> cap, len |-> d.len]
              r == First(u.receives, LAMBDA x : x # None /\ x.cap = cap)
              slot == First(u.inbox, IsNone)
          IN IF r # 0
             THEN Handed([u EXCEPT !.receives[r] = None], stored, u.receives[r], Resolvable(u.receives[r], life))
             ELSE IF slot = 0 THEN u ELSE [u EXCEPT !.inbox[slot] = stored]

Sent(u, a) ==
  IF u.send = None THEN u
  ELSE Publish([u EXCEPT !.send = None],
               Answer(u.send.id, IF a.res = "Sent" THEN "Sent" ELSE "Ip", None), UdpRing)

\* One answer from below. What `tx` or `rx` held is not read again.
PumpIp(u, a, life) ==
  CASE a.id = "bind" -> [u EXCEPT !.bindIn = FALSE, !.endpoint = IF a.res = "Bound" THEN a.val ELSE @]
    [] a.id = "recv" -> IF a.res = "Received" THEN Receive([u EXCEPT !.recvIn = FALSE, !.rx = None], u.rx, life)
                        ELSE [u EXCEPT !.recvIn = FALSE]
    [] a.id = "send" -> Sent([u EXCEPT !.sendIn = FALSE, !.tx = 0], a)

\* pump_ip: every answer there is, until one of ours has to be held back.
RECURSIVE UdpPumped(_, _, _)
UdpPumped(u, s, life) ==
  IF s.com = <<>> \/ u.held # None THEN ArmIp(u, s)
  ELSE UdpPumped(PumpIp(u, Head(s.com), life), [s EXCEPT !.com = Tail(@)], life)

UdpApply(u, s, q, resolves) ==
  CASE q.op = "Bind" -> Pair(UdpBind(u, q), s)
    [] q.op = "Send" -> UdpSend(u, s, q, resolves)
    [] q.op = "Recv" -> Pair(UdpRecv(u, q, resolves), s)
    [] q.op = "Close" -> Pair(UdpClose(u, q), s)

RECURSIVE UdpDrained(_, _)
UdpDrained(p, life) ==
  IF p.u.sub = <<>> \/ p.u.held # None THEN ArmIp(p.u, p.s)
  ELSE UdpDrained(UdpApply([p.u EXCEPT !.sub = Tail(@)], p.s, Head(p.u.sub), Resolvable(Head(p.u.sub), life)), life)

\* serve.
UdpServed(u, s, life) ==
  LET flushed == Flush(u, UdpRing)
  IN IF flushed.held # None THEN Pair(flushed, s)
     ELSE LET pumped == UdpPumped(flushed, s, life)
          IN IF pumped.u.held # None THEN pumped ELSE UdpDrained(pumped, life)

UdpOwes(u) ==
  {u.receives[i].id : i \in {j \in DOMAIN u.receives : u.receives[j] # None}}
    \cup (IF u.send = None THEN {} ELSE {u.send.id}) \cup (IF u.held = None THEN {} ELSE {u.held.id})
=============================================================================
