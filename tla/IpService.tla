----------------------------- MODULE IpService ------------------------------
(***************************************************************************)
(* stack/net service.rs and neighbor.rs: the IP service of one link, the   *)
(* ring its transport talks to it over, and the cache that discovery (ARP  *)
(* or ICMPv6) fills. A frame is what its parsers make of it; hardware      *)
(* addresses, headers and payload bytes are left out. The link takes each  *)
(* frame, is busy, or fails.                                               *)
(*                                                                         *)
(* A serve borrows the buffer registry and so runs to its end; the ring's  *)
(* own concurrency is SpscRing's subject.                                  *)
(***************************************************************************)
EXTENDS Capabilities

CONSTANTS IpRing,       \* IpRing[transport]: slots of the ring
          Stations      \* the other hosts of the link

VARIABLES ip,           \* Ip and its ring
          family        \* 4 or 6: the family of Config::addr

LinkResults == {"Ok", "Busy", "Device"}

MTU == 1

\* A service with n protocol slots, receive slots and neighbours.
IpNew(n) == [sub |-> <<>>, com |-> <<>>, protocols |-> NewTable(n), bound |-> [i \in 1..n |-> 0],
             cache |-> <<>>, receives |-> [i \in 1..n |-> None], send |-> None, held |-> None,
             asked |-> {}, missed |-> FALSE]

\* Cache::learn: the entry it has, a free one, else the first.
Learn(cache, n, station) ==
  IF station \in ToSet(cache) THEN cache
  ELSE IF Len(cache) < n THEN Append(cache, station)
  ELSE [cache EXCEPT ![1] = station]

\* next_hop: on-link, the gateway, or no family in common. A destination is a
\* station, "far", "group" or "other".
NextHop(to) ==
  CASE to = "other" -> "none"
    [] to = "group" -> IF family = 6 THEN "group" ELSE "none"
    [] to = "far" -> "gateway"
    [] OTHER -> to

Resolved(s, hop) == hop = "group" \/ hop \in ToSet(s.cache)

\* try_send, given whether the payload's buffer still resolves.
TrySend(s, q, resolves, link) ==
  IF ~Valid(s.protocols, q.cap) THEN "Capability"
  ELSE IF ~resolves THEN "Buffer"
  ELSE IF NextHop(q.to) = "none" THEN "Unsupported"
  ELSE IF ~Resolved(s, NextHop(q.to)) /\ link = "Ok" THEN "Waiting"
  ELSE IF Resolved(s, NextHop(q.to)) /\ q.len > MTU THEN "TooLarge"
  ELSE CASE link = "Ok" -> "Sent" [] link = "Busy" -> "Retry" [] link = "Device" -> "Link"

\* A send that has to wait asked for its next hop, once. `asked` is what the link
\* has not answered yet; `missed` that the answer came and was refused.
Settle(s, q, out, room) ==
  CASE out = "Waiting" -> [s EXCEPT !.send = [q |-> q, waiting |-> TRUE],
                                    !.asked = @ \cup {NextHop(q.to)}, !.missed = FALSE]
    [] out = "Retry" -> [s EXCEPT !.send = [q |-> q, waiting |-> FALSE]]
    [] OTHER -> Publish([s EXCEPT !.send = None, !.missed = FALSE], Answer(q.id, out, None), room)

Retry(s, resolves, link, room) ==
  IF s.send = None \/ (s.send # None /\ s.send.waiting) THEN s
  ELSE Settle(s, s.send.q, TrySend(s, s.send.q, resolves, link), room)

\* Mutant: the parked send still counts as waiting for its neighbour.
ResumeWaiting(s, resolves, link, room) == Retry(s, resolves, link, room)

\* resume: a send parked on a neighbour that is now in the cache.
Resume(s, resolves, link, room) ==
  IF s.send = None THEN s
  ELSE IF ~Resolved(s, NextHop(s.send.q.to)) THEN s
  ELSE Retry([s EXCEPT !.send.waiting = FALSE], resolves, link, room)

ParkedResolves(s, life) == s.send # None => Resolvable(s.send.q, life)

Stopped(s) == s.send # None \/ s.held # None

IpBind(s, q, room) ==
  IF q.protocol \in ToSet(s.bound) THEN Publish(s, Answer(q.id, "Taken", None), room)
  ELSE IF Room(s.protocols) = 0 THEN Publish(s, Answer(q.id, "Full", None), room)
  ELSE LET i == Room(s.protocols)
           b == First(s.bound, LAMBDA p : p = 0)
           t == [s EXCEPT !.protocols = Insert(@, i, 1, q.protocol)]
       IN IF b = 0 THEN Publish(t, Answer(q.id, "Full", None), room)
          ELSE Publish([t EXCEPT !.bound[b] = q.protocol], Answer(q.id, "Bound", Named(s.protocols, i)), room)

Protocol(s, cap) == IF Valid(s.protocols, cap) THEN s.protocols[cap.slot].resource ELSE 0

WaitsFor(s, protocol) ==
  First(s.receives, LAMBDA r : r # None /\ protocol # 0 /\ Protocol(s, r.cap) = protocol)

IpRecv(s, q, room) ==
  IF ~Valid(s.protocols, q.cap) THEN Publish(s, Answer(q.id, "Capability", None), room)
  ELSE IF WaitsFor(s, Protocol(s, q.cap)) # 0 THEN Publish(s, Answer(q.id, "Busy", None), room)
  ELSE IF First(s.receives, IsNone) = 0 THEN Publish(s, Answer(q.id, "Full", None), room)
  ELSE [s EXCEPT !.receives[First(s.receives, IsNone)] = q]

IpClose(s, q, room) ==
  IF \E i \in DOMAIN s.receives : s.receives[i] # None /\ s.receives[i].cap = q.cap
  THEN Publish(s, Answer(q.id, "Busy", None), room)
  ELSE IF ~Valid(s.protocols, q.cap) THEN Publish(s, Answer(q.id, "Capability", None), room)
  ELSE LET p == Protocol(s, q.cap)
       IN Publish([s EXCEPT !.protocols = Revoke(@, q.cap),
                            !.bound[First(s.bound, LAMBDA b : b = p)] = 0],
                  Answer(q.id, "Closed", None), room)

IpApply(s, q, resolves, link, room) ==
  CASE q.op = "Bind" -> IpBind(s, q, room)
    [] q.op = "Send" -> Settle(s, q, TrySend(s, q, resolves, link), room)
    [] q.op = "Recv" -> IpRecv(s, q, room)
    [] q.op = "Close" -> IpClose(s, q, room)

RECURSIVE IpDrained(_, _, _, _)
IpDrained(s, life, link, room) ==
  IF s.sub = <<>> \/ Stopped(s) THEN s
  ELSE IpDrained(IpApply([s EXCEPT !.sub = Tail(@)], Head(s.sub), Resolvable(Head(s.sub), life), link, room),
                 life, link, room)

\* serve: the link answers a parked send first and the ring's sends after it.
IpServed(s, life, first, link, room) ==
  LET flushed == Flush(s, room)
  IN IF flushed.held # None THEN flushed
     ELSE IpDrained(Retry(flushed, ParkedResolves(flushed, life), first, room), life, link, room)

(***************************************************************************)
(* Frames: discovery asked of us or answered to us, and payload for a      *)
(* protocol. A station asking with no address of its own is "unspecified", *)
(* one with an address of the family this host does not have is "foreign"; *)
(* ICMPv6 from off the link is not `near`. Every host has a link-local     *)
(* IPv6 address to be asked for. An echo is answered without any change of *)
(* state and left out.                                                     *)
(***************************************************************************)
Discovers(type) == IF type = "Arp" THEN 4 ELSE 6

Hosts(type) == IF Discovers(type) = family THEN Stations ELSE {"foreign"}

Mine(type) == IF type = "Arp" /\ family = 6 THEN {FALSE} ELSE BOOLEAN

Near(type) == IF type = "Arp" THEN {TRUE} ELSE BOOLEAN

Asks(type) ==
  [kind : {"ask"}, type : {type}, from : Hosts(type) \cup {"unspecified"}, us : Mine(type), near : Near(type)]

Answers(type) == [kind : {"answer"}, type : {type}, from : Hosts(type), near : Near(type)]

Frames(types, payloads) ==
  UNION {Asks(type) \cup Answers(type) : type \in types}
    \cup [kind : {"data"}, payload : payloads] \cup [kind : {"malformed"}]

Known(s, station) == [s EXCEPT !.cache = Learn(@, Len(s.receives), station)]

\* ingest_arp: whoever asks is learned; a reply the link refuses ends the step.
IngestArp(s, f, resolves, reply, link, room) ==
  LET learned == Known(s, f.from)
  IN IF f.kind = "ask" /\ f.us /\ reply # "Ok" THEN learned ELSE Resume(learned, resolves, link, room)

\* ingest_icmpv6: discovery from off the link, or for another host, is ignored.
IngestIcmpv6(s, f, resolves, reply, link, room) ==
  IF ~f.near \/ (f.kind = "ask" /\ ~f.us) THEN s
  ELSE LET learned == IF f.from = "unspecified" THEN s ELSE Known(s, f.from)
       IN IF f.kind = "ask" /\ reply # "Ok" THEN learned ELSE Resume(learned, resolves, link, room)

\* deliver: the receive is taken before its buffer is looked up.
Deliver(s, p, resolves, room) ==
  LET i == WaitsFor(s, p.protocol)
  IN IF i = 0 THEN s
     ELSE IF p.len > s.receives[i].len
     THEN Publish([s EXCEPT !.receives[i] = None], Answer(s.receives[i].id, "TooLarge", None), room)
     ELSE IF ~resolves THEN [s EXCEPT !.receives[i] = None]
     ELSE Publish([s EXCEPT !.receives[i] = None], Answer(s.receives[i].id, "Received", p), room)

\* ingest: a service holding an answer back takes no frame, and the frame is gone.
\* Discovery is told apart by its ether type, whatever the host's own family.
Ingested(s, f, resolves, reply, link, room) ==
  IF s.held # None \/ f.kind = "malformed" THEN s
  ELSE IF f.kind = "data" THEN Deliver(s, f.payload, resolves, room)
  ELSE IF f.type = "Arp" THEN IngestArp(s, f, resolves, reply, link, room)
  ELSE IngestIcmpv6(s, f, resolves, reply, link, room)

\* The link's answer to a question of ours.
AnswerTo(hop) ==
  [kind |-> "answer", type |-> IF family = 4 THEN "Arp" ELSE "Icmpv6", from |-> hop, near |-> TRUE]

Waiting(s, hop) == s.send # None /\ s.send.waiting /\ NextHop(s.send.q.to) = hop

Heard(s, hop) == [s EXCEPT !.asked = @ \ {hop}, !.missed = @ \/ (s.held # None /\ Waiting(s, hop))]

\* Whether a data frame landed in the transport's receive buffer.
Landed(s, f, resolves) ==
  /\ s.held = None /\ f.kind = "data" /\ resolves
  /\ WaitsFor(s, f.payload.protocol) # 0
  /\ f.payload.len <= s.receives[WaitsFor(s, f.payload.protocol)].len
=============================================================================
