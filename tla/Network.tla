------------------------------ MODULE Network -------------------------------
(***************************************************************************)
(* The network path: a client over the UDP service over the IP service, a  *)
(* client over the IP service alone, or a client over the TCP service. A   *)
(* link belongs to one stack at a time (kernel network.rs hands it on with *)
(* `into_link`), so the three are alternatives, chosen initially.          *)
(*                                                                         *)
(* The client submits, takes answers and may be restarted, which revokes   *)
(* its buffers and its sockets; the transport may be restarted under it.   *)
(***************************************************************************)
EXTENDS UdpService, TcpService

CONSTANTS Stages,       \* which of "raw", "udp" and "tcp"
          Ids,          \* requests a client can number
          Bounds,       \* Bounds[stage]: what bounds a behaviour, each a record of
                        \*   slots: of every table; family: of the configured address
                        \*   lives: the requests outstanding in each life of the client
                        \*   gen: sockets are closed while generations are below it
                        \*   ports, targets, fits: what its requests name
                        \*   payloads, types: what arrives for it, the discovery overheard
                        \*   fair: whether Fairness is assumed
          Sizes         \* buffer lengths it offers

VARIABLES stage, udp, tcp, client,
          bounds        \* the bounds of this behaviour

vars == <<ip, family, stage, udp, tcp, client, bounds>>

Init ==
  /\ stage \in Stages
  /\ bounds \in Bounds[stage]
  /\ family = bounds.family
  /\ ip = IpNew(bounds.slots) /\ udp = UdpNew(bounds.slots, 1) /\ tcp = TcpNew(bounds.slots)
  /\ client = [out |-> {}, life |-> 1, caps |-> {}, unfit |-> {}]

\* The ring the client holds, whoever serves it.
Top == CASE stage = "raw" -> ip [] stage = "udp" -> udp [] stage = "tcp" -> tcp
Slots == CASE stage = "raw" -> IpRing["raw"] [] stage = "udp" -> UdpRing [] stage = "tcp" -> TcpRing
SetTop(s) ==
  CASE stage = "raw" -> ip' = s /\ UNCHANGED <<udp, tcp>>
    [] stage = "udp" -> udp' = s /\ UNCHANGED <<ip, tcp>>
    [] stage = "tcp" -> tcp' = s /\ UNCHANGED <<ip, udp>>
Table == CASE stage = "raw" -> ip.protocols [] stage = "udp" -> udp.sockets [] stage = "tcp" -> tcp.sockets

Opens == CASE stage = "raw" -> {[op |-> "Bind", protocol |-> p] : p \in {6, UDP}}
           [] stage = "udp" -> {[op |-> "Bind", port |-> p] : p \in bounds.ports}
           [] stage = "tcp" -> [op : {"Listen", "Connect"}, port : bounds.ports]

Uses ==
  [op : {"Send"}, cap : client.caps, to : IF stage = "tcp" THEN {"peer"} ELSE bounds.targets,
   len : IF stage = "tcp" THEN {1} ELSE Sizes, fits : bounds.fits]
    \cup [op : {"Recv"}, cap : client.caps, len : IF stage = "tcp" THEN {1} ELSE Sizes, fits : bounds.fits]

Closes == {q \in [op : {"Close"}, cap : client.caps] : q.cap.gen < bounds.gen}

Fresh == {k \in bounds.lives[client.life] : <<client.life, k>> \notin client.out}

\* IoClient::try_submit. The tag stands for the bytes a send is to carry; a region
\* that does not fit lies outside the buffer, which nobody looks at until it is used.
Submit ==
  /\ Len(Top.sub) < Slots
  /\ Fresh # {}
  /\ \E q \in Opens \cup Uses \cup Closes :
       LET k == CHOOSE f \in Fresh : \A j \in Fresh : f <= j
           id == <<client.life, k>>
           ticket == [id |-> id, owner |-> 1, life |-> client.life, tag |-> k, fits |-> TRUE]
       IN /\ SetTop([Top EXCEPT !.sub = Append(@, q @@ ticket)])
          /\ client' = [client EXCEPT !.out = @ \cup {id}, !.unfit = IF (q @@ ticket).fits THEN @ ELSE @ \cup {id}]
  /\ UNCHANGED <<stage, family, bounds>>

\* IoClient::try_completion: an answer from an earlier life is ignored.
Take ==
  /\ Top.com # <<>>
  /\ SetTop([Top EXCEPT !.com = Tail(@)])
  /\ LET a == Head(Top.com)
     IN client' = [client EXCEPT !.out = @ \ {a.id}, !.unfit = @ \ {a.id},
                     !.caps = IF a.id[1] = client.life /\ a.res \in {"Bound", "Opened"} THEN @ \cup {a.val}
                              ELSE {c \in @ : Valid(Table, c)}]
  /\ UNCHANGED <<stage, family, bounds>>

\* The client's cell is restarted: buffers and sockets of its owner are revoked
\* and its ring is a new one. The IP service is told nothing.
RestartClient ==
  /\ client.life < Len(bounds.lives)
  /\ client' = [out |-> {}, life |-> client.life + 1, caps |-> {}, unfit |-> {}]
  /\ LET s == CASE stage = "raw" -> ip [] stage = "udp" -> RevokeClient(udp, 1) [] stage = "tcp" -> TcpRevoke(tcp, 1)
     IN SetTop([s EXCEPT !.sub = <<>>, !.com = <<>>])
  /\ UNCHANGED <<bounds, family, stage>>

\* The transport's cell is restarted: what it had accepted is gone.
RestartTransport ==
  /\ stage # "raw"
  /\ \A i \in DOMAIN Table : Table[i].gen < bounds.gen
  /\ udp' = IF stage = "udp" THEN Reset(udp) ELSE udp
  /\ tcp' = IF stage = "tcp" THEN TcpReset(tcp) ELSE tcp
  /\ LET owed == IF stage = "udp" THEN UdpOwes(udp) ELSE TcpOwes(tcp)
     IN client' = [client EXCEPT !.caps = {}, !.out = @ \ owed, !.unfit = @ \ owed]
  /\ UNCHANGED <<bounds, ip, family, stage>>

(***************************************************************************)
(* The services' own steps.                                                *)
(***************************************************************************)
IpRoom == IpRing[stage]

IpServe(first, link) ==
  /\ stage # "tcp"
  /\ first # "Ok" => ip.send # None
  /\ link # "Ok" => \E i \in DOMAIN ip.sub : ip.sub[i].op = "Send"
  /\ ip' = IpServed(ip, client.life, first, link, IpRoom)
  /\ UNCHANGED <<bounds, family, stage, udp, tcp, client>>

\* One frame off the link. What lands in the receive buffer of the transport
\* stays there until the next one.
Ingest(s, f, reply, link) ==
  /\ stage # "tcp"
  /\ LET waiter == IF f.kind = "data" THEN WaitsFor(s, f.payload.protocol) ELSE 0
         resolves == IF f.kind # "data" THEN ParkedResolves(s, client.life)
                     ELSE waiter # 0 => Resolvable(s.receives[waiter], client.life)
     IN /\ ip' = Ingested(s, f, resolves, reply, link, IpRoom)
        /\ udp' = IF stage = "udp" /\ Landed(s, f, resolves) THEN [udp EXCEPT !.rx = f.payload] ELSE udp
  /\ UNCHANGED <<bounds, family, stage, tcp, client>>

\* Traffic nobody here asked for.
Arrive == \E f \in Frames(bounds.types, bounds.payloads), reply, link \in LinkResults :
            /\ reply # "Ok" => reply = "Busy" /\ f.kind = "ask" /\ f.us
            /\ link # "Ok" => f.kind \in {"ask", "answer"} /\ ip.send # None
            /\ Ingest(ip, f, reply, link)

\* The answer to a discovery that was sent: one, taken or refused.
Discovered(link) ==
  \E hop \in ip.asked :
    /\ link # "Ok" => ip.send # None
    /\ Ingest(Heard(ip, hop), AnswerTo(hop), "Ok", link)

UdpServe == /\ stage = "udp"
            /\ \E p \in {UdpServed(udp, ip, client.life)} : udp' = p.u /\ ip' = p.s
            /\ UNCHANGED <<bounds, family, stage, tcp, client>>

TcpServe ==
  /\ stage = "tcp"
  /\ \E t \in {Flush(tcp, TcpRing)} : \E first \in Polls(t) :
       \E u \in {Polled(t, first, client.life)} : \E d \in {TcpDrained(u)} :
         \E second \in Polls(d) : tcp' = Polled(d, second, client.life)
  /\ UNCHANGED <<bounds, ip, family, stage, udp, client>>

Next ==
  \/ Submit \/ Take \/ RestartClient \/ RestartTransport
  \/ (\E first, link \in LinkResults : IpServe(first, link))
  \/ Arrive \/ (\E link \in LinkResults : Discovered(link))
  \/ UdpServe \/ TcpServe

Driven(A) == bounds.fair /\ A
Raw(A) == stage = "raw" /\ Driven(A)

\* A client of the IP service alone, or of TCP: the services are driven again and
\* again, the client takes its answers, a neighbour that was asked answers once, and
\* the link is not busy every time it is tried.
Fairness ==
  /\ WF_vars(Driven(Take)) /\ WF_vars(Driven(TcpServe))
  /\ SF_vars(Raw(IpServe("Ok", "Ok"))) /\ SF_vars(Raw(Discovered("Ok")))

Spec == Init /\ [][Next]_vars /\ Fairness

(***************************************************************************)
(* Properties.                                                             *)
(***************************************************************************)
Count(seq, id) == Cardinality({i \in DOMAIN seq : seq[i].id = id})

Parked(s, id) ==
  LET held == IF s.held # None /\ s.held.id = id THEN 1 ELSE 0
      inSlots(slots) == Cardinality({i \in DOMAIN slots : slots[i] # None /\ slots[i].id = id})
  IN held + CASE stage = "raw" -> inSlots(s.receives) + (IF s.send # None /\ s.send.q.id = id THEN 1 ELSE 0)
              [] stage = "udp" -> inSlots(s.receives) + (IF s.send # None /\ s.send.id = id THEN 1 ELSE 0)
              [] stage = "tcp" -> inSlots(s.parked)

\* Where a request is: in the ring, parked, held back, or answered.
Places(id) == Count(Top.sub, id) + Parked(Top, id) + Count(Top.com, id)

\* Every request its client still waits for is in exactly one place, although the
\* services take a parked request out before they look its buffer up and hold one
\* answer only. The exception is the IP service's receive into a region outside its
\* buffer: `wait` parks it unseen, and `deliver` returns the error of the lookup
\* to the driver of the link (net service.rs:479-483), not to the client.
RequestsKept ==
  \A id \in client.out : Places(id) = 1 \/ (stage = "raw" /\ id \in client.unfit /\ Places(id) = 0)

\* Sends of the transport the IP service has not read yet.
Below == {i \in DOMAIN ip.sub : ip.sub[i].op = "Send"}

\* The transmit scratch holds the bytes of the send that is below, and the receive
\* scratch those of the datagram that was answered: neither is rewritten while
\* the other side may still read it, a restart of UDP included.
ScratchIntact ==
  stage = "udp" =>
    /\ \A i \in Below : ip.sub[i].tag = udp.tx
    /\ ip.send # None => ip.send.q.tag = udp.tx
    /\ ip.held = None
    /\ Cardinality(Below) + (IF ip.send # None THEN 1 ELSE 0) <= 1
    /\ \A i \in DOMAIN ip.com : ip.com[i].res = "Received" => ip.com[i].val = udp.rx

LiveCaps(table) == {Named(table, i) : i \in Live(table)}

CapsIn(slots) == {slots[i].cap : i \in {j \in DOMAIN slots : slots[j] # None}}

\* A socket table and what the service keeps beside it agree: each live socket is
\* bound to a port of its own, nothing is parked or stored for a socket that is
\* gone, and the streams nobody holds are closed or closing.
SocketsExact ==
  CASE stage = "raw" ->
         /\ \A i, j \in DOMAIN ip.bound : ip.bound[i] = ip.bound[j] /\ ip.bound[i] # 0 => i = j
         /\ {ip.protocols[i].resource : i \in Live(ip.protocols)} = ToSet(ip.bound) \ {0}
         /\ CapsIn(ip.receives) \subseteq LiveCaps(ip.protocols)
    [] stage = "udp" ->
         /\ CapsIn(udp.bound) = LiveCaps(udp.sockets)
         /\ \A i, j \in DOMAIN udp.bound : udp.bound[i] # None /\ udp.bound[j] # None /\ i # j =>
              udp.bound[i].port # udp.bound[j].port /\ udp.bound[i].cap # udp.bound[j].cap
         /\ CapsIn(udp.receives) \cup CapsIn(udp.inbox) \subseteq LiveCaps(udp.sockets)
         /\ udp.send # None => udp.sendIn /\ Valid(udp.sockets, udp.send.cap)
         /\ \A i \in DOMAIN udp.receives, d \in DOMAIN udp.inbox :
              udp.receives[i] # None /\ udp.inbox[d] # None => udp.receives[i].cap # udp.inbox[d].cap
    [] stage = "tcp" ->
         \A i \in DOMAIN tcp.owner :
           /\ tcp.owner[i] # None <=> \E k \in Live(tcp.sockets) : tcp.sockets[k].resource = i
           /\ tcp.owner[i] # None => Valid(tcp.sockets, tcp.owner[i]) /\ tcp.sockets[tcp.owner[i].slot].resource = i
           /\ tcp.owner[i] = None => tcp.parked[i] = None /\ tcp.streams[i].state \in {"Closed", "Closing"}
           /\ tcp.parked[i] # None => tcp.parked[i].cap = tcp.owner[i]

Waits(id) ==
  \/ stage = "raw" /\ bounds.fair /\ ip.send # None /\ ip.send.q.id = id
  \/ /\ stage = "tcp" /\ bounds.fair
     /\ \E i \in DOMAIN tcp.parked : tcp.parked[i] # None /\ tcp.parked[i].id = id /\ tcp.streams[i].state = "Closed"

\* No request waits for ever: a send parked on a neighbour or a busy link ends once
\* both answer, although neighbours are evicted meanwhile; a request parked on a
\* stream whose connection ended is answered (tcp service.rs resume). The exception
\* is the send whose one discovery is answered while the service holds a completion
\* back: `ingest` refuses the frame (net service.rs:232) and nothing asks again.
WaitsEnd == \A k \in Ids : Waits(<<1, k>>) ~> (~Waits(<<1, k>>) \/ ip.missed)
=============================================================================
