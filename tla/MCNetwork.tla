----------------------------- MODULE MCNetwork ------------------------------
(***************************************************************************)
(* Instance of Network: one gateway, rings so small that answers are held  *)
(* back, and for UDP a lower ring with room for its three requests, as the *)
(* kernel gives it. A behaviour has one slot in every table and a client   *)
(* with two requests out that may be restarted; two slots, one request out *)
(* and restarts; or two slots, two requests out, and over UDP and TCP no   *)
(* socket closed.                                                          *)
(***************************************************************************)
EXTENDS Network

MCIpRing == [raw |-> 1, udp |-> 3, tcp |-> 1]

Single(version, fits, payloads, types, fair) ==
  [slots |-> 1, family |-> version, lives |-> <<{1, 2}, {1}>>, gen |-> 2, ports |-> {0, 1},
   targets |-> {"far", "other"}, fits |-> fits, payloads |-> payloads, types |-> types, fair |-> fair]

Double(lives, gen, fits, ports, payloads) ==
  [slots |-> 2, family |-> 4, lives |-> lives, gen |-> gen, ports |-> ports, targets |-> {"far"},
   fits |-> fits, payloads |-> payloads, types |-> {}, fair |-> FALSE]

Packet(protocol, len) == [protocol |-> protocol, len |-> len]

Packets == {Packet(UDP, 1), Packet(UDP, 2), Packet(6, 1)}

Datagram(port, good) == [protocol |-> UDP, len |-> 1, port |-> port, good |-> good]

Datagrams == {Datagram(1, TRUE), Datagram(2, TRUE)}

MCBounds ==
  [raw |-> {Single(v, {TRUE}, {Packet(UDP, 1)}, {"Arp", "Icmpv6"}, TRUE) : v \in {4, 6}}
             \cup {Single(6, BOOLEAN, Packets, {}, FALSE), Double(<<{1, 2}>>, 2, {TRUE}, {}, Packets)},
   udp |-> {Single(4, {TRUE}, {Datagram(1, TRUE), Datagram(1, FALSE)}, {}, FALSE),
            Double(<<{1}, {1}>>, 2, BOOLEAN, {1, 2}, Datagrams),
            Double(<<{1, 2}>>, 1, {TRUE}, {1, 2}, Datagrams)},
   tcp |-> {Single(4, BOOLEAN, {}, {}, TRUE), Double(<<{1}>>, 2, {TRUE}, {1}, {})}]

MCStations == {"gateway"}
=============================================================================
