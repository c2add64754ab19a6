------------------------------ MODULE DlHeader ------------------------------
(***************************************************************************)
(* The DL header (model/isa100-dl-header.cc) as a record: daddrSrc and     *)
(* daddrDst, the ends of the route; src and dst, the ends of this hop;     *)
(* route, the hops from dst on, of which it counts numRouteAddresses; and  *)
(* a packet, the list of what has been serialized one after the other: the *)
(* header, then the payload.  An address or a number is one element.       *)
(***************************************************************************)
EXTENDS Naturals, Sequences, SequencesExt

\* A header as constructed: the addresses are 00:00 and there is no route.
NewHeader == [daddrSrc |-> 0, daddrDst |-> 0, src |-> 0, dst |-> 0, route |-> <<>>]

\* The length of m_routeAddresses.
ISA100_ROUTE_MAX_HOPS == 25

\* SetSourceRouteHop: hop hopNum (from 0) of a route, hopNum < ISA100_ROUTE_MAX_HOPS.
\* A greater one is a fatal error, and hop 25, which the check lets pass, is written
\* behind the array: see RoutesFit in Isa100Network.
SetSourceRouteHop(route, hopNum, addr) ==
  [h \in 1 .. (IF hopNum + 1 > Len(route) THEN hopNum + 1 ELSE Len(route)) |->
     IF h = hopNum + 1 THEN addr ELSE route[h]]

\* Mutant of RoutePopped: the hops are not moved up.
RouteNotPopped(route) == route

\* The last hop stays, so that a used up route is not told from one of one hop.
RoutePopped(route) == IF Len(route) > 1 THEN Tail(route) ELSE route

\* PopNextSourceRoutingHop returns the first hop that is left.
NextSourceRoutingHop(route) == RoutePopped(route)[1]

SerializedSize(header) == 5 + Len(header.route)

Serialize(header) ==
  <<header.dst, header.src, Len(header.route)>> \o header.route
    \o <<header.daddrSrc, header.daddrDst>>

Deserialize(packet) ==
  LET numRouteAddresses == packet[3]
  IN  [dst |-> packet[1], src |-> packet[2],
       route |-> SubSeq(packet, 4, 3 + numRouteAddresses),
       daddrSrc |-> packet[4 + numRouteAddresses], daddrDst |-> packet[5 + numRouteAddresses]]

\* Packet::AddHeader and Packet::RemoveHeader, which returns the payload.
AddHeader(header, payload) == Serialize(header) \o payload
RemoveHeader(packet) ==
  SubSeq(packet, SerializedSize(Deserialize(packet)) + 1, Len(packet))
=============================================================================
