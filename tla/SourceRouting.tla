--------------------------- MODULE SourceRouting ---------------------------
(***************************************************************************)
(* Source routing (model/isa100-routing.cc).  A table gives the route to   *)
(* every destination, without the node that owns the table.                *)
(***************************************************************************)
EXTENDS DlHeader, Loops

\* A node that has no routing algorithm accepts whatever is addressed to it.
NoRouting == <<>>

-----------------------------------------------------------------------------
(* Routes as text: a sequence of addresses and spaces *)

Space == -1

\* The text of a route: its addresses with a space between two.
RouteString(hops) ==
  [i \in 1 .. 2 * Len(hops) - 1 |-> IF i % 2 = 1 THEN hops[(i + 1) \div 2] ELSE Space]

\* Where the constructor takes the text apart: the last address has no space after it.
Spaces(text) == Ascending({i \in DOMAIN text : text[i] = Space})

Hops(text) ==
  LET ends == Append(Spaces(text), Len(text) + 1)
  IN  [h \in DOMAIN ends |-> text[ends[h] - 1]]

\* SetSourceRoutingTable: the routes to all destinations.
RoutingTable(strings) == [dst \in DOMAIN strings |-> Hops(strings[dst])]

-----------------------------------------------------------------------------
(* Packets *)

\* The route after the hops of the table have been set in it one by one.
RouteSet(route, hops) ==
  LET set[h \in 0 .. Len(hops)] ==
        IF h = 0 THEN route ELSE SetSourceRouteHop(set[h - 1], h - 1, hops[h])
  IN  set[Len(hops)]

\* The header of a new packet at node n gets the addresses of the first hop, and
\* the route hop by hop.
PrepTxPacketHeader(n, header, table) ==
  LET hops == table[header.daddrDst]
  IN  [header EXCEPT !.src = n, !.dst = hops[1], !.route = RouteSet(@, hops)]

ForwardPacketOn(n, header) == n # header.daddrDst

\* ProcessRxPacket at node n; the addresses of the hop change only on a packet
\* that is forwarded.
ProcessRxPacket(n, header) ==
  LET popped == [header EXCEPT !.route = RoutePopped(@)]
  IN  IF ForwardPacketOn(n, header)
        THEN [popped EXCEPT !.src = n, !.dst = NextSourceRoutingHop(header.route)]
        ELSE popped
=============================================================================
