-------------------------- MODULE ExampleNetworks --------------------------
(***************************************************************************)
(* The networks the examples of the repository set up by hand, in the form *)
(* Isa100Network deploys them: links and types of every node, superframe   *)
(* period, hopping pattern, source routes, applications, and the power (in *)
(* half dBm) a node needs to reach another: 9 half dBm is out of reach of  *)
(* the 4 dBm the PHY starts with.                                          *)
(***************************************************************************)
EXTENDS SourceRouting

NoApp == [kind |-> "none", dst |-> 0, count |-> 0]
PacketGenerator(dst, count) == [kind |-> "generator", dst |-> dst, count |-> count]

\* The slots and the types SetSfSchedule is given, as one list of links.
SetSchedule(slots, types) == [l \in DOMAIN slots |-> [slot |-> slots[l], type |-> types[l]]]

-----------------------------------------------------------------------------
(* isa100-three-nodes.cc: nodes 1 and 2 send to node 0, 40 m away. *)

ThreeNodesTypes ==
  [n \in 0 .. 2 |->
     CASE n = 0 -> <<"RECEIVE", "RECEIVE", "RECEIVE", "SHARED">>
       [] n = 1 -> <<"SHARED", "SHARED", "SHARED", "SHARED">>
       [] n = 2 -> <<"TRANSMIT", "TRANSMIT", "TRANSMIT", "SHARED">>]

ThreeNodesApps ==
  [n \in 0 .. 2 |-> IF n = 0 THEN NoApp ELSE PacketGenerator(0, 2)]

ThreeNodesRequired == [i \in 0 .. 2 |-> [j \in 0 .. 2 |-> 5]]

ThreeNodes ==
  [links |-> [n \in 0 .. 2 |-> SetSchedule(<<0, 1, 2, 3>>, ThreeNodesTypes[n])],
   period |-> 4, pattern |-> <<11, 12>>,
   routing |-> [n \in 0 .. 2 |-> <<>>],
   apps |-> ThreeNodesApps, required |-> ThreeNodesRequired, powerControl |-> FALSE]

-----------------------------------------------------------------------------
(* isa100-source-route-test.cc: 4 sends to 2 and 0 to 3, in one shared slot. *)

Routes ==
  [n \in 0 .. 4 |-> [dst \in 0 .. 4 |->
     CASE n = 0 -> <<<<0>>, <<1>>, <<1, 2>>, <<1, 3>>, <<1, 3, 4>>>>[dst + 1]
       [] n = 1 -> <<<<0>>, <<1>>, <<2>>, <<3>>, <<3, 4>>>>[dst + 1]
       [] n = 2 -> <<<<1, 0>>, <<1>>, <<2>>, <<1, 3>>, <<1, 3, 4>>>>[dst + 1]
       [] n = 3 -> <<<<1, 0>>, <<1>>, <<1, 2>>, <<3>>, <<4>>>>[dst + 1]
       [] n = 4 -> <<<<3, 1, 0>>, <<3, 1>>, <<3, 1, 2>>, <<3>>, <<4>>>>[dst + 1]]]

RoutingTables ==
  [n \in 0 .. 4 |-> RoutingTable([dst \in 0 .. 4 |-> RouteString(Routes[n][dst])])]

SourceRouteApps ==
  [n \in 0 .. 4 |-> CASE n = 0 -> PacketGenerator(3, 1)
                      [] n = 4 -> PacketGenerator(2, 1)
                      [] OTHER -> NoApp]

\* Only neighbours in the picture, 515 m apart, hear each other.
SourceRouteRequired ==
  [i \in 0 .. 4 |-> [j \in 0 .. 4 |->
     IF {i, j} \in {{0, 1}, {1, 2}, {1, 3}, {3, 4}} THEN 8 ELSE 9]]

SourceRouteTest ==
  [links |-> [n \in 0 .. 4 |-> SetSchedule(<<0>>, <<"SHARED">>)],
   period |-> 4, pattern |-> <<11>>,
   routing |-> RoutingTables,
   apps |-> SourceRouteApps, required |-> SourceRouteRequired, powerControl |-> FALSE]

-----------------------------------------------------------------------------
(* isa100-link-test.cc: node 1 sends to node 0 in every slot, over a link of  *)
(* a fixed loss, at the first of its attenuations.                            *)

SensitivityDbm == -101
FixedLoss == 50

\* FishFixedLossModel takes the loss from any power.
LinkTestRequired == [i \in 0 .. 1 |-> [j \in 0 .. 1 |-> 2 * (SensitivityDbm + FixedLoss)]]

LinkTestTypes == [n \in 0 .. 1 |-> IF n = 0 THEN <<"RECEIVE">> ELSE <<"TRANSMIT">>]

\* Two of the 60000 packets.
LinkTestApps == [n \in 0 .. 1 |-> IF n = 0 THEN NoApp ELSE PacketGenerator(0, 2)]

LinkTest ==
  [links |-> [n \in 0 .. 1 |-> SetSchedule(<<0>>, LinkTestTypes[n])],
   period |-> 1, pattern |-> <<11>>,
   routing |-> [n \in 0 .. 1 |-> <<>>],
   apps |-> LinkTestApps, required |-> LinkTestRequired, powerControl |-> FALSE]

Examples == {ThreeNodes, SourceRouteTest, LinkTest}
=============================================================================
