-------------------------- MODULE OptimizedNetwork --------------------------
(***************************************************************************)
(* From the optimizer to the packets: CreateOptimizedTdmaSchedule finds    *)
(* flows, schedules and routes (OptimizedTdma), ScheduleAndRouteTdma       *)
(* installs them, and the field nodes of examples/isa100-random-net.cc     *)
(* send their samples to the sink with them (Isa100Network).  A network    *)
(* may also be set up by hand, with SetSfSchedule and                      *)
(* SetSourceRoutingTable, as the other examples do.                        *)
(***************************************************************************)
EXTENDS OptimizedTdma, Isa100Network

CONSTANTS
  HandMade,       \* the networks set up by hand
  RequiredPowers  \* matrices of the powers links need

networkVars == <<vars, netVars>>

\* The networks set up by hand are whole, and the powers of links are numbers, the
\* same in both directions (CalculateTxPowers mirrors them: FieldLayout).  A node
\* learns the power of a link backwards: where it does, it does not send back.
ASSUME NetworksAssumption ==
  /\ \A config \in HandMade :
       /\ WellFormed(config) /\ LinksFit(config) /\ RoutesFit(config)
       /\ config.powerControl => OneWay(config)
  /\ RequiredPowers \subseteq [Nodes -> [Nodes -> Int]]
  /\ \A required \in RequiredPowers : \A i, j \in Nodes : required[i][j] = required[j][i]

ByHand ==
  /\ optSelect = "BY_HAND"
  /\ packetsPerSlot = 1
  /\ numTimeslots = 0
  /\ Solver!SolverInit({{}})
  /\ SchedulerInit

NetworkInit ==
  \/ Init /\ NothingInstalled
  \/ ByHand /\ \E config \in HandMade : Installed(config)

\* The network whose optimizer ran: a schedule on channel 11 for every node, for
\* the field nodes a route to the sink, an application and the transmit powers.
\* A node without links ends the simulation at its start, a route that the header has
\* no room for at its first packet.
Config(required) ==
  [links |-> schedules,
   period |-> numTimeslots,
   pattern |-> <<11>>,
   routing |-> [n \in Nodes |->
                  IF n = 0 THEN NoRouting
                  ELSE RoutingTable([dst \in {0} |-> RouteString(routingStrings[n])])],
   apps |-> [n \in Nodes |-> [kind |-> IF n = 0 THEN "none" ELSE "field", dst |-> 0, count |-> 0]],
   required |-> required,
   powerControl |-> TRUE]

Reach(required) ==
  {e \in Nodes \X Nodes : e[1] # e[2] /\ InRange(required[e[1]][e[2]])}

InstallSchedules ==
  /\ stage = "SCHEDULE_FOUND"
  /\ \A n \in Nodes : schedules[n] # <<>>
  /\ \E required \in RequiredPowers :
       /\ Reach(required) = inReach /\ RoutesFit(Config(required))
       /\ Deploy(Config(required))
  /\ UNCHANGED vars

NetworkNext ==
  \/ optSelect # "BY_HAND" /\ Next /\ UNCHANGED netVars
  \/ InstallSchedules
  \/ NetNext /\ UNCHANGED vars

NetworkSpec == NetworkInit /\ [][NetworkNext]_networkVars

-----------------------------------------------------------------------------
(* Properties: see also Isa100Network. *)

\* The flows give every node one parent.
SinglePath ==
  \A n \in Nodes : Cardinality({j \in Nodes : slotFlows[n][j] > 0}) <= 1

\* Whatever a node sends in a slot of its own finds its next hop listening, if
\* the flows give every node one parent.
ReceiverListens == SinglePath => NextHopListens

\* The network as its applications see it: a packet is lost or delivered to its
\* destination, once, and nothing else is delivered.
Service == INSTANCE Delivery WITH
  Packets <- [src : Nat, dst : Nat, seq : Nat],
  inTransit <- InTransit

Delivers == Service!DeliverySpec
=============================================================================
