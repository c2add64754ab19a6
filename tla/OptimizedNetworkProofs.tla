----------------------- MODULE OptimizedNetworkProofs -----------------------
(***************************************************************************)
(* Proofs about whole networks: those that the scheduler sets up fit       *)
(* together (TdmaProofs), and so the nodes keep their packets on the       *)
(* routes and their powers high enough (Isa100NetworkProofs), every node   *)
(* listens when its neighbour sends, samples leave before the next ones,   *)
(* and the network implements Delivery.                                    *)
(***************************************************************************)
EXTENDS OptimizedNetwork, TdmaProofs, Isa100NetworkProofs

LEMMA AlsoSequence ==
  ASSUME NEW R, NEW Q, R \subseteq Q, NEW s \in Seq(R)
  PROVE  s \in Seq(Q)
OBVIOUS

-----------------------------------------------------------------------------
(* What the scheduler sets up *)

\* Every node that has a link has a route.
LEMMA RoutesAreThere ==
  ASSUME SchedulerInv, stage = "SCHEDULE_FOUND", NEW n \in Nodes \ {0}, schedules[n] # <<>>
  PROVE  routingStrings[n] \in Seq(Nodes) /\ LeadsToSink(n, routingStrings[n])
<1>1. /\ schedules[n] \in Seq([slot : Nat, type : SlotTypes])
      /\ routingStrings[n] = NoRoute \/ routingStrings[n] \in Seq(Nodes)
  BY DEF SchedulerInv, SchedulerTypes, SchedulerTypeOK
<1>2. PICK link : link = schedules[n][1]
  OBVIOUS
<1>3. 1 \in DOMAIN schedules[n] /\ link \in [slot : Nat, type : SlotTypes]
      /\ link \in Range(schedules[n])
  <2>1. PICK list, R : list = schedules[n] /\ R = [slot : Nat, type : SlotTypes]
    OBVIOUS
  <2>2. 1 \in DOMAIN list /\ list[1] \in R
    BY <1>1, <2>1, NotEmpty
  <2> QED
    BY <1>2, <2>1, <2>2 DEF Range
<1>4. /\ link.slot \in Used /\ link.slot \in Slots /\ link.type \in SlotTypes
      /\ link = [slot |-> link.slot, type |-> link.type]
  <2>1. link.slot \in Used
    BY <1>2, <1>3 DEF SchedulerInv, ReceiversAreDone
  <2>2. nSlot >= -1 /\ nSlot \in Int /\ Len(scheduleSummary) \in Nat
    BY DEF SchedulerInv, SchedulerTypes, SchedulerTypeOK
  <2>3. link.slot \in Slots
    BY <2>1, <2>2 DEF Used, Slots
  <2> QED
    BY <1>3, <2>1, <2>3
<1>5. n = LinkOf(link.slot)[IF link.type = "TRANSMIT" THEN 1 ELSE 2]
  BY <1>3, <1>4 DEF SchedulerInv, SchedulesAgree, Used
<1>6. PICK s \in Slots : LinkOf(s)[1] = n
  <2>1. stage \in Routed
    BY DEF Routed
  <2>2. CASE link.type = "TRANSMIT"
    BY <1>4, <1>5, <2>2
  <2>3. CASE link.type # "TRANSMIT"
    <3>1. LinkOf(link.slot)[2] = n
      BY <1>5, <2>3
    <3> QED
      BY <1>4, <2>1, <3>1, LinksInOrder
  <2> QED
    BY <2>2, <2>3
<1>7. routingStrings[n] # NoRoute
  <2>1. s \in 0 .. routeSlot - 1
    BY <1>6 DEF SchedulerInv, RoutesLead, Slots
  <2> QED
    BY <1>6, <2>1 DEF SchedulerInv, RoutesLead
<1> QED
  BY <1>1, <1>7 DEF SchedulerInv, RoutesLead

\* Every hop of a route is the link of a slot.
LEMMA HopsHaveSlots ==
  ASSUME NEW n \in Nodes, NEW r \in Seq(Nodes), LeadsToSink(n, r), NEW route, route = <<n>> \o r,
         NEW k \in 1 .. Len(route) - 1
  PROVE  \E s \in Slots : LinkOf(s) = <<route[k], route[k + 1]>>
<1> DEFINE HasSlot(h) == \E s \in Slots : LinkOf(s) = <<route[h], route[h + 1]>>
           Without == {h \in 1 .. Len(route) - 1 : ~HasSlot(h)}
<1>1. /\ Len(r) \in Nat /\ Len(r) > 0 /\ Len(route) = Len(r) + 1 /\ route[1] = n
      /\ \A h \in 1 .. Len(r) : route[h + 1] = r[h]
  BY DEF LeadsToSink
<1>2. ASSUME Without # {} PROVE FALSE
  <2>1. PICK h \in Without : \A g \in Without : h <= g
    <3>1. Without \in SUBSET Nat
      OBVIOUS
    <3> HIDE DEF Without
    <3> QED
      BY <1>2, <3>1, LeastNatural
  <2>2. h # 1
    <3>1. HasSlot(1)
      BY <1>1 DEF LeadsToSink
    <3> QED
      BY <2>1, <3>1
  <2>3. /\ h - 1 \in 1 .. Len(route) - 1 /\ ~(h <= h - 1)
        /\ h - 1 \in 1 .. Len(r) - 1 /\ h - 1 \in 1 .. Len(r) /\ h \in 1 .. Len(r) /\ h - 1 + 1 = h
    BY <1>1, <2>1, <2>2
  <2>4. HasSlot(h - 1)
    BY <2>1, <2>3
  <2>5. PICK s \in Slots : LinkOf(s) = <<route[h - 1], route[h]>>
    BY <2>3, <2>4
  <2>6. LinkOf(s)[2] = r[h - 1]
    BY <1>1, <2>3, <2>5
  <2>7. PICK t \in Slots : LinkOf(t) = <<r[h - 1], r[h]>>
    BY <2>3, <2>6 DEF LeadsToSink
  <2>8. HasSlot(h)
    BY <1>1, <2>3, <2>7
  <2> QED
    BY <2>1, <2>8
<1> QED
  BY <1>2

FieldNetwork(required) ==
  /\ SchedulerInv /\ stage = "SCHEDULE_FOUND"
  /\ \A n \in Nodes : schedules[n] # <<>>
  /\ required \in RequiredPowers

\* The tables of the nodes.
LEMMA FieldRoutes ==
  ASSUME NEW required, FieldNetwork(required), NEW n \in Nodes
  PROVE  Config(required).routing[n] =
           IF n = 0 THEN NoRouting ELSE [dst \in {0} |-> routingStrings[n]]
<1>1. CASE n = 0
  BY <1>1 DEF Config
<1>2. CASE n # 0
  <2>1. routingStrings[n] \in Seq(Nodes) /\ routingStrings[n] # <<>>
    BY <1>2, RoutesAreThere DEF FieldNetwork, LeadsToSink
  <2>2. Nodes \subseteq Nat
    BY NodesFinite
  <2>3. Hops(RouteString(routingStrings[n])) = routingStrings[n]
    <3>1. routingStrings[n] \in Seq(Nat)
      BY <2>1, <2>2, AlsoSequence
    <3> QED
      BY <2>1, <3>1, HopsComeBack
  <2>4. PICK strings : strings = [dst \in {0} |-> RouteString(routingStrings[n])]
    OBVIOUS
  <2>5. RoutingTable(strings) = [dst \in {0} |-> routingStrings[n]]
    BY <2>3, <2>4 DEF RoutingTable
  <2>6. Config(required).routing[n] = RoutingTable(strings)
    BY <1>2, <2>4 DEF Config
  <2> QED
    BY <1>2, <2>5, <2>6
<1> QED
  BY <1>1, <1>2

LEMMA FieldHops ==
  ASSUME NEW required, FieldNetwork(required), NEW a, NEW b, IsHop(Config(required), a, b)
  PROVE  \E s \in Slots : LinkOf(s) = <<a, b>>
<1> DEFINE config == Config(required)
<1>1. DOMAIN config.links = Nodes
  BY DEF Config, FieldNetwork, SchedulerInv, SchedulerTypes, SchedulerTypeOK
<1>2. PICK source \in Nodes : \E dst \in DOMAIN config.routing[source] :
             LET route == RouteFrom(config, source, dst)
             IN  \E k \in 1 .. Len(route) - 1 : route[k] = a /\ route[k + 1] = b
  BY <1>1 DEF IsHop
<1>3. PICK dst \in DOMAIN config.routing[source] :
             LET route == RouteFrom(config, source, dst)
             IN  \E k \in 1 .. Len(route) - 1 : route[k] = a /\ route[k + 1] = b
  BY <1>2
<1>4. PICK route : route = RouteFrom(config, source, dst)
  OBVIOUS
<1>5. PICK k \in 1 .. Len(route) - 1 : route[k] = a /\ route[k + 1] = b
  BY <1>3, <1>4
<1>6. source # 0
  <2>1. source = 0 => config.routing[source] = <<>>
    BY FieldRoutes DEF NoRouting
  <2> QED
    BY <1>3, <2>1
<1>7. config.routing[source] = [d \in {0} |-> routingStrings[source]]
  BY <1>6, FieldRoutes
<1>8. route = <<source>> \o routingStrings[source]
  <2> HIDE DEF config
  <2> QED
    BY <1>3, <1>4, <1>7 DEF RouteFrom
<1>9. routingStrings[source] \in Seq(Nodes) /\ LeadsToSink(source, routingStrings[source])
  BY <1>6, RoutesAreThere DEF FieldNetwork
<1> QED
  BY <1>5, <1>8, <1>9, HopsHaveSlots

\* The network of the scheduler is whole, and no two nodes of it send to each other.
LEMMA FieldIsWhole ==
  ASSUME NEW required, FieldNetwork(required)
  PROVE  /\ WellFormed(Config(required)) /\ OneWay(Config(required))
         /\ SlotsFitSuperframe => LinksFit(Config(required))
<1> DEFINE config == Config(required)
<1>1. /\ DOMAIN config.links = Nodes /\ Nodes \subseteq Nat /\ 0 \in Nodes
      /\ config.period = numTimeslots /\ config.pattern = <<11>> /\ config.powerControl = TRUE
      /\ \A n \in Nodes : /\ config.links[n] = schedules[n]
                          /\ config.required[n] = required[n]
                          /\ config.apps[n].kind = (IF n = 0 THEN "none" ELSE "field")
                          /\ config.apps[n].dst = 0
  BY NodesFinite DEF Config, FieldNetwork, SchedulerInv, SchedulerTypes, SchedulerTypeOK
<1>2. \A n \in Nodes : config.routing[n] = IF n = 0 THEN NoRouting
                                           ELSE [dst \in {0} |-> routingStrings[n]]
  BY FieldRoutes
<1>3. /\ numTimeslots \in Nat
      /\ \A n \in Nodes : /\ schedules[n] \in Seq([slot : Nat, type : SlotTypes])
                          /\ schedules[n] # <<>>
  BY DEF FieldNetwork, SchedulerInv, SchedulerTypes, SchedulerTypeOK
<1>4. \A n, m \in Nodes : required[n][m] \in Int
  BY NetworksAssumption DEF FieldNetwork
<1> HIDE DEF config
<1>5. ASSUME NEW n \in Nodes
      PROVE  config.links[n] \in Seq([slot : Nat, type : LinkTypes]) \ {<<>>}
  <2>1. PICK list, R, Q : /\ list = schedules[n]
                          /\ R = [slot : Nat, type : SlotTypes]
                          /\ Q = [slot : Nat, type : LinkTypes]
    OBVIOUS
  <2>2. R \subseteq Q
    BY <2>1 DEF SlotTypes, LinkTypes
  <2>3. list \in Seq(R) /\ list # <<>>
    BY <1>3, <2>1
  <2>4. list \in Seq(Q)
    BY <2>2, <2>3, AlsoSequence
  <2> QED
    BY <1>1, <2>1, <2>3, <2>4
<1>6. ASSUME NEW n \in Nodes, config.routing[n] # NoRouting
      PROVE  /\ n # 0 /\ DOMAIN config.routing[n] = {0}
             /\ config.routing[n][0] \in Seq(Nodes) \ {<<>>} /\ Last(config.routing[n][0]) = 0
  <2>1. n # 0
    BY <1>2, <1>6
  <2>2. PICK r : r = routingStrings[n]
    OBVIOUS
  <2>3. r \in Seq(Nodes) /\ LeadsToSink(n, r)
    BY <2>1, <2>2, RoutesAreThere DEF FieldNetwork
  <2>4. config.routing[n] = [dst \in {0} |-> r]
    BY <1>2, <2>1, <2>2
  <2>5. r # <<>> /\ Last(r) = 0
    BY <2>3 DEF LeadsToSink, Last
  <2> QED
    BY <2>1, <2>3, <2>4, <2>5
<1>7. config.routing[0] = NoRouting
  BY <1>1, <1>2
<1>8. ASSUME NEW n \in Nodes, n # 0
      PROVE  config.routing[n] # NoRouting
  <2>1. DOMAIN config.routing[n] = {0}
    BY <1>2, <1>8
  <2>2. DOMAIN NoRouting = {}
    BY DEF NoRouting
  <2> QED
    BY <2>1, <2>2
<1>9. WellFormed(config)
  <2>1. <<11>> \in Seq(Nat) \ {<<>>}
    OBVIOUS
  <2>2. ASSUME NEW n \in Nodes
        PROVE  config.apps[n].kind # "none" =>
                 IF config.routing[n] # NoRouting
                 THEN config.apps[n].dst \in DOMAIN config.routing[n]
                 ELSE config.apps[n].dst \in Nat /\ 0 \in Nodes /\ ~(config.routing[0] # NoRouting)
    BY <1>1, <1>6, <1>8
  <2>3. ASSUME NEW n \in Nodes, config.routing[n] # NoRouting, NEW dst \in DOMAIN config.routing[n]
        PROVE  config.routing[n][dst] \in Seq(Nodes) \ {<<>>} /\ Last(config.routing[n][dst]) = dst
    BY <1>6, <2>3
  <2> QED
    BY ZenonT(60), <1>1, <1>3, <1>4, <1>5, <2>1, <2>2, <2>3 DEF WellFormed
<1>10. OneWay(config)
  <2>1. SUFFICES ASSUME NEW a, NEW b, IsHop(config, a, b), IsHop(config, b, a)
                 PROVE  FALSE
    BY DEF OneWay
  <2>2. PICK s, t \in Slots : LinkOf(s) = <<a, b>> /\ LinkOf(t) = <<b, a>>
    BY <2>1, FieldHops DEF config
  <2>3. s < t /\ t < s
    <3>1. LinkOf(t)[1] = LinkOf(s)[2] /\ LinkOf(s)[1] = LinkOf(t)[2]
      BY <2>2
    <3> QED
      BY <3>1, LinksInOrder DEF FieldNetwork, Routed
  <2>4. s \in Int /\ t \in Int
    BY DEF Slots
  <2> QED
    BY <2>3, <2>4
<1>11. ASSUME SlotsFitSuperframe PROVE LinksFit(config)
  <2>1. Len(scheduleSummary) <= numTimeslots /\ Len(scheduleSummary) \in Nat /\ nSlot \in Int
        /\ nSlot >= -1
    BY <1>11 DEF SlotsFitSuperframe, FieldNetwork, SchedulerInv, SchedulerTypes, SchedulerTypeOK
  <2>2. ASSUME NEW n \in Nodes, NEW l \in DOMAIN schedules[n]
        PROVE  schedules[n][l].slot \in Nat /\ schedules[n][l].slot < numTimeslots
    <3>1. schedules[n][l].slot \in Used
      BY DEF FieldNetwork, SchedulerInv, ReceiversAreDone
    <3> QED
      BY <1>3, <2>1, <3>1 DEF Used
  <2>3. numTimeslots > 0
    <3>1. 1 \in DOMAIN schedules[0]
      <4>1. PICK list, R : list = schedules[0] /\ R = [slot : Nat, type : SlotTypes]
        OBVIOUS
      <4>2. 1 \in DOMAIN list
        BY <1>1, <1>3, <4>1, NotEmpty
      <4> QED
        BY <4>1, <4>2
    <3>2. schedules[0][1].slot \in Nat /\ schedules[0][1].slot < numTimeslots
      BY <1>1, <2>2, <3>1
    <3> QED
      BY <1>3, <3>2
  <2> QED
    BY <1>1, <2>2, <2>3 DEF LinksFit
<1> QED
  BY <1>9, <1>10, <1>11 DEF config

LEMMA OnlyOne ==
  ASSUME NEW S, IsFiniteSet(S), Cardinality(S) <= 1, NEW a \in S, NEW b \in S
  PROVE  a = b
<1>1. SUFFICES ASSUME a # b PROVE FALSE
  OBVIOUS
<1>2. IsFiniteSet({a}) /\ Cardinality({a}) = 1
  BY FS_Singleton
<1>3. Cardinality({a} \cup {b}) = 2
  BY SMTT(60), <1>1, <1>2, FS_AddElement
<1>4. {a} \cup {b} \subseteq S
  OBVIOUS
<1>5. Cardinality({a} \cup {b}) <= Cardinality(S) /\ Cardinality(S) \in Nat
  BY <1>4, FS_Subset, FS_CardinalityType
<1> QED
  BY <1>3, <1>5

\* The two ends of the link of a slot, and nobody else, have it.
LEMMA FieldLinks ==
  ASSUME NEW required, FieldNetwork(required), NEW n \in Nodes, NEW at, NEW type \in SlotTypes
  PROVE  HasLink(Config(required), n, at, type) <=>
           at \in Slots /\ n = LinkOf(at)[IF type = "TRANSMIT" THEN 1 ELSE 2]
<1>1. Config(required).links[n] = schedules[n]
  BY DEF Config, FieldNetwork
<1>2. /\ schedules[n] \in Seq([slot : Nat, type : SlotTypes])
      /\ \A a \in DOMAIN schedules[n] : schedules[n][a].slot \in Slots
      /\ \A s \in Slots, ty \in SlotTypes : [slot |-> s, type |-> ty] \in Range(schedules[n]) <=>
                                              n = LinkOf(s)[IF ty = "TRANSMIT" THEN 1 ELSE 2]
  <2>1. Used = Slots
    BY LinksGiven DEF FieldNetwork, Routed
  <2> QED
    BY <2>1 DEF FieldNetwork, SchedulerInv, SchedulerTypes, SchedulerTypeOK, ReceiversAreDone,
                SchedulesAgree, Used
<1>3. ASSUME HasLink(Config(required), n, at, type)
      PROVE  at \in Slots /\ [slot |-> at, type |-> type] \in Range(schedules[n])
  <2>1. PICK l \in DOMAIN schedules[n] : schedules[n][l].slot = at /\ schedules[n][l].type = type
    BY <1>1, <1>3 DEF HasLink
  <2>2. PICK R, list : R = [slot : Nat, type : SlotTypes] /\ list = schedules[n]
    OBVIOUS
  <2>3. list[l] \in R
    <3>1. list \in Seq(R) /\ l \in DOMAIN list
      BY <1>2, <2>2
    <3> QED
      BY <3>1, Element
  <2>4. schedules[n][l] = [slot |-> at, type |-> type]
    BY <2>1, <2>2, <2>3
  <2> QED
    BY <1>2, <2>1, <2>4 DEF Range
<1>4. ASSUME at \in Slots, [slot |-> at, type |-> type] \in Range(schedules[n])
      PROVE  HasLink(Config(required), n, at, type)
  <2>1. PICK l \in DOMAIN schedules[n] : schedules[n][l] = [slot |-> at, type |-> type]
    BY <1>4 DEF Range
  <2> QED
    BY <1>1, <2>1 DEF HasLink
<1> QED
  BY <1>2, <1>3, <1>4

\* Whoever the scheduler gives a slot has it in turn, and if the flows give every node
\* one parent, whatever it sends in the slot goes to the receiver of the slot.
LEMMA FieldIsOrderly ==
  ASSUME NEW required, FieldNetwork(required), Reach(required) = inReach, ReachInv
  PROVE  Orderly(Config(required)) /\ (SinglePath => OnePath(Config(required)))
<1> DEFINE config == Config(required)
<1>1. /\ DOMAIN config.links = Nodes /\ Nodes \subseteq Nat
      /\ config.pattern = <<11>> /\ config.powerControl = TRUE
      /\ \A n \in Nodes : config.links[n] = schedules[n] /\ config.required[n] = required[n]
  BY NodesFinite, NetworksAssumption
  DEF Config, FieldNetwork, SchedulerInv, SchedulerTypes, SchedulerTypeOK
<1>2. Orderly(config)
  <2>1. ASSUME NEW n \in Nodes, NEW l \in DOMAIN schedules[n]
        PROVE  schedules[n][l].type # "SHARED"
    <3>1. PICK R, list : R = [slot : Nat, type : SlotTypes] /\ list = schedules[n]
      OBVIOUS
    <3>2. list \in Seq(R) /\ l \in DOMAIN list
      BY <3>1 DEF FieldNetwork, SchedulerInv, SchedulerTypes, SchedulerTypeOK
    <3>3. list[l] \in R
      BY <3>2, Element
    <3> QED
      BY <3>1, <3>3 DEF SlotTypes
  <2>2. \A n \in Nodes : \A a, b \in DOMAIN schedules[n] :
          a < b => schedules[n][a].slot < schedules[n][b].slot
    BY DEF FieldNetwork, SchedulerInv, SchedulesAgree
  <2> HIDE DEF config
  <2> QED
    BY <1>1, <2>1, <2>2 DEF Orderly
<1>3. ASSUME SinglePath, NEW n \in Nodes, NEW at \in Nat, HasLink(config, n, at, "TRANSMIT")
      PROVE  /\ config.routing[n] # NoRouting
             /\ \A m \in Nodes : HasLink(config, m, at, "TRANSMIT") => m = n
             /\ \A h \in Nodes : IsHop(config, n, h) =>
                  h # n /\ HasLink(config, h, at, "RECEIVE") /\ InRange(required[n][h])
  <2>1. "TRANSMIT" \in SlotTypes /\ "RECEIVE" \in SlotTypes /\ stage \in Routed
    BY DEF SlotTypes, FieldNetwork, Routed
  <2>2. at \in Slots /\ n = LinkOf(at)[1]
    BY <1>3, <2>1, FieldLinks
  <2>3. LinkOf(at) \in Links /\ n # 0
    BY <2>1, <2>2, LinksInOrder DEF FieldNetwork
  <2>4. config.routing[n] # NoRouting
    <3>1. PICK r : r = routingStrings[n]
      OBVIOUS
    <3>2. config.routing[n] = [dst \in {0} |-> r]
      BY <2>3, <3>1, FieldRoutes
    <3>3. DOMAIN config.routing[n] = {0} /\ DOMAIN NoRouting = {}
      BY <3>2 DEF NoRouting
    <3> QED
      BY <3>3
  <2>5. \A m \in Nodes : HasLink(config, m, at, "TRANSMIT") => m = n
    BY <2>1, <2>2, FieldLinks
  <2>6. ASSUME NEW h \in Nodes, IsHop(config, n, h)
        PROVE  h # n /\ HasLink(config, h, at, "RECEIVE") /\ InRange(required[n][h])
    <3>1. PICK s \in Slots : LinkOf(s) = <<n, h>>
      BY <2>6, FieldHops
    <3>2. PICK hop \in Nodes : LinkOf(at) = <<n, hop>>
      BY <2>2, <2>3 DEF Links
    <3>3. slotFlows[n][h] > 0 /\ slotFlows[n][hop] > 0
      BY <2>1, <2>2, <3>1, <3>2, LinksGiven DEF FieldNetwork
    <3>4. h = hop
      <4>1. PICK S : S = {j \in Nodes : slotFlows[n][j] > 0}
        OBVIOUS
      <4>2. IsFiniteSet(S) /\ Cardinality(S) <= 1 /\ h \in S /\ hop \in S
        BY <1>3, <3>3, <4>1, NodesFinite, FS_Subset DEF SinglePath
      <4> QED
        BY <4>2, OnlyOne
    <3>5. HasLink(config, h, at, "RECEIVE")
      <4>1. h = LinkOf(at)[2]
        BY <3>2, <3>4
      <4> QED
        BY <2>1, <2>2, <4>1, FieldLinks
    <3>6. h # n
      <4>1. ASSUME h = n PROVE s < s
        BY <2>1, <3>1, <4>1, LinksInOrder DEF FieldNetwork
      <4>2. s \in Int
        BY DEF Slots
      <4> QED
        BY <4>1, <4>2
    <3>7. <<n, h>> \in Reach(required) \/ <<h, n>> \in Reach(required)
      BY <3>3 DEF ReachInv, FieldNetwork
    <3>8. InRange(required[n][h]) \/ InRange(required[h][n])
      BY <3>7 DEF Reach
    <3>9. required[n][h] = required[h][n]
      BY NetworksAssumption DEF FieldNetwork
    <3> QED
      BY <3>5, <3>6, <3>8, <3>9
  <2> QED
    BY <2>4, <2>5, <2>6
<1>4. SinglePath => OnePath(config)
  <2> HIDE DEF config
  <2> QED
    BY <1>1, <1>3 DEF OnePath
<1> QED
  BY <1>2, <1>4

-----------------------------------------------------------------------------
(* The invariant *)

\* A network set up by hand has no schedule but its own; in any other one runs
\* what the scheduler has set up.
SetUpInv ==
  IF optSelect = "BY_HAND"
  THEN stage = "OPTIMIZING" /\ (Running => net \in HandMade)
  ELSE /\ TdmaInv
       /\ Running => \E required : /\ FieldNetwork(required)
                                   /\ Reach(required) = inReach
                                   /\ net = Config(required)

NetworkInv == SetUpInv /\ NetInv /\ ClockInv

\* The scheduler is done when it has found a schedule.
LEMMA NothingMore ==
  ASSUME TdmaInv, stage = "SCHEDULE_FOUND"
  PROVE  ~Next
<1>1. optSelect = "TDMA_MIN_HOP" => pending = <<>>
  BY DEF TdmaInv
<1>2. ~SolveMinHop
  BY <1>1 DEF SolveMinHop, Solver!BreadthFirstMinHopFlowSolver, StartScheduling
<1>3. ~SolveGoldsmith /\ ~SolveConvexInt
  BY DEF SolveGoldsmith, SolveConvexInt
<1>4. ~Schedule
  BY DEF Schedule, ScheduleAndRouteTdma, PopulateNodeSchedule, VisitNode, NextRound,
         CalculateSourceRoute, InstallSchedule
<1> QED
  BY <1>2, <1>3, <1>4 DEF Next

LEMMA FieldUnchanged ==
  ASSUME UNCHANGED vars, TdmaInv', NEW required, FieldNetwork(required),
         Reach(required) = inReach
  PROVE  /\ FieldNetwork(required)' /\ Config(required)' = Config(required)
         /\ Reach(required) = inReach'
<1>1. UNCHANGED <<numTimeslots, stage, schedules, routingStrings, inReach>>
  BY DEF vars, schedulerVars, solver, routeVars
<1>2. SchedulerInv'
  BY DEF TdmaInv
<1> QED
  BY <1>1, <1>2 DEF FieldNetwork, Config

LEMMA NetworkInvInit ==
  ASSUME NetworkInit
  PROVE  NetworkInv
<1>1. CASE Init /\ NothingInstalled
  <2>1. TdmaInv /\ optSelect # "BY_HAND"
    BY <1>1, TdmaInvInit DEF Init
  <2> QED
    BY <1>1, <2>1 DEF NetworkInv, SetUpInv, NetInv, ClockInv, NothingInstalled, Running
<1>2. CASE ByHand /\ \E config \in HandMade : Installed(config)
  <2>1. PICK config \in HandMade : Installed(config)
    BY <1>2
  <2>2. WellFormed(config) /\ LinksFit(config) /\ (config.powerControl => OneWay(config))
    BY NetworksAssumption
  <2>3. NetInv
    BY <2>1, <2>2, InstalledWhole
  <2>4. ClockInv
    <3>1. net = config /\ slot = 0 /\ nodes = [n \in DOMAIN config.links |-> Started(config, n)]
      BY <2>1 DEF Installed
    <3>2. config.period \in Nat /\ config.period > 0
      BY <2>2 DEF WellFormed, LinksFit
    <3>3. ASSUME NEW n \in DOMAIN config.links
          PROVE  nodes[n].wait \in 0 .. config.period - 1
      <4>1. Started(config, n).wait \in 0 .. config.period - 1
        BY <2>2, <3>3, ClockStarts, Zenon
      <4> QED
        BY <3>1, <4>1
    <3>4. slot \in 0 .. net.period - 1
      BY <3>1, <3>2
    <3>5. \A n \in Members : nodes[n].wait \in 0 .. net.period - 1
      BY <3>1, <3>3, Zenon DEF Members
    <3> QED
      BY <3>4, <3>5 DEF ClockInv
  <2>5. SetUpInv
    BY <1>2, <2>1 DEF ByHand, SchedulerInit, SetUpInv, Installed
  <2> QED
    BY <2>3, <2>4, <2>5 DEF NetworkInv
<1> QED
  BY <1>1, <1>2 DEF NetworkInit

LEMMA NetworkInvNext ==
  ASSUME \A W \in BitFlows \cup PacketFlows : Acyclic(W), NetworkInv, [NetworkNext]_networkVars
  PROVE  NetworkInv'
<1>1. CASE optSelect # "BY_HAND" /\ Next /\ UNCHANGED netVars
  <2>1. TdmaInv /\ ~Running
    BY <1>1, NothingMore DEF NetworkInv, SetUpInv, FieldNetwork
  <2>2. TdmaInv'
    BY <1>1, <2>1, TdmaInvNext
  <2>3. optSelect' = optSelect
    BY <1>1 DEF Next, SolveMinHop, SolveGoldsmith, SolveConvexInt, Schedule
  <2>4. ~Running' /\ UNCHANGED <<phase, air, slot>>
    BY <1>1, <2>1 DEF netVars, Running
  <2> QED
    BY <1>1, <2>1, <2>2, <2>3, <2>4 DEF NetworkInv, SetUpInv, NetInv, ClockInv
<1>2. CASE InstallSchedules
  <2>1. stage = "SCHEDULE_FOUND" /\ UNCHANGED vars
    BY <1>2 DEF InstallSchedules
  <2>2. optSelect # "BY_HAND" /\ TdmaInv /\ UNCHANGED optSelect
    BY <2>1 DEF NetworkInv, SetUpInv, vars
  <2>3. TdmaInv'
    BY <2>1, <2>2, TdmaInvNext
  <2>4. PICK required \in RequiredPowers : Reach(required) = inReach /\ Deploy(Config(required))
    BY <1>2 DEF InstallSchedules
  <2>5. FieldNetwork(required)
    BY <1>2, <2>1, <2>2 DEF InstallSchedules, FieldNetwork, TdmaInv
  <2>6. PICK config : config = Config(required)
    OBVIOUS
  <2>7. /\ WellFormed(config) /\ OneWay(config)
        /\ Deploy(config)
    BY <2>4, <2>5, <2>6, FieldIsWhole
  <2>8. NetInv' /\ net' = config
    BY <2>7, DeployedWhole DEF NetworkInv
  <2>9. SetUpInv'
    BY <2>1, <2>2, <2>3, <2>4, <2>5, <2>6, <2>8, FieldUnchanged DEF SetUpInv
  <2>10. ClockInv'
    <3>1. slot = 0 /\ slot' = slot
          /\ nodes' = [n \in DOMAIN config.links |-> Started(config, n)]
      BY <2>7 DEF Deploy, NetworkInv, NetInv, Running
    <3>2. Members' = DOMAIN config.links
      BY <2>8 DEF Members
    <3>3. ASSUME LinksFit(config), NEW n \in DOMAIN config.links
          PROVE  /\ slot' \in 0 .. config.period - 1
                 /\ nodes'[n].wait \in 0 .. config.period - 1
      BY <2>7, <3>1, <3>3, ClockStarts
    <3>4. LinksFit(config) => slot' \in 0 .. config.period - 1
      <4>1. LinksFit(config) => config.period > 0
        BY DEF LinksFit
      <4>2. config.period \in Nat
        BY <2>7 DEF WellFormed
      <4> QED
        BY <3>1, <4>1, <4>2
    <3> QED
      BY <2>8, <3>2, <3>3, <3>4 DEF ClockInv
  <2> QED
    BY <2>8, <2>9, <2>10 DEF NetworkInv
<1>3. CASE NetNext /\ UNCHANGED vars
  <2>1. NetInv' /\ Running /\ net' = net
    BY <1>3, NetNextKeeps DEF NetworkInv, NetNext
  <2>2. ClockInv'
    BY <1>3, <2>1, ClockKept DEF NetworkInv, NetInv
  <2>3. SetUpInv'
    <3>1. UNCHANGED <<optSelect, stage>>
      BY <1>3 DEF vars, schedulerVars
    <3>2. CASE optSelect = "BY_HAND"
      BY <2>1, <3>1, <3>2 DEF NetworkInv, SetUpInv
    <3>3. CASE optSelect # "BY_HAND"
      <4>1. TdmaInv'
        BY <1>3, <3>3, TdmaInvNext DEF NetworkInv, SetUpInv
      <4> QED
        BY <1>3, <2>1, <3>1, <3>3, <4>1, FieldUnchanged DEF NetworkInv, SetUpInv
    <3> QED
      BY <3>2, <3>3
  <2> QED
    BY <2>1, <2>2, <2>3 DEF NetworkInv
<1>4. CASE UNCHANGED networkVars
  <2>1. UNCHANGED vars /\ UNCHANGED netVars
    BY <1>4 DEF networkVars
  <2>2. UNCHANGED <<net, slot, phase, nodes, air, optSelect, stage>>
    BY <2>1 DEF netVars, vars, schedulerVars
  <2>3. NetInv'
    BY <2>2 DEF NetworkInv, NetInv, NetRunning, Running, Members, MediumInv, Hears, Required
  <2>4. ClockInv'
    BY <2>2 DEF NetworkInv, ClockInv, Running, Members
  <2>5. SetUpInv'
    <3>1. CASE optSelect = "BY_HAND"
      BY <2>2, <3>1 DEF NetworkInv, SetUpInv, Running
    <3>2. CASE optSelect # "BY_HAND"
      <4>1. TdmaInv'
        BY <2>1, <3>2, TdmaInvNext DEF NetworkInv, SetUpInv
      <4> QED
        BY <2>1, <2>2, <3>2, <4>1, FieldUnchanged DEF NetworkInv, SetUpInv, Running
    <3> QED
      BY <3>1, <3>2
  <2> QED
    BY <2>3, <2>4, <2>5 DEF NetworkInv
<1> QED
  BY <1>1, <1>2, <1>3, <1>4 DEF NetworkNext

LEMMA NetworkInvAlways ==
  ASSUME \A W \in BitFlows \cup PacketFlows : Acyclic(W)
  PROVE  NetworkSpec => []NetworkInv
<1>1. NetworkInit => NetworkInv
  BY NetworkInvInit
<1>2. NetworkInv /\ [NetworkNext]_networkVars => NetworkInv'
  BY NetworkInvNext
<1> QED
  BY <1>1, <1>2, PTL DEF NetworkSpec

\* The superframe of a network that runs has the slots of all links, unless the
\* scheduler has found a schedule that is longer.
LEMMA SlotsThenLinks ==
  ASSUME NetworkInv, SlotsFitSuperframe, Running
  PROVE  LinksFit(net)
<1>1. CASE optSelect = "BY_HAND"
  BY <1>1, NetworksAssumption DEF NetworkInv, SetUpInv
<1>2. CASE optSelect # "BY_HAND"
  BY <1>2, FieldIsWhole DEF NetworkInv, SetUpInv
<1> QED
  BY <1>1, <1>2

-----------------------------------------------------------------------------
(* The theorems *)

\* The header of every packet in a queue is what is left of the route its source gave
\* it, whatever network the scheduler sets up and whatever is set up by hand.
THEOREM PacketsStayOnRoute ==
  ASSUME \A W \in BitFlows \cup PacketFlows : Acyclic(W)
  PROVE  NetworkSpec => []HeaderIsRemainingRoute
<1>1. NetworkInv => HeaderIsRemainingRoute
  BY HeaderFromInv DEF NetworkInv
<1> QED
  BY <1>1, NetworkInvAlways, PTL

\* Every frame is sent with the power that its next hop needs, whatever powers the
\* PHY has refused and the DL has learned.
THEOREM PowerReaches ==
  ASSUME \A W \in BitFlows \cup PacketFlows : Acyclic(W)
  PROVE  NetworkSpec => []PowerReachesNextHop
<1>1. NetworkInv => PowerReachesNextHop
  BY PowerFromInv DEF NetworkInv
<1> QED
  BY <1>1, NetworkInvAlways, PTL

\* The clocks, indices and radio states of all nodes keep their ranges as long as the
\* schedule is not longer than the superframe (TdmaScheduler: it may be).
THEOREM NetworkTypes ==
  ASSUME \A W \in BitFlows \cup PacketFlows : Acyclic(W)
  PROVE  NetworkSpec => [](SlotsFitSuperframe => NetTypeOK)
<1>1. NetworkInv => (SlotsFitSuperframe => NetTypeOK)
  BY SlotsThenLinks, TypesFromInv DEF NetworkInv
<1> QED
  BY <1>1, NetworkInvAlways, PTL

-----------------------------------------------------------------------------
(* Who listens *)

TurnInv == ListensInv /\ (optSelect # "BY_HAND" => ReachInv)

LEMMA StartsInTurn ==
  ASSUME NEW config, WellFormed(config), net = config, slot = 0, phase = "RX", air = {},
         nodes = [n \in DOMAIN config.links |-> Started(config, n)]
  PROVE  ListensInv
<1> SUFFICES ASSUME LinksFit(config), Orderly(config)
             PROVE  TurnsInv /\ HeardInv
  BY DEF ListensInv
<1>1. ASSUME NEW n \in Members
      PROVE  TurnOf(n, nodes[n])
  <2>1. PICK me : me = Started(config, n)
    OBVIOUS
  <2>2. nodes[n] = me /\ n \in DOMAIN config.links
    BY <2>1 DEF Members
  <2>3. Lockstep(config, n, me, 0) /\ me.channel = 11 /\ me.xmit = "none"
    BY <2>1, <2>2, ListensFromStart
  <2> QED
    BY <2>2, <2>3 DEF TurnOf
<1> QED
  BY <1>1 DEF TurnsInv, HeardInv

LEMMA TurnInvInit ==
  ASSUME NetworkInit
  PROVE  TurnInv
<1>1. CASE Init /\ NothingInstalled
  BY <1>1 DEF Init, SchedulerInit, NothingInstalled, TurnInv, ListensInv, ReachInv, Running
<1>2. CASE ByHand /\ \E config \in HandMade : Installed(config)
  <2>1. PICK config \in HandMade : Installed(config)
    BY <1>2
  <2>2. WellFormed(config)
    BY NetworksAssumption
  <2>3. ListensInv
    BY <2>1, <2>2, StartsInTurn DEF Installed
  <2> QED
    BY <1>2, <2>3 DEF TurnInv, ByHand
<1> QED
  BY <1>1, <1>2 DEF NetworkInit

LEMMA TurnInvNext ==
  ASSUME NetworkInv, NetworkInv', TurnInv, [NetworkNext]_networkVars
  PROVE  TurnInv'
<1>1. CASE optSelect # "BY_HAND" /\ Next /\ UNCHANGED netVars
  <2>1. TdmaInv /\ ~Running /\ ReachInv
    BY <1>1, NothingMore DEF NetworkInv, SetUpInv, FieldNetwork, TurnInv
  <2>2. ReachInv' /\ ~Running'
    BY <1>1, <2>1, ReachInvNext DEF netVars, Running
  <2> QED
    BY <2>2 DEF TurnInv, ListensInv
<1>2. CASE InstallSchedules
  <2>1. UNCHANGED vars /\ stage = "SCHEDULE_FOUND"
    BY <1>2 DEF InstallSchedules
  <2>2. UNCHANGED <<optSelect, stage, slotFlows, inReach>>
    BY <2>1 DEF vars, schedulerVars, solver
  <2>3. PICK required \in RequiredPowers : Reach(required) = inReach /\ Deploy(Config(required))
    BY <1>2 DEF InstallSchedules
  <2>4. PICK config : config = Config(required)
    OBVIOUS
  <2>5. TdmaInv
    BY <2>1 DEF NetworkInv, SetUpInv
  <2>6. WellFormed(config)
    BY <1>2, <2>1, <2>4, <2>5, FieldIsWhole DEF InstallSchedules, FieldNetwork, TdmaInv
  <2>7. /\ net' = config /\ phase' = "RX" /\ air' = {} /\ slot' = 0
        /\ nodes' = [n \in DOMAIN config.links |-> Started(config, n)]
    BY <2>3, <2>4 DEF Deploy, NetworkInv, NetInv, Running
  <2>8. ASSUME LinksFit(config), Orderly(config), NEW n \in Members'
        PROVE  TurnOf(n, nodes[n])'
    <3>1. PICK me : me = Started(config, n)
      OBVIOUS
    <3>2. nodes'[n] = me /\ n \in DOMAIN config.links
      BY <2>7, <3>1 DEF Members
    <3>3. Lockstep(config, n, me, 0) /\ me.channel = 11 /\ me.xmit = "none"
      BY <2>6, <2>8, <3>1, <3>2, ListensFromStart
    <3> QED
      BY <2>7, <3>2, <3>3 DEF TurnOf
  <2>9. ListensInv'
    BY <2>7, <2>8 DEF ListensInv, TurnsInv, HeardInv
  <2> QED
    BY <2>2, <2>9 DEF TurnInv, ReachInv
<1>3. CASE NetNext /\ UNCHANGED vars
  <2>1. ListensInv'
    BY <1>3, ListensKept DEF NetworkInv, TurnInv
  <2>2. UNCHANGED <<optSelect, stage, slotFlows, inReach>>
    BY <1>3 DEF vars, schedulerVars, solver
  <2> QED
    BY <2>1, <2>2 DEF TurnInv, ReachInv
<1>4. CASE UNCHANGED networkVars
  <2>1. UNCHANGED <<net, slot, phase, nodes, air, optSelect, stage, slotFlows, inReach>>
    BY <1>4 DEF networkVars, netVars, vars, schedulerVars, solver
  <2>2. ListensInv'
    BY <2>1 DEF TurnInv, ListensInv, Running, TurnsInv, TurnOf, Members, Now, HeardInv, NextHopOf
  <2> QED
    BY <2>1, <2>2 DEF TurnInv, ReachInv
<1> QED
  BY <1>1, <1>2, <1>3, <1>4 DEF NetworkNext

\* In a network whose schedule the scheduler made, and whose flows give every node one
\* parent, whatever a node sends in a slot of its own is received by the node it is sent
\* to, and by nothing but it, as long as the schedule is not longer than the superframe.
THEOREM NextHopsListen ==
  ASSUME \A W \in BitFlows \cup PacketFlows : Acyclic(W)
  PROVE  NetworkSpec => [](optSelect # "BY_HAND" /\ SlotsFitSuperframe => ReceiverListens)
<1>1. NetworkInit => TurnInv
  BY TurnInvInit
<1>2. NetworkInv /\ NetworkInv' /\ TurnInv /\ [NetworkNext]_networkVars => TurnInv'
  BY TurnInvNext
<1>3. NetworkInv /\ TurnInv =>
        (optSelect # "BY_HAND" /\ SlotsFitSuperframe => ReceiverListens)
  <2> SUFFICES ASSUME NetworkInv, TurnInv, optSelect # "BY_HAND", SlotsFitSuperframe,
                      SinglePath, Running
               PROVE  NextHopListens
    BY DEF ReceiverListens, NextHopListens
  <2>1. PICK required : /\ FieldNetwork(required) /\ Reach(required) = inReach
                        /\ net = Config(required)
    BY DEF NetworkInv, SetUpInv
  <2>2. Orderly(net) /\ OnePath(net)
    BY <2>1, FieldIsOrderly DEF TurnInv
  <2>3. LinksFit(net)
    BY SlotsThenLinks
  <2>4. HeardInv
    BY <2>2, <2>3 DEF TurnInv, ListensInv
  <2> QED
    BY <2>4 DEF HeardInv, NextHopListens
<1> QED
  BY <1>1, <1>2, <1>3, NetworkInvAlways, PTL DEF NetworkSpec

-----------------------------------------------------------------------------
(* Samples leave *)

\* In whole packets, the schedule has more slots for what a node passes on than for
\* what it receives, and they come later.
LEMMA FieldCarries ==
  ASSUME NEW required, FieldNetwork(required), EverythingPassed, WholePackets,
         BeforeSamples(Config(required))
  PROVE  LinksFit(Config(required)) /\ Carries(Config(required))
<1>1. PICK config : config = Config(required)
  OBVIOUS
<1>2. /\ DOMAIN config.links = Nodes /\ Nodes \subseteq Nat /\ 0 \in Nodes
      /\ \A n \in Nodes : config.apps[n].kind = IF n = 0 THEN "none" ELSE "field"
      /\ WellFormed(config) /\ BeforeSamples(config)
  <2>1. /\ DOMAIN Config(required).links = Nodes
        /\ \A n \in Nodes : Config(required).apps[n].kind = IF n = 0 THEN "none" ELSE "field"
    BY DEF Config, FieldNetwork, SchedulerInv, SchedulerTypes, SchedulerTypeOK
  <2> QED
    BY <1>1, <2>1, NodesFinite, FieldIsWhole
<1>3. config.routing[0] = NoRouting
  BY <1>1, <1>2, FieldRoutes
<1>4. config.period \in Nat /\ config.period > 2
  BY <1>2, Superframe
<1>5. \A n \in Nodes : \A l \in DOMAIN config.links[n] : config.links[n][l].slot < config.period
  <2> SUFFICES ASSUME NEW n \in Nodes, NEW l \in DOMAIN config.links[n]
               PROVE  config.links[n][l].slot < config.period
    OBVIOUS
  <2>1. PICK links, R, p : /\ links = config.links[n] /\ R = [slot : Nat, type : LinkTypes]
                           /\ p = config.period
    OBVIOUS
  <2>2. links[l] \in R
    <3>1. links \in Seq(R) /\ l \in DOMAIN links
      BY <1>2, <2>1, SetUp
    <3> QED
      BY <3>1, Element
  <2>3. links[l].slot < p - 2
    BY <1>2, <2>1 DEF BeforeSamples
  <2>4. links[l].slot \in Nat /\ p \in Nat
    BY <1>4, <2>1, <2>2
  <2> QED
    BY <2>1, <2>3, <2>4
<1>6. LinksFit(config)
  <2>1. config.period > 0
    BY <1>4
  <2> QED
    BY <1>2, <1>5, <2>1 DEF LinksFit
<1>7. SchedulerInv /\ stage \in Routed
  BY DEF FieldNetwork, Routed
<1>8. \A n \in Nodes : \A at : /\ HasLink(config, n, at, "TRANSMIT") <=> at \in Transmitted(n)
                               /\ HasLink(config, n, at, "RECEIVE") <=> at \in Received(n)
  BY <1>1, FieldLinks DEF SlotTypes, Transmitted, Received
<1>9. ASSUME NEW n \in Nodes, ~Sinks(config, n)
      PROVE  Fits(config, n, 1, 0)
  <2>1. n # 0
    BY <1>2, <1>3, <1>9 DEF Sinks
  <2>2. \A s \in Slots : s \in Nat
    BY <1>7 DEF SchedulerInv, SchedulerTypes, SchedulerTypeOK, Slots
  <2>3. Ahead(config, n, "TRANSMIT", 0) = Transmitted(n)
        /\ Ahead(config, n, "RECEIVE", 0) = Received(n)
    <3>1. \A at \in Nat : \A type : HasLink(config, n, at, type) => at \in 0 .. config.period - 1
      BY <1>4, <1>5 DEF HasLink
    <3>2. \A at \in Transmitted(n) \cup Received(n) : at \in Nat
      BY <2>2 DEF Transmitted, Received
    <3> QED
      BY <1>8, <3>1, <3>2 DEF Ahead
  <2>4. Transmitted(n) # {}
    <3>1. PICK links, R : links = schedules[n] /\ R = [slot : Nat, type : SlotTypes]
      OBVIOUS
    <3>2. links \in Seq(R) /\ links # <<>>
      BY <3>1 DEF FieldNetwork, SchedulerInv, SchedulerTypes, SchedulerTypeOK
    <3>3. 1 \in DOMAIN links /\ links[1] \in R
      BY <3>2, NotEmpty
    <3>4. config.links[n] = links
      BY <1>1, <3>1 DEF Config, FieldNetwork
    <3>5. HasLink(config, n, links[1].slot, links[1].type) /\ links[1].type \in {"TRANSMIT", "RECEIVE"}
      BY <3>1, <3>3, <3>4 DEF HasLink, SlotTypes
    <3>6. CASE links[1].type = "TRANSMIT"
      BY <1>8, <3>5, <3>6
    <3>7. CASE links[1].type = "RECEIVE"
      <4>1. PICK s \in Slots : LinkOf(s)[2] = n
        BY <1>8, <3>5, <3>7 DEF Received
      <4>2. PICK t \in Slots : LinkOf(t)[1] = n
        BY <1>7, <2>1, <4>1, LinksInOrder
      <4> QED
        BY <4>2 DEF Transmitted
    <3> QED
      BY <3>5, <3>6, <3>7
  <2>5. 1 + Cardinality(Received(n)) <= Cardinality(Transmitted(n))
    BY <1>7, <2>1, <2>4, MoreToTransmit
  <2> QED
    BY <2>3, <2>5 DEF Fits
<1>10. ASSUME NEW n \in Nodes, NEW s, NEW t, HasLink(config, n, s, "RECEIVE"),
              HasLink(config, n, t, "TRANSMIT")
       PROVE  s < t
  <2>1. s \in Slots /\ t \in Slots /\ LinkOf(s)[2] = n /\ LinkOf(t)[1] = n
    BY <1>8, <1>10 DEF Received, Transmitted
  <2> QED
    BY <1>7, <2>1, LinksInOrder
<1>11. Carries(config)
  BY <1>2, <1>9, <1>10 DEF Carries
<1> QED
  BY <1>1, <1>6, <1>11

CarriesInv == CarryInv /\ (optSelect # "BY_HAND" => EverythingPassed)

LEMMA CarriesInvInit ==
  ASSUME NetworkInit
  PROVE  CarriesInv
<1>1. CASE Init /\ NothingInstalled
  BY <1>1 DEF Init, SchedulerInit, NothingInstalled, CarriesInv, CarryInv, EverythingPassed, Running
<1>2. CASE ByHand /\ \E config \in HandMade : Installed(config)
  <2>1. PICK config \in HandMade : Installed(config)
    BY <1>2
  <2>2. /\ WellFormed(config) /\ net = config /\ phase = "RX" /\ slot = 0
        /\ nodes = [n \in DOMAIN config.links |-> Started(config, n)]
        /\ indication = NoIndication
    BY <2>1, NetworksAssumption DEF Installed
  <2>3. ASSUME Carrying(config), NEW n \in Members
        PROVE  /\ Rested(nodes[n]) /\ InSlot(n, nodes[n])
               /\ HasRoom(n, nodes[n]) /\ IsFresh(nodes[n])
    <3>1. PICK me : me = Started(config, n)
      OBVIOUS
    <3>2. nodes[n] = me /\ n \in DOMAIN config.links
      BY <2>2, <3>1 DEF Members
    <3>3. /\ me.radio = "OFF" /\ me.queue = <<>> /\ me.heard = NoFrame /\ me.sent = 0
          /\ config.period # 1 /\ (~Sinks(config, n) => Fits(config, n, Load(me), 0))
      BY <2>2, <2>3, <3>1, <3>2, StartsEmpty
    <3>4. config.period \in Nat
      BY <2>2 DEF WellFormed
    <3> QED
      BY <2>2, <3>2, <3>3, <3>4 DEF Rested, InSlot, HasRoom, IsFresh
  <2> QED
    BY <1>2, <2>2, <2>3 DEF CarriesInv, CarryInv, ByHand
<1> QED
  BY <1>1, <1>2 DEF NetworkInit

LEMMA CarriesInvNext ==
  ASSUME NumPktsNode > 0, NetworkInv, NetworkInv', TurnInv, CarriesInv, [NetworkNext]_networkVars
  PROVE  CarriesInv'
<1>1. CASE optSelect # "BY_HAND" /\ Next /\ UNCHANGED netVars
  <2>1. TdmaInv /\ ~Running /\ EverythingPassed
    BY <1>1, NothingMore DEF NetworkInv, SetUpInv, FieldNetwork, CarriesInv
  <2>2. EverythingPassed' /\ ~Running' /\ indication' = NoIndication
    BY <1>1, <2>1, PassedNext DEF netVars, Running, CarriesInv, CarryInv
  <2> QED
    BY <2>2 DEF CarriesInv, CarryInv
<1>2. CASE UNCHANGED vars
  <2>1. EverythingPassed' <=> EverythingPassed
    <3>1. UNCHANGED <<optSelect, packetsPerSlot, stage, slotFlows>>
      BY <1>2 DEF vars, schedulerVars, solver
    <3> QED
      BY <3>1 DEF EverythingPassed, WholePackets, PassesOn
  <2>2. optSelect' = optSelect
    BY <1>2 DEF vars
  <2>3. CarryInv' => CarriesInv'
    BY <2>1, <2>2 DEF CarriesInv
  <2>4. CASE InstallSchedules
    <3>1. stage = "SCHEDULE_FOUND"
      BY <2>4 DEF InstallSchedules
    <3>2. PICK required \in RequiredPowers : Reach(required) = inReach /\ Deploy(Config(required))
      BY <2>4 DEF InstallSchedules
    <3>3. PICK config : config = Config(required)
      OBVIOUS
    <3>4. TdmaInv
      BY <3>1 DEF NetworkInv, SetUpInv
    <3>5. WellFormed(config)
      BY <2>4, <3>1, <3>3, <3>4, FieldIsWhole DEF InstallSchedules, FieldNetwork, TdmaInv
    <3>6. /\ net' = config /\ phase' = "RX" /\ slot' = 0 /\ indication' = indication
          /\ nodes' = [n \in DOMAIN config.links |-> Started(config, n)]
      BY <3>2, <3>3 DEF Deploy, NetworkInv, NetInv, Running
    <3>7. indication' = NoIndication
      BY <2>4, <3>6 DEF InstallSchedules, Deploy, CarriesInv, CarryInv, Running
    <3>8. ASSUME Carrying(config), NEW n \in Members'
          PROVE  /\ Rested(nodes'[n]) /\ InSlot(n, nodes[n])'
                 /\ HasRoom(n, nodes[n])' /\ IsFresh(nodes[n])'
      <4>1. PICK me : me = Started(config, n)
        OBVIOUS
      <4>2. nodes'[n] = me /\ n \in DOMAIN config.links
        BY <3>6, <4>1 DEF Members
      <4>3. /\ me.radio = "OFF" /\ me.queue = <<>> /\ me.heard = NoFrame /\ me.sent = 0
            /\ config.period # 1 /\ (~Sinks(config, n) => Fits(config, n, Load(me), 0))
        BY <3>5, <3>8, <4>1, <4>2, StartsEmpty
      <4>4. config.period \in Nat
        BY <3>5 DEF WellFormed
      <4>5. HasRoom(n, me)'
        BY <3>6, <4>3, <4>4 DEF HasRoom
      <4>6. InSlot(n, me)' /\ IsFresh(me)'
        BY <3>6, <4>3 DEF InSlot, IsFresh
      <4> QED
        BY <4>2, <4>3, <4>5, <4>6 DEF Rested, InSlot, HasRoom, IsFresh
    <3>9. CarryInv'
      BY <3>6, <3>7, <3>8 DEF CarryInv, Rested
    <3> QED
      BY <2>3, <3>9
  <2>5. CASE NetNext
    <3>1. CarryInv'
      BY <2>5, CarryKept DEF NetworkInv, TurnInv, CarriesInv
    <3> QED
      BY <2>3, <3>1
  <2>6. CASE UNCHANGED netVars
    <3>1. UNCHANGED <<net, slot, phase, nodes, air, indication>>
      BY <2>6 DEF netVars
    <3>2. CarryInv'
      BY <3>1 DEF CarriesInv, CarryInv, Running, Members, InSlot, HasRoom, IsFresh, Current,
                  LastReport, Now
    <3> QED
      BY <2>3, <3>2
  <2> QED
    BY <1>2, <1>1, <2>4, <2>5, <2>6 DEF NetworkNext, networkVars
<1>3. CASE InstallSchedules \/ (NetNext /\ UNCHANGED vars) \/ UNCHANGED networkVars
  BY <1>2, <1>3 DEF InstallSchedules, networkVars
<1> QED
  BY <1>1, <1>3 DEF NetworkNext

\* When the packets of a slot are whole, a sample leaves every queue before the next one
\* is taken, and every delay that is logged of a report is its own: in every network
\* that the scheduler sets up, and in the networks set up by hand whose links come in
\* order and give every node more slots for what it passes on than for what it receives.
THEOREM SamplesLeave ==
  ASSUME \A W \in BitFlows \cup PacketFlows : Acyclic(W), NumPktsNode > 0,
         \A config \in HandMade : BeforeSamples(config) => Orderly(config) /\ Carries(config)
  PROVE  NetworkSpec => []((optSelect # "BY_HAND" => WholePackets) => SampleLeavesInAFrame)
<1>1. NetworkInit => TurnInv /\ CarriesInv
  BY TurnInvInit, CarriesInvInit
<1>2. NetworkInv /\ NetworkInv' /\ TurnInv /\ CarriesInv /\ [NetworkNext]_networkVars =>
        TurnInv' /\ CarriesInv'
  BY TurnInvNext, CarriesInvNext
<1>3. NetworkInv /\ TurnInv /\ CarriesInv =>
        ((optSelect # "BY_HAND" => WholePackets) => SampleLeavesInAFrame)
  <2> SUFFICES ASSUME NetworkInv, TurnInv, CarriesInv, optSelect # "BY_HAND" => WholePackets
               PROVE  SampleLeavesInAFrame
    OBVIOUS
  <2>1. ASSUME Running, LinksBeforeSamples
        PROVE  Carrying(net)
    <3>1. BeforeSamples(net)
      BY <2>1 DEF LinksBeforeSamples, BeforeSamples, Members
    <3>2. CASE optSelect = "BY_HAND"
      <4>1. net \in HandMade
        BY <2>1, <3>2 DEF NetworkInv, SetUpInv
      <4> QED
        BY <3>1, <4>1, NetworksAssumption DEF Carrying
    <3>3. CASE optSelect # "BY_HAND"
      <4>1. PICK required : /\ FieldNetwork(required) /\ Reach(required) = inReach
                            /\ net = Config(required)
        BY <2>1, <3>3 DEF NetworkInv, SetUpInv
      <4>2. Orderly(net)
        BY <3>3, <4>1, FieldIsOrderly DEF TurnInv
      <4>3. LinksFit(net) /\ Carries(net)
        BY <3>1, <3>3, <4>1, FieldCarries DEF CarriesInv
      <4> QED
        BY <3>1, <4>2, <4>3 DEF Carrying
    <3> QED
      BY <3>2, <3>3
  <2> QED
    BY <2>1, SamplesFromInv DEF NetworkInv, CarriesInv
<1> QED
  BY <1>1, <1>2, <1>3, NetworkInvAlways, PTL DEF NetworkSpec

-----------------------------------------------------------------------------
(* What the applications see *)

\* The routes that the scheduler sets up end at the sink, and every node on the way
\* has one of its own.
LEMMA FieldDestined ==
  ASSUME NEW required, FieldNetwork(required)
  PROVE  Destined(Config(required))
<1>1. PICK config : config = Config(required)
  OBVIOUS
<1>2. /\ DOMAIN config.links = Nodes
      /\ \A n \in Nodes : config.apps[n].kind = IF n = 0 THEN "none" ELSE "field"
  BY <1>1 DEF Config, FieldNetwork, SchedulerInv, SchedulerTypes, SchedulerTypeOK
<1>3. \A n \in Nodes : config.routing[n] =
        IF n = 0 THEN NoRouting ELSE [dst \in {0} |-> routingStrings[n]]
  BY <1>1, FieldRoutes
<1>4. \A n \in Nodes \ {0} : config.routing[n] # NoRouting
  <2>1. \A f : DOMAIN f = {0} => f # <<>>
    OBVIOUS
  <2> QED
    BY <1>3, <2>1 DEF NoRouting
<1>5. ASSUME NEW n \in Nodes, NEW dst \in DOMAIN config.routing[n],
             NEW route, route = RouteFrom(config, n, dst), NEW k \in 2 .. Len(route) - 1
      PROVE  config.routing[route[k]] # NoRouting
  <2>1. IsHop(config, route[k], route[k + 1])
    <3>1. k \in 1 .. Len(route) - 1
      BY <1>5
    <3> QED
      BY <1>2, <1>5, <3>1 DEF IsHop
  <2>2. PICK s \in Slots : LinkOf(s) = <<route[k], route[k + 1]>>
    BY <1>1, <2>1, FieldHops
  <2>3. LinkOf(s) \in Links /\ LinkOf(s)[1] # 0
    BY LinksInOrder DEF FieldNetwork, Routed
  <2>4. route[k] \in Nodes \ {0}
    BY <2>2, <2>3 DEF Links
  <2> QED
    BY <1>4, <2>4
<1>6. Destined(config)
  BY <1>2, <1>3, <1>4, <1>5 DEF Destined
<1> QED
  BY <1>1, <1>6

LEMMA DeliverInvInit ==
  ASSUME NetworkInit
  PROVE  DeliverInv /\ InTransit = {} /\ indication = NoIndication
<1>1. CASE Init /\ NothingInstalled
  BY <1>1 DEF NothingInstalled, DeliverInv, InTransit, Running
<1>2. CASE ByHand /\ \E config \in HandMade : Installed(config)
  <2>1. PICK config \in HandMade : Installed(config)
    BY <1>2
  <2>2. /\ WellFormed(config) /\ net = config /\ phase = "RX"
        /\ nodes = [n \in DOMAIN config.links |-> Started(config, n)]
        /\ indication = NoIndication
    BY <2>1, NetworksAssumption DEF Installed
  <2>3. \A n \in Members : IdsAt(n, nodes[n]) = {} /\ Apart(n, nodes[n])
    BY <2>2, NothingInTransit DEF Members
  <2>4. OnePlace
    BY <2>3 DEF OnePlace
  <2>5. InTransit = {}
    <3>1. CASE Running
      <4>1. InTransit = TransitOf(Members, nodes)
        BY <3>1, TransitOfNodes
      <4> QED
        BY <2>3, <4>1, TransitIs
    <3>2. CASE ~Running
      BY <3>2 DEF InTransit
    <3> QED
      BY <3>1, <3>2
  <2> QED
    BY <2>2, <2>4, <2>5 DEF DeliverInv
<1> QED
  BY <1>1, <1>2 DEF NetworkInit

\* The applications do not notice when schedules are installed or computed.
LEMMA DeliverInvNext ==
  ASSUME NetworkInv, NetworkInv', TurnInv, CarriesInv, DeliverInv, [NetworkNext]_networkVars
  PROVE  /\ DeliverInv'
         /\ Serves \/ (Running /\ ~(Destined(net) /\ Numbered(net)))
<1>1. CASE UNCHANGED netVars
  <2>1. UNCHANGED <<net, slot, phase, nodes, air, indication>>
    BY <1>1 DEF netVars
  <2>2. Members' = Members /\ Running' = Running
    BY <2>1 DEF Members, Running
  <2>3. DeliverInv'
    <3>1. OnePlace' <=> OnePlace
      BY <2>1, <2>2 DEF OnePlace, Known
    <3>2. NoneHeard' <=> NoneHeard
      BY <2>1, <2>2 DEF NoneHeard
    <3> QED
      BY <2>1, <2>2, <3>1, <3>2 DEF DeliverInv
  <2>4. InTransit' = InTransit
    <3>1. CASE Running
      BY <2>1, <2>2, <3>1, TransitOfNodes
    <3>2. CASE ~Running
      BY <2>2, <3>2 DEF InTransit
    <3> QED
      BY <3>1, <3>2
  <2> QED
    BY <2>1, <2>3, <2>4 DEF Serves
<1>2. CASE InstallSchedules
  <2>1. PICK required \in RequiredPowers : Reach(required) = inReach /\ Deploy(Config(required))
    BY <1>2 DEF InstallSchedules
  <2>2. PICK config : config = Config(required)
    OBVIOUS
  <2>3. /\ ~Running /\ net' = config /\ phase' = phase /\ indication' = indication
        /\ nodes' = [n \in DOMAIN config.links |-> Started(config, n)]
    BY <2>1, <2>2 DEF Deploy, Running
  <2>4. phase' = "RX"
    BY <2>3 DEF NetworkInv, NetInv
  <2>5. Members' = DOMAIN config.links
    BY <2>3 DEF Members
  <2>6. \A n \in Members' : IdsAt(n, nodes'[n]) = {} /\ Apart(n, nodes'[n])
    BY <2>3, <2>5, NothingInTransit
  <2>7. OnePlace'
    BY <2>6 DEF OnePlace
  <2>8. InTransit = {}
    BY <2>3 DEF InTransit
  <2>9. InTransit' = {}
    <3>1. CASE Running'
      <4>1. InTransit' = TransitOf(Members', nodes')
        BY <3>1, TransitOfNodes
      <4> QED
        BY <2>6, <4>1, TransitIs
    <3>2. CASE ~Running'
      BY <3>2 DEF InTransit
    <3> QED
      BY <3>1, <3>2
  <2> QED
    BY <2>3, <2>4, <2>7, <2>8, <2>9 DEF DeliverInv, Serves
<1>3. CASE NetNext
  <2>1. Running /\ NetInv /\ NetInv' /\ ClockInv /\ CarryInv
    BY <1>3 DEF NetworkInv, CarriesInv, NetNext
  <2>2. DeliverInv' /\ (Destined(net) /\ Numbered(net) => Serves)
    BY <1>3, <2>1, DeliverKept
  <2> QED
    BY <2>1, <2>2
<1> QED
  BY <1>1, <1>2, <1>3 DEF NetworkNext, networkVars

\* A step that serves the applications is one of the service they are promised.
LEMMA ServesIsService ==
  ASSUME Serves
  PROVE  [Service!DeliveryNext]_<<InTransit, indication>>
<1>1. ASSUME NEW S, S \subseteq [src : Nat, dst : Nat, seq : Nat] \ InTransit,
             InTransit' = InTransit \cup S, indication' = NoIndication
      PROVE  Service!Submit(InTransit' \ InTransit)
  <2>1. PICK new : new = InTransit' \ InTransit
    OBVIOUS
  <2>2. /\ new \subseteq [src : Nat, dst : Nat, seq : Nat] \ InTransit
        /\ InTransit' = InTransit \cup new
    BY <1>1, <2>1
  <2> QED
    BY <1>1, <2>1, <2>2 DEF Service!Submit
<1>2. ASSUME InTransit' \subseteq InTransit, indication' = NoIndication
      PROVE  Service!Lose(InTransit \ InTransit')
  <2>1. PICK gone : gone = InTransit \ InTransit'
    OBVIOUS
  <2>2. gone \subseteq InTransit /\ InTransit' = InTransit \ gone
    BY <1>2, <2>1
  <2> QED
    BY <1>2, <2>1, <2>2 DEF Service!Lose
<1>3. ASSUME NEW p \in InTransit, InTransit' = InTransit \ {p},
             indication' = [at |-> p.dst, packet |-> p]
      PROVE  Service!Deliver(p)
  BY <1>3 DEF Service!Deliver
<1> QED
  BY <1>1, <1>2, <1>3 DEF Serves, Service!DeliveryNext

\* What the scheduler has set up, in whole packets and with all links before the
\* samples, delivers.
LEMMA SetUpToDeliver ==
  ASSUME NetworkInv, TurnInv, CarriesInv, Running,
         \A config \in HandMade : Destined(config) /\ Numbered(config),
         optSelect # "BY_HAND" => WholePackets /\ LinksBeforeSamples
  PROVE  Destined(net) /\ Numbered(net)
<1>1. CASE optSelect = "BY_HAND"
  BY <1>1 DEF NetworkInv, SetUpInv
<1>2. CASE optSelect # "BY_HAND"
  <2>1. BeforeSamples(net)
    BY <1>2 DEF LinksBeforeSamples, BeforeSamples, Members
  <2>2. PICK required : /\ FieldNetwork(required) /\ Reach(required) = inReach
                        /\ net = Config(required)
    BY <1>2 DEF NetworkInv, SetUpInv
  <2>3. Orderly(net)
    BY <1>2, <2>2, FieldIsOrderly DEF TurnInv
  <2>4. LinksFit(net) /\ Carries(net)
    BY <1>2, <2>1, <2>2, FieldCarries DEF CarriesInv
  <2> QED
    BY <2>1, <2>2, <2>3, <2>4, FieldDestined DEF Carrying, Numbered
<1> QED
  BY <1>1, <1>2

\* What the applications see is the service: a packet is lost or delivered to its
\* destination, once, and nothing else is delivered, whatever the medium does.  So it
\* is in every network that the scheduler sets up in whole packets with all links before
\* the samples, and in those set up by hand whose packets go to nodes that hand them
\* up and are never two with the same number.
THEOREM PacketsAreDelivered ==
  ASSUME \A W \in BitFlows \cup PacketFlows : Acyclic(W), NumPktsNode > 0,
         \A config \in HandMade : Destined(config) /\ Numbered(config)
  PROVE  /\ NetworkSpec
         /\ [](optSelect # "BY_HAND" => WholePackets /\ (Running => LinksBeforeSamples))
         => Delivers
<1> DEFINE Whole == optSelect # "BY_HAND" => WholePackets /\ (Running => LinksBeforeSamples)
           Inv == NetworkInv /\ TurnInv /\ CarriesInv /\ DeliverInv
<1>1. NetworkInit => TurnInv /\ CarriesInv /\ DeliverInv
  BY TurnInvInit, CarriesInvInit, DeliverInvInit
<1>2. NetworkInv /\ NetworkInv' /\ TurnInv /\ CarriesInv /\ DeliverInv /\ [NetworkNext]_networkVars =>
        TurnInv' /\ CarriesInv' /\ DeliverInv'
  BY TurnInvNext, CarriesInvNext, DeliverInvNext
<1>3. NetworkInv /\ NetworkInv' /\ TurnInv /\ CarriesInv /\ DeliverInv /\ Whole
        /\ [NetworkNext]_networkVars => [Service!DeliveryNext]_<<InTransit, indication>>
  <2> SUFFICES ASSUME NetworkInv, NetworkInv', TurnInv, CarriesInv, DeliverInv, Whole,
                      [NetworkNext]_networkVars
               PROVE  [Service!DeliveryNext]_<<InTransit, indication>>
    OBVIOUS
  <2>1. Running => Destined(net) /\ Numbered(net)
    BY SetUpToDeliver
  <2>2. Serves
    BY <2>1, DeliverInvNext
  <2> QED
    BY <2>2, ServesIsService
<1>4. NetworkSpec => [](NetworkInv /\ TurnInv /\ CarriesInv /\ DeliverInv)
  BY <1>1, <1>2, NetworkInvAlways, PTL DEF NetworkSpec
<1>5. NetworkSpec /\ []Whole => [][Service!DeliveryNext]_<<InTransit, indication>>
  <2> HIDE DEF Whole
  <2> QED
    BY <1>3, <1>4, PTL DEF NetworkSpec
<1>6. NetworkSpec => InTransit = {} /\ indication = NoIndication
  BY DeliverInvInit DEF NetworkSpec
<1> QED
  BY <1>5, <1>6 DEF Delivers, Service!DeliverySpec, Service!DeliveryInit, Service!deliveryVars
=============================================================================
