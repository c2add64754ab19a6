--------------------------- MODULE TdmaScheduler ---------------------------
(***************************************************************************)
(* From slot flows to the superframe schedule and the source route of      *)
(* every node (helper/isa100-helper-scheduling.cc).  Slots are given out   *)
(* from the last one backwards: first the links into the sink, then the    *)
(* links into each node all of whose own links have been scheduled.        *)
(*                                                                         *)
(* A step is one iteration of a loop of the code, or one call of           *)
(* PopulateNodeSchedule.                                                   *)
(***************************************************************************)
EXTENDS Loops, Sequences, SequencesExt, Functions

CONSTANTS
  NumNodes,  \* m_devices.GetN()
  NoRoute    \* "No Route"

Nodes == 0 .. NumNodes - 1

\* There is a sink, and "No Route" is neither an address nor a list of them.
ASSUME SchedulerAssumption ==
  /\ NumNodes \in Nat \ {0}
  /\ NoRoute \notin Nodes /\ NoRoute \notin Seq(Nodes)

VARIABLES
  numTimeslots,     \* m_numTimeslots
  stage,            \* the loop under way, or the SchedulingResult returned
  slotFlows,        \* the flow matrix passed to ScheduleAndRouteTdma
  packetFlows,      \* the copy in which scheduled links are marked with -1
  q, q0, qInd,      \* the nodes of this round and the next, and the node visited
  nSlot,            \* the next slot to give out
  parent,           \* the node whose incoming links are being scheduled
  nI,               \* those of its children that are still to be scheduled
  schedules,        \* the NodeSchedule of every node
  scheduleSummary,  \* the link of every slot
  routeSlot,        \* the slot CalculateSourceRouteStrings has reached
  routingStrings    \* the source route of every node

schedulerVars ==
  <<numTimeslots, stage, slotFlows, packetFlows, q, q0, qInd, nSlot, parent, nI,
    schedules, scheduleSummary, routeSlot, routingStrings>>

loopVars  == <<q, q0, qInd>>
routeVars == <<routeSlot, routingStrings>>

Results == {"SCHEDULE_FOUND", "INSUFFICIENT_SLOTS", "NO_ROUTE"}
Stages  == {"OPTIMIZING", "SCHEDULING", "ROUTING"} \cup Results

Links     == Nodes \X Nodes
SlotTypes == {"TRANSMIT", "RECEIVE"}

SchedulerTypeOK ==
  /\ stage \in Stages
  /\ numTimeslots \in Nat
  /\ slotFlows \in [Nodes -> [Nodes -> Nat]]
  /\ packetFlows \in [Nodes -> [Nodes -> Int]]
  /\ q \in Seq(Nodes) /\ q0 \in Seq(Nodes) /\ nI \in Seq(Nodes)
  /\ q # <<>> => qInd \in 0 .. Len(q) - 1
  /\ nSlot \in Int /\ nSlot >= -1
  /\ parent \in Nodes
  /\ schedules \in [Nodes -> Seq([slot : Nat, type : SlotTypes])]
  /\ scheduleSummary \in Seq(Links)
  /\ routeSlot \in 0 .. Len(scheduleSummary)
  /\ \A n \in Nodes : routingStrings[n] = NoRoute \/ routingStrings[n] \in Seq(Nodes)

SchedulerInit ==
  /\ stage = "OPTIMIZING"
  /\ slotFlows = [i \in Nodes |-> [j \in Nodes |-> 0]]
  /\ packetFlows = slotFlows
  /\ q = <<>> /\ q0 = <<>> /\ qInd = 0
  /\ nSlot = -1
  /\ parent = 0 /\ nI = <<>>
  /\ schedules = [n \in Nodes |-> <<>>]
  /\ scheduleSummary = <<>>
  /\ routeSlot = 0
  /\ routingStrings = [n \in Nodes |-> NoRoute]

-----------------------------------------------------------------------------
(* FlowMatrixToTdmaSchedule *)

TotalSlots(flows) == SumFunction([i \in Nodes |-> SumFunction(flows[i])])

\* Nodes that transmit to n, links already scheduled included.
Transmitters(n, flows) == {i \in Nodes : flows[i][n] # 0}

\* The last slot needed is compared with the number of slots.
StartScheduling(flows) ==
  /\ stage = "OPTIMIZING"
  /\ slotFlows' = flows
  /\ packetFlows' = flows
  /\ nSlot' = TotalSlots(flows) - 1
  /\ IF TotalSlots(flows) - 1 > numTimeslots
       THEN /\ stage' = "INSUFFICIENT_SLOTS"
            /\ UNCHANGED <<q, nI, scheduleSummary>>
       ELSE /\ stage' = "SCHEDULING"
            /\ q' = Ascending(Transmitters(0, flows))
            /\ nI' = q'
            /\ scheduleSummary' = [s \in 1 .. TotalSlots(flows) |-> <<0, 0>>]
  /\ UNCHANGED <<numTimeslots, q0, qInd, parent, schedules, routeVars>>

\* Slot s (from 0) of the summary.
LinkOf(s) == scheduleSummary[s + 1]

IsLeaf(n) == Transmitters(n, packetFlows) = {}

\* Mutant of AllOutlinksScheduled: any scheduled link is enough.
SomeOutlinkScheduled(n) == \E j \in Nodes : packetFlows[n][j] <= 0

AllOutlinksScheduled(n) == \A j \in Nodes : packetFlows[n][j] <= 0

\* Mutant of NoParentInQ: parents two levels up keep a node in the queue.
NoParentAnywhere(n) == \A j \in Nodes : packetFlows[n][j] <= 0

NoParentInQ(n) == \A j \in Range(q) : packetFlows[n][j] <= 0

\* The slots nSlot - weight + 1 .. nSlot for a link of the given weight.
Entries(weight, type) ==
  [k \in 1 .. weight |-> [slot |-> nSlot - weight + k, type |-> type]]

\* Mutant of Inserted: the new slots are appended.
InsertedAtEnd(entries, schedule) == schedule \o entries

\* The slots are inserted one by one at the beginning.
Inserted(entries, schedule) == entries \o schedule

\* Mutant of Scheduled: the link keeps its weight.
ScheduledKeepsWeight(src) == packetFlows

\* The link from src to the parent is marked as scheduled.
Scheduled(src) == [packetFlows EXCEPT ![src][parent] = -1]

\* PopulateNodeSchedule for the next child of parent.  A link scheduled before
\* has weight -1 and gets no slot.
PopulateNodeSchedule ==
  /\ stage = "SCHEDULING" /\ nI # <<>>
  /\ LET src == Head(nI)
         weight == IF packetFlows[src][parent] > 0 THEN packetFlows[src][parent] ELSE 0
         sent == [schedules EXCEPT ![src] = Inserted(Entries(weight, "TRANSMIT"), @)]
     IN  /\ schedules' = [sent EXCEPT ![parent] = Inserted(Entries(weight, "RECEIVE"), @)]
         /\ scheduleSummary' = [k \in DOMAIN scheduleSummary |->
              IF k - 1 \in nSlot - weight + 1 .. nSlot THEN <<src, parent>>
                                                      ELSE scheduleSummary[k]]
         /\ nSlot' = nSlot - weight
         /\ packetFlows' = Scheduled(src)
         /\ q0' = IF parent = 0 \/ src \in Range(q0) THEN q0 ELSE Append(q0, src)
  /\ nI' = Tail(nI)
  /\ UNCHANGED <<numTimeslots, stage, slotFlows, q, qInd, parent, routeVars>>

\* Mutant of Visit: the index is not wrapped after an erase.
VisitWithoutWrap(erased) ==
  /\ q' = IF erased THEN RemoveAt(q, qInd + 1) ELSE q
  /\ qInd' = IF q' = <<>> THEN qInd ELSE qInd + 1

\* The queue is left without the node visited, or with it, and the next
\* visit goes one place further.
Visit(erased) ==
  /\ q' = IF erased THEN RemoveAt(q, qInd + 1) ELSE q
  /\ qInd' = IF q' = <<>> THEN qInd ELSE (qInd + 1) % Len(q')

\* One iteration of the inner loop.  A node without incoming links is done; one
\* whose outgoing links are all scheduled has its children scheduled; any other
\* one waits for a parent in the queue, or for the round that brings one.
VisitNode ==
  /\ stage = "SCHEDULING" /\ nI = <<>> /\ q # <<>>
  /\ LET node == q[qInd + 1]
     IN  \/ /\ IsLeaf(node)
            /\ Visit(TRUE)
            /\ UNCHANGED <<parent, nI>>
         \/ /\ ~IsLeaf(node) /\ AllOutlinksScheduled(node)
            /\ parent' = node
            /\ nI' = Ascending(Transmitters(node, packetFlows))
            /\ Visit(TRUE)
         \/ /\ ~IsLeaf(node) /\ ~AllOutlinksScheduled(node)
            /\ Visit(NoParentInQ(node))
            /\ UNCHANGED <<parent, nI>>
  /\ UNCHANGED <<numTimeslots, stage, slotFlows, packetFlows, q0, nSlot, schedules,
                 scheduleSummary, routeVars>>

\* The outer loop: the children scheduled in this round are the next one.
NextRound ==
  /\ stage = "SCHEDULING" /\ nI = <<>> /\ q = <<>>
  /\ q' = q0 /\ q0' = <<>> /\ qInd' = 0
  /\ stage' = IF q0 = <<>> THEN "ROUTING" ELSE stage
  /\ UNCHANGED <<numTimeslots, slotFlows, packetFlows, nSlot, parent, nI, schedules,
                 scheduleSummary, routeVars>>

-----------------------------------------------------------------------------
(* CalculateSourceRouteStrings *)

\* The slots from s on in which node n transmits.
SlotsFrom(n, s) == {t \in s .. Len(scheduleSummary) - 1 : LinkOf(t)[1] = n}

\* Mutant of NextHop: the search starts one slot late.
NextHopLate(n, s) ==
  IF SlotsFrom(n, s + 2) = {} THEN NoRoute
  ELSE LET t == CHOOSE t \in SlotsFrom(n, s + 2) : \A u \in SlotsFrom(n, s + 2) : t <= u
       IN  LinkOf(t)[2]

\* Where node n sends to in its first slot after s.
NextHop(n, s) ==
  IF SlotsFrom(n, s + 1) = {} THEN NoRoute
  ELSE LET t == CHOOSE t \in SlotsFrom(n, s + 1) : \A u \in SlotsFrom(n, s + 1) : t <= u
       IN  LinkOf(t)[2]

\* Where the packet of slot s goes from a node; it stays at the sink, and where
\* no slot is left.
Hop(s) == [n \in Nodes \cup {NoRoute} |-> IF n \in {0, NoRoute} THEN n ELSE NextHop(n, s)]

\* The node reached after k hops, the first of them the link of slot s.
Path(s) ==
  [k \in 0 .. NumNodes |->
     IF k = 0 THEN LinkOf(s)[1] ELSE Iterated(Hop(s), LinkOf(s)[2], NumNodes)[k - 1]]

\* One iteration: the route of the slot's transmitter, if it has none yet.
\* When no slot is left for a node on the way there is no route.
CalculateSourceRoute ==
  /\ stage = "ROUTING" /\ routeSlot < Len(scheduleSummary)
  /\ LET startNode == LinkOf(routeSlot)[1]
         path == Path(routeSlot)
     IN  IF routingStrings[startNode] # NoRoute THEN UNCHANGED <<stage, routingStrings>>
         ELSE IF path[NumNodes] = NoRoute
           THEN stage' = "NO_ROUTE" /\ UNCHANGED routingStrings
           ELSE LET numHops == CHOOSE k \in 0 .. NumNodes :
                                 path[k] = 0 /\ \A h \in 0 .. k - 1 : path[h] # 0
                IN  /\ routingStrings' = [routingStrings EXCEPT
                                            ![startNode] = [k \in 1 .. numHops |-> path[k]]]
                    /\ UNCHANGED stage
  /\ routeSlot' = routeSlot + 1
  /\ UNCHANGED <<numTimeslots, slotFlows, packetFlows, loopVars, nSlot, parent, nI,
                 schedules, scheduleSummary>>

\* ScheduleAndRouteTdma installs the schedules and the routes.
InstallSchedule ==
  /\ stage = "ROUTING" /\ routeSlot = Len(scheduleSummary)
  /\ stage' = "SCHEDULE_FOUND"
  /\ UNCHANGED <<numTimeslots, slotFlows, packetFlows, loopVars, nSlot, parent, nI,
                 schedules, scheduleSummary, routeVars>>

ScheduleAndRouteTdma ==
  PopulateNodeSchedule \/ VisitNode \/ NextRound \/ CalculateSourceRoute
  \/ InstallSchedule

-----------------------------------------------------------------------------
(* Properties *)

\* No slot is lost and none is given out twice: at any time the slots a link
\* has and those it still waits for add up to its flow, and when all rounds are
\* over no link waits.
SlotsAccounted ==
  stage \in {"SCHEDULING", "ROUTING", "SCHEDULE_FOUND"} =>
    /\ \A i, j \in Nodes :
         LET waiting == IF packetFlows[i][j] > 0 THEN packetFlows[i][j] ELSE 0
             given == {s \in nSlot + 1 .. Len(scheduleSummary) - 1 : LinkOf(s) = <<i, j>>}
         IN  /\ slotFlows[i][j] = Cardinality(given) + waiting
             /\ stage # "SCHEDULING" => waiting = 0

\* The schedules of the nodes are those of one set of links: in every slot the
\* transmitter and the receiver of its link are active and nobody else, and
\* each node lists its slots in ascending order, as ProcessLink needs them.
SchedulesAgree ==
  /\ \A n \in Nodes :
       \A a, b \in DOMAIN schedules[n] : a < b => schedules[n][a].slot < schedules[n][b].slot
  /\ \A s \in nSlot + 1 .. Len(scheduleSummary) - 1, n \in Nodes, type \in SlotTypes :
       [slot |-> s, type |-> type] \in Range(schedules[n]) <=>
         n = LinkOf(s)[IF type = "TRANSMIT" THEN 1 ELSE 2]

\* A node receives everything of a superframe before it transmits, so that it
\* gets rid of it in the same superframe.
ReceivesBeforeTransmits ==
  \A n \in Nodes : \A a, b \in DOMAIN schedules[n] :
    schedules[n][a].type = "RECEIVE" /\ schedules[n][b].type = "TRANSMIT"
      => schedules[n][a].slot < schedules[n][b].slot

\* Every node with a flow gets a route; it ends at the sink, and whichever slot
\* brings a packet to a node of it, a later one takes it to the next.
RoutesFollowSchedule ==
  /\ stage # "NO_ROUTE"
  /\ stage = "SCHEDULE_FOUND" =>
       \A n \in Nodes \ {0} :
         LET route == <<n>> \o routingStrings[n]
         IN  SumFunction(slotFlows[n]) > 0 =>
               /\ routingStrings[n] # NoRoute
               /\ Last(route) = 0
               /\ \A k \in 2 .. Len(route) - 1 : \A s \in 0 .. Len(scheduleSummary) - 1 :
                    LinkOf(s) = <<route[k - 1], route[k]>> =>
                      \E t \in s + 1 .. Len(scheduleSummary) - 1 :
                        LinkOf(t) = <<route[k], route[k + 1]>>

\* Scheduling ends: the rounds terminate whatever the order of the queue.
SchedulingEnds == <>(stage \in Results)

\* isa100-helper.h:364, m_numTimeslots is the "Number of timeslots in a
\* superframe", and isa100-helper.h:263 calls nSlot the "Superframe slot index".
SlotsFitSuperframe ==
  stage \in {"SCHEDULING", "ROUTING", "SCHEDULE_FOUND"} =>
    Len(scheduleSummary) <= numTimeslots
=============================================================================
