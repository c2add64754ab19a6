--------------------------- MODULE OptimizedTdma ---------------------------
(***************************************************************************)
(* CreateOptimizedTdmaSchedule: the optimizer selected finds the flows     *)
(* (MinHopOptimizer, LpOptimizers), the scheduler turns them into          *)
(* schedules and routes (TdmaScheduler).                                   *)
(***************************************************************************)
EXTENDS TdmaScheduler

CONSTANTS
  NumPktsNode, PktUnits, SlotDuration, TxEarliest, BitRate,  \* see LpOptimizers
  Networks,          \* for each optimizer, the sets of links to choose from
  BitFlows, PacketFlows,  \* flow matrices CPLEX may return for the two programs
  TimeslotChoices,   \* values of SuperFramePeriod
  PacketsPerSlot     \* values of m_packetsPerSlot

ASSUME LpAssumption ==
  /\ NumPktsNode \in Nat /\ PktUnits \in Nat \ {0}
  /\ {SlotDuration, TxEarliest, BitRate} \subseteq Nat /\ TxEarliest <= SlotDuration
  /\ PacketsPerSlot \subseteq Nat \ {0}

\* The variables of the programs have the lower bound zero.
ASSUME FlowAssumption ==
  /\ {"TDMA_MIN_HOP", "TDMA_GOLDSMITH", "TDMA_CONVEX_INT"} \subseteq DOMAIN Networks
  /\ \A o \in DOMAIN Networks : \A links \in Networks[o] : links \subseteq Nodes \X Nodes
  /\ BitFlows \cup PacketFlows \subseteq [Nodes -> [Nodes -> Nat]]
  /\ TimeslotChoices \subseteq Nat

VARIABLES
  optSelect,        \* the optimizer selected
  packetsPerSlot,   \* m_packetsPerSlot
  inReach, pending, hopCount, flows   \* of the optimizer

Solver == INSTANCE MinHopOptimizer WITH
  packetFlows <- flows

Lp == INSTANCE LpOptimizers

solver == <<inReach, pending, hopCount, flows>>
vars   == <<schedulerVars, optSelect, packetsPerSlot, solver>>

TypeOK == SchedulerTypeOK /\ Solver!SolverTypeOK

Init ==
  /\ optSelect \in {"TDMA_MIN_HOP", "TDMA_GOLDSMITH", "TDMA_CONVEX_INT"}
  /\ packetsPerSlot \in PacketsPerSlot
  /\ numTimeslots \in TimeslotChoices
  /\ Solver!SolverInit(Networks[optSelect])
  /\ SchedulerInit

SolveMinHop ==
  /\ optSelect = "TDMA_MIN_HOP"
  /\ \/ Solver!BreadthFirstMinHopFlowSolver /\ UNCHANGED schedulerVars
     \/ /\ pending = <<>>
        /\ StartScheduling(Solver!SolveTdma(packetsPerSlot))
        /\ UNCHANGED solver
  /\ UNCHANGED <<optSelect, packetsPerSlot>>

SolveGoldsmith ==
  /\ optSelect = "TDMA_GOLDSMITH" /\ stage = "OPTIMIZING"
  /\ \E W \in BitFlows :
       /\ Lp!GoldsmithSolution(W, inReach, numTimeslots)
       /\ flows' = W
       /\ StartScheduling(Lp!GoldsmithSlots(W, packetsPerSlot))
  /\ UNCHANGED <<optSelect, packetsPerSlot, inReach, pending, hopCount>>

SolveConvexInt ==
  /\ optSelect = "TDMA_CONVEX_INT" /\ stage = "OPTIMIZING"
  /\ \E W \in PacketFlows :
       /\ Lp!ConvexSolution(W, inReach, numTimeslots)
       /\ flows' = W
       /\ StartScheduling(Lp!ConvexSlots(W, packetsPerSlot))
  /\ UNCHANGED <<optSelect, packetsPerSlot, inReach, pending, hopCount>>

Schedule == ScheduleAndRouteTdma /\ UNCHANGED <<optSelect, packetsPerSlot, solver>>

Next == SolveMinHop \/ SolveGoldsmith \/ SolveConvexInt \/ Schedule

Spec == Init /\ [][Next]_vars /\ WF_vars(Next)

\* No packet comes back to a node it has left: in every set of nodes there is one
\* that sends to none of them.
Acyclic(W) == \A S \in (SUBSET Nodes) \ {{}} : \E i \in S : \A j \in S : W[i][j] = 0

-----------------------------------------------------------------------------
(* Properties of the optimizers: see also MinHopOptimizer. *)

\* The flows of the minimum hop optimizer form a tree, and every node that can
\* reach the sink is in it.
FlowsFormTree == optSelect = "TDMA_MIN_HOP" => Solver!FlowsFormTree /\ Solver!ReachableNodesSend

\* minhop-tdma-optimizer.h:76, "Perform a breadth first search to find a minimum
\* number of hops network".
MinimumHops == optSelect = "TDMA_MIN_HOP" => Solver!MinimumHops

\* The size of a packet in the units of the flows.
FlowUnit == IF optSelect = "TDMA_GOLDSMITH" THEN PktUnits ELSE 1

\* tdma-optimizer-base.h:89, m_packetsPerSlot is the "Number of packets that can be
\* transmitted per timeslot": at that number of packets in each of its slots, the
\* slots a link is given carry its flow.
PacketsFitSlots ==
  stage # "OPTIMIZING" =>
    \A i, j \in Nodes : flows[i][j] <= slotFlows[i][j] * packetsPerSlot * FlowUnit

\* The slots of a link carry its flow, rounded up at most once: true of every
\* optimizer but the integer program with several packets in a slot.
SlotsCarryFlows == (optSelect # "TDMA_CONVEX_INT" \/ packetsPerSlot = 1) => PacketsFitSlots
=============================================================================
