---------------------------- MODULE LpOptimizers ----------------------------
(***************************************************************************)
(* The TDMA optimizers that hand a linear program to CPLEX                 *)
(* (model/goldsmith-tdma-optimizer.cc,                                     *)
(* model/convex-integer-tdma-optimizer.cc): the constraints a solution     *)
(* meets and the slots made of it.  A solution is a matrix of flows, in    *)
(* packets for the integer program and in bits for the other one; here a   *)
(* packet has PktUnits bits.                                               *)
(*                                                                         *)
(* The solver minimises the energy of the node that uses most.  Which of   *)
(* the solutions that meet the constraints it returns is left open, and    *)
(* so are the constraints on energy, which only rule solutions out.        *)
(***************************************************************************)
EXTENDS Integers, Functions

CONSTANTS
  NumNodes,      \* m_numNodes
  NumPktsNode,   \* m_numPktsNode
  PktUnits,      \* m_numBytesPkt * 8
  SlotDuration, TxEarliest, BitRate  \* m_slotDuration, the DL's, m_bitRate

\* What fits a slot: nothing is sent in it before TxEarliest.
UsableSlotDuration == SlotDuration - TxEarliest
UnitsPerSlot == UsableSlotDuration * BitRate

Nodes == 0 .. NumNodes - 1

\* A flow that may be positive: neither from the sink nor beyond the range.
MayFlow(inReach, i, j) == i # j /\ i # 0 /\ <<i, j>> \in inReach

SumFlowsOut(W, i) == SumFunction(W[i])
SumFlowsIn(W, i)  == SumFunction([j \in Nodes |-> W[j][i]])

\* What both programs ask for if a node sends own units of its own in a
\* superframe, each of them as long as size bits.
MeetsConstraints(W, own, size, inReach, numTimeslots) ==
  /\ \A i, j \in Nodes : W[i][j] > 0 => MayFlow(inReach, i, j)
  /\ \A i \in Nodes \ {0} :
       /\ SumFlowsIn(W, i) + own = SumFlowsOut(W, i)
       /\ SumFlowsOut(W, i) * size <= UnitsPerSlot * numTimeslots

ConvexSolution(W, inReach, numTimeslots) ==
  MeetsConstraints(W, NumPktsNode, PktUnits, inReach, numTimeslots)

GoldsmithSolution(W, inReach, numTimeslots) ==
  MeetsConstraints(W, NumPktsNode * PktUnits, 1, inReach, numTimeslots)

CeilDiv(a, b) == (a + b - 1) \div b

\* The packets are divided among slots when the solution is read and once more
\* when it is returned.
ConvexSlots(W, packetsPerSlot) ==
  [i \in Nodes |-> [j \in Nodes |->
     CeilDiv(CeilDiv(W[i][j], packetsPerSlot), packetsPerSlot)]]

\* Mutant of GoldsmithSlots: bits are not rounded up to packets.
GoldsmithSlotsTruncated(W, packetsPerSlot) ==
  [i \in Nodes |-> [j \in Nodes |-> CeilDiv(W[i][j] \div PktUnits, packetsPerSlot)]]

GoldsmithSlots(W, packetsPerSlot) ==
  [i \in Nodes |-> [j \in Nodes |-> CeilDiv(CeilDiv(W[i][j], PktUnits), packetsPerSlot)]]
=============================================================================
