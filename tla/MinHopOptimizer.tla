-------------------------- MODULE MinHopOptimizer --------------------------
(***************************************************************************)
(* The minimum hop TDMA optimizer (model/minhop-tdma-optimizer.cc): from   *)
(* the links whose transmit power is allowed to the number of packets that *)
(* every node sends to every other one in a superframe, if each node but   *)
(* the sink, node 0, generates one.                                        *)
(*                                                                         *)
(* A step is one call of BreadthFirstMinHopFlowSolver; pending holds the   *)
(* calls that the call stack has still to make.                            *)
(***************************************************************************)
EXTENDS Loops, Sequences, Functions

CONSTANT NumNodes  \* m_numNodes

Nodes == 0 .. NumNodes - 1

VARIABLES
  inReach,      \* m_txPowerDbm[i][j] <= m_maxTxPowerDbm, as a set of links
  pending,      \* the parents whose call is still to be made, in order
  hopCount,     \* hopCount
  packetFlows   \* packetFlows[i][j], the packets i sends to j

solverVars == <<inReach, pending, hopCount, packetFlows>>

\* 9999999 in the code: larger than any number of hops.
NoHops == NumNodes

Matrix(f(_, _)) == [i \in Nodes |-> [j \in Nodes |-> f(i, j)]]

SolverTypeOK ==
  /\ inReach \subseteq Nodes \X Nodes
  /\ pending \in Seq(Nodes)
  /\ hopCount \in [Nodes -> 0 .. NoHops]
  /\ packetFlows \in [Nodes -> [Nodes -> Nat]]

SolverInit(networks) ==
  /\ inReach \in networks
  /\ pending = <<0>>
  /\ hopCount = [n \in Nodes |-> IF n = 0 THEN 0 ELSE NoHops]
  /\ packetFlows = Matrix(LAMBDA i, j : 0)

HasNotBeenProcessed(n) == \A j \in Nodes : packetFlows[n][j] = 0

FindFirstParent(n) ==
  CHOOSE j \in Nodes :
    packetFlows[n][j] # 0 /\ \A k \in 0 .. j - 1 : packetFlows[n][k] = 0

NextNode == [i \in Nodes |-> IF i = 0 THEN 0 ELSE FindFirstParent(i)]

\* The nodes from n to the sink, which passes through all of them.
Upstream(n) == Range(Iterated(NextNode, n, NumNodes)) \ {0}

\* The equal hop count with less power never makes a node that has not been
\* processed a new neighbour: its hop count is still NoHops.
NewNeighbours(parent) ==
  {n \in Nodes : /\ <<parent, n>> \in inReach
                 /\ hopCount[n] > hopCount[parent] + 1
                 /\ HasNotBeenProcessed(n)}

\* Mutant of AddFlows: only the new link carries the new node's packet.
AddFirstLink(layer, parent) ==
  Matrix(LAMBDA i, j : packetFlows[i][j] + IF i \in layer /\ j = parent THEN 1 ELSE 0)

\* One packet more on every link from the new nodes to the sink.
AddFlows(layer, parent) ==
  Matrix(LAMBDA i, j : packetFlows[i][j]
    + (IF i \in layer /\ j = parent THEN 1 ELSE 0)
    + (IF i \in Upstream(parent) /\ j = FindFirstParent(i) THEN Cardinality(layer) ELSE 0))

BreadthFirstMinHopFlowSolver ==
  /\ pending # <<>>
  /\ LET parent == Head(pending)
         nextNodeLayer == NewNeighbours(parent)
     IN  /\ hopCount' = [n \in Nodes |-> IF n \in nextNodeLayer THEN hopCount[parent] + 1
                                                               ELSE hopCount[n]]
         /\ packetFlows' = AddFlows(nextNodeLayer, parent)
         /\ pending' = Ascending(nextNodeLayer) \o Tail(pending)
  /\ UNCHANGED inReach

\* What SolveTdma returns: slots instead of packets.
SolveTdma(packetsPerSlot) ==
  Matrix(LAMBDA i, j : (packetFlows[i][j] + packetsPerSlot - 1) \div packetsPerSlot)

-----------------------------------------------------------------------------
(* Properties *)

\* Between two calls the flows are those of a tree: every node processed so
\* far sends its own packet and all it receives, to one parent that is one hop
\* nearer to the sink.
FlowsFormTree ==
  \A n \in Nodes \ {0} : ~HasNotBeenProcessed(n) =>
    /\ SumFunction(packetFlows[n]) = 1 + SumFunction([i \in Nodes |-> packetFlows[i][n]])
    /\ \E p \in Nodes : /\ \A j \in Nodes \ {p} : packetFlows[n][j] = 0
                        /\ <<p, n>> \in inReach /\ hopCount[n] = hopCount[p] + 1

\* The nodes that can reach the sink in at most k hops.
WithinHops ==
  Iterated([nearer \in SUBSET Nodes |->
              nearer \cup {n \in Nodes : \E p \in nearer : <<p, n>> \in inReach}],
           {0}, NumNodes)

\* Every node that can reach the sink at all is given a way to do so.
ReachableNodesSend ==
  pending = <<>> => \A n \in WithinHops[NumNodes] \ {0} : ~HasNotBeenProcessed(n)

\* minhop-tdma-optimizer.h:76, "Perform a breadth first search to find a minimum
\* number of hops network", and isa-manual.tex:165, "finds the paths that
\* minimize the number of hops required by each packet to reach the sink node".
MinimumHops ==
  pending = <<>> =>
    \A k \in 0 .. NumNodes : \A n \in WithinHops[k] : hopCount[n] <= k
=============================================================================
