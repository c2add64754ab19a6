-------------------------- MODULE MCOptimizedTdma --------------------------
EXTENDS OptimizedTdma

Field == Nodes \ {0}

\* Every undirected network for the minimum hop optimizer, the complete one for
\* the linear programs.
AllNetworks ==
  LET edges == {e \in Nodes \X Nodes : e[1] < e[2]}
      links(E) == E \cup {<<e[2], e[1]>> : e \in E}
  IN  [TDMA_MIN_HOP |-> {links(E) : E \in SUBSET edges},
       TDMA_GOLDSMITH |-> {links(edges)},
       TDMA_CONVEX_INT |-> {links(edges)}]

Steps == {<<n, i, j>> : n \in Field, i \in Field, j \in Nodes}

\* One path for every node: the packet of n visits, in descending order, the nodes
\* v with <<n, v>> in via.  A node may forward the packets of others along other
\* links than its own, so that it transmits to several nodes.
Paths(via) ==
  {<<n, i, j>> \in Steps :
     /\ i = n \/ <<n, i>> \in via
     /\ j = 0 \/ <<n, j>> \in via
     /\ j < i
     /\ \A k \in Field : <<n, k>> \in via => ~(j < k /\ k < i)}

FlowsOf(paths) ==
  [i \in Nodes |-> [j \in Nodes |-> Cardinality({n \in Nodes : <<n, i, j>> \in paths})]]

Downwards == {nv \in Field \X Field : nv[2] < nv[1]}
DescendingFlows == {FlowsOf(Paths(via)) : via \in SUBSET Downwards}

\* The same in every order of the nodes: all flows without a cycle.
Orders == {r \in [Nodes -> Nodes] : r[0] = 0 /\ \A i, j \in Nodes : i # j => r[i] # r[j]}

AcyclicFlows ==
  {[i \in Nodes |-> [j \in Nodes |-> W[r[i]][r[j]]]] : W \in DescendingFlows, r \in Orders}

\* A packet in two halves, each with a path of its own: the first any descending
\* path, the second the direct one or the longest.
SplitInHalves ==
  {[i \in Nodes |-> [j \in Nodes |-> V[i][j] + W[i][j]]] :
     V \in DescendingFlows, W \in {FlowsOf(Paths({})), FlowsOf(Paths(Downwards))}}

\* What the theorems of TdmaProofs assume of the flows.
ASSUME FlowsAreAcyclic == \A W \in BitFlows \cup PacketFlows : Acyclic(W)
=============================================================================
