------------------------- MODULE MCOptimizedNetwork -------------------------
EXTENDS OptimizedNetwork, ExampleNetworks

LowestPower == -17

\* What PacketsAreDelivered asks of the networks set up by hand.
ASSUME ExamplesAreDestined ==
  \A config \in HandMade :
    Destined(config) /\ \A n \in DOMAIN config.links : config.apps[n].kind # "field"

\* Powers in half dB: 3.5 dBm, which rounds to 4 dBm, -4.5 dBm, which the PHY
\* refuses, 2.5 dBm, or 4.5 dBm, which is more than the maximum.
PowerOf(i, j) == <<7, -9, 5>>[((i + j + i * j) % 3) + 1]

\* Every undirected network.
Matrices ==
  {[i \in Nodes |-> [j \in Nodes |-> IF {i, j} \in edges THEN PowerOf(i, j) ELSE 9]] :
     edges \in SUBSET {e \in SUBSET Nodes : Cardinality(e) = 2}}

InRangeNetworks ==
  LET all == {Reach(r) : r \in Matrices}
  IN  [TDMA_MIN_HOP |-> all, TDMA_GOLDSMITH |-> {}, TDMA_CONVEX_INT |-> all]

Field == Nodes \ {0}

\* The packet of n goes through the nodes of via[n], in descending order, and on
\* to the sink; a node may forward the packets of others along other links than
\* its own.
PathsThrough(via) ==
  {<<n, i, j>> \in Field \X Field \X Nodes :
     /\ i = n \/ i \in via[n]
     /\ j = 0 \/ j \in via[n]
     /\ j < i
     /\ \A k \in via[n] : ~(j < k /\ k < i)}

FlowsOf(paths) ==
  [i \in Nodes |-> [j \in Nodes |-> Cardinality({n \in Nodes : <<n, i, j>> \in paths})]]

DescendingFlows ==
  {FlowsOf(PathsThrough(via)) : via \in {f \in [Field -> SUBSET Field] :
                                           \A n \in Field : \A k \in f[n] : k < n}}
=============================================================================
