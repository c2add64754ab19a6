----------------------------- MODULE TdmaProofs -----------------------------
(***************************************************************************)
(* The schedules and routes of CreateOptimizedTdmaSchedule are correct for *)
(* every number of nodes, every network and every solution of an           *)
(* optimizer without a cycle.  The proof has four parts: what the          *)
(* optimizers hand to the scheduler, how the scheduler gives out slots,    *)
(* why no link is forgotten, and why every route ends at the sink.         *)
(***************************************************************************)
EXTENDS OptimizedTdma, LoopProofs, TLAPS

-----------------------------------------------------------------------------
(* The flows *)

\* The flows the scheduler is made for: nothing leaves the sink, a node that
\* receives also sends, and no packet returns.
ScheduleableFlows(F) ==
  /\ F \in [Nodes -> [Nodes -> Nat]]
  /\ \A j \in Nodes : F[0][j] = 0
  /\ \A i, j \in Nodes : F[i][j] > 0 /\ j # 0 => \E k \in Nodes : F[j][k] > 0
  /\ Acyclic(F)

LEMMA NodesFinite ==
  /\ 0 \in Nodes /\ Nodes \subseteq Nat /\ Nodes \subseteq Int
  /\ IsFiniteSet(Nodes) /\ Cardinality(Nodes) = NumNodes
<1>1. NumNodes - 1 \in Int /\ NumNodes \in Nat /\ NumNodes > 0
  BY SchedulerAssumption
<1>2. IsFiniteSet(Nodes) /\ Cardinality(Nodes) = NumNodes
  BY <1>1, FS_Interval DEF Nodes
<1> QED
  BY <1>1, <1>2 DEF Nodes

\* The slots of one link are counted once.
LEMMA TotalSlotsExcept ==
  ASSUME NEW F \in [Nodes -> [Nodes -> Nat]], NEW i \in Nodes, NEW j \in Nodes, NEW v \in Nat
  PROVE  /\ TotalSlots(F) \in Nat
         /\ F[i][j] <= TotalSlots(F)
         /\ TotalSlots([F EXCEPT ![i][j] = v]) = TotalSlots(F) - F[i][j] + v
<1> DEFINE row == [F[i] EXCEPT ![j] = v]
           H == [F EXCEPT ![i][j] = v]
           sums == [n \in Nodes |-> SumFunction(F[n])]
<1>1. \A n \in Nodes : SumFunction(F[n]) \in Nat
  BY NodesFinite, SumExcept, F \in [Nodes -> [Nodes -> Nat]]
<1>2. sums \in [Nodes -> Nat] /\ sums[i] = SumFunction(F[i])
  BY <1>1
<1>3. /\ F[i][j] <= SumFunction(F[i])
      /\ SumFunction(row) = SumFunction(F[i]) - F[i][j] + v
  BY NodesFinite, SumExcept, F[i] \in [Nodes -> Nat]
<1>4. row \in [Nodes -> Nat] /\ SumFunction(row) \in Nat
  <2>1. row \in [Nodes -> Nat]
    OBVIOUS
  <2> HIDE DEF row
  <2> QED
    BY <2>1, NodesFinite, SumExcept
<1>5. [n \in Nodes |-> SumFunction(H[n])] = [sums EXCEPT ![i] = SumFunction(row)]
  <2>1. \A n \in Nodes : H[n] = IF n = i THEN row ELSE F[n]
    OBVIOUS
  <2> HIDE DEF H, row
  <2> QED
    BY <2>1
<1>6. /\ SumFunction(sums) \in Nat
      /\ sums[i] <= SumFunction(sums)
      /\ SumFunction([sums EXCEPT ![i] = SumFunction(row)])
           = SumFunction(sums) - sums[i] + SumFunction(row)
  <2> DEFINE w == SumFunction(row)
  <2>1. w \in Nat
    BY <1>4
  <2> HIDE DEF sums, row, w, H
  <2>2. ASSUME NEW f \in [Nodes -> Nat]
        PROVE  /\ SumFunction(f) \in Nat
               /\ f[i] <= SumFunction(f)
               /\ SumFunction([f EXCEPT ![i] = w]) = SumFunction(f) - f[i] + w
    BY <2>1, NodesFinite, SumExcept
  <2>3. /\ SumFunction(sums) \in Nat
        /\ sums[i] <= SumFunction(sums)
        /\ SumFunction([sums EXCEPT ![i] = w]) = SumFunction(sums) - sums[i] + w
    BY <1>2, <2>2
  <2> QED
    BY <2>3 DEF w
<1>7. /\ TotalSlots(F) = SumFunction(sums)
      /\ TotalSlots(H) = SumFunction([sums EXCEPT ![i] = SumFunction(row)])
  BY <1>5 DEF TotalSlots
<1>8. F[i][j] \in Nat /\ SumFunction(F[i]) \in Nat
  BY <1>1
<1> HIDE DEF sums, row, H
<1> QED
  BY <1>2, <1>3, <1>4, <1>6, <1>7, <1>8 DEF H

LEMMA TotalSlotsChange ==
  ASSUME NEW F \in [Nodes -> [Nodes -> Nat]], NEW V \in [Nodes -> [Nodes -> Nat]],
         NEW i \in Nodes, NEW j \in Nodes,
         \A a, b \in Nodes : a # i \/ b # j => V[a][b] = F[a][b]
  PROVE  /\ TotalSlots(F) \in Nat
         /\ F[i][j] <= TotalSlots(F)
         /\ TotalSlots(V) = TotalSlots(F) - F[i][j] + V[i][j]
<1> DEFINE v == V[i][j]
           H == [F EXCEPT ![i][j] = v]
<1>1. v \in Nat
  OBVIOUS
<1>2. V = H
  <2>1. H \in [Nodes -> [Nodes -> Nat]]
    BY <1>1
  <2>2. \A a, b \in Nodes : V[a][b] = H[a][b]
    OBVIOUS
  <2> HIDE DEF H
  <2>3. \A a \in Nodes : V[a] = H[a]
    BY <2>1, <2>2
  <2> QED
    BY <2>1, <2>3
<1>3. /\ TotalSlots(F) \in Nat
      /\ F[i][j] <= TotalSlots(F)
      /\ TotalSlots(H) = TotalSlots(F) - F[i][j] + v
  <2> HIDE DEF v
  <2> QED
    BY <1>1, TotalSlotsExcept
<1> HIDE DEF H
<1> QED
  BY <1>2, <1>3

LEMMA CeilDivBounds ==
  ASSUME NEW a \in Nat, NEW b \in Nat \ {0}
  PROVE  /\ (a + b - 1) \div b \in Nat
         /\ a <= ((a + b - 1) \div b) * b
         /\ (a + b - 1) \div b = 0 <=> a = 0
OBVIOUS

\* Rounding the flows up to slots neither adds nor removes a link.
LEMMA SameLinksScheduleable ==
  ASSUME NEW W, ScheduleableFlows(W),
         NEW F \in [Nodes -> [Nodes -> Nat]],
         \A i, j \in Nodes : F[i][j] = 0 <=> W[i][j] = 0
  PROVE  ScheduleableFlows(F)
<1>1. W \in [Nodes -> [Nodes -> Nat]] /\ 0 \in Nodes
  BY NodesFinite DEF ScheduleableFlows
<1>2. \A i, j \in Nodes : /\ F[i][j] \in Nat /\ W[i][j] \in Nat
                          /\ F[i][j] > 0 <=> W[i][j] > 0
  BY <1>1
<1>3. \A j \in Nodes : F[0][j] = 0
  BY <1>1 DEF ScheduleableFlows
<1>4. \A i, j \in Nodes : F[i][j] > 0 /\ j # 0 => \E k \in Nodes : F[j][k] > 0
  BY <1>2 DEF ScheduleableFlows
<1>5. Acyclic(F)
  BY DEF ScheduleableFlows, Acyclic
<1> QED
  BY <1>3, <1>4, <1>5 DEF ScheduleableFlows

\* The sums of the linear programs are those of the scheduler.
LEMMA LpSum ==
  ASSUME NEW f
  PROVE  Lp!SumFunction(f) = SumFunction(f)
BY DEF Lp!SumFunction, Lp!SumFunctionOnSet, Lp!FoldFunctionOnSet, Lp!MapThenFoldSet,
       SumFunction, SumFunctionOnSet, FoldFunctionOnSet, MapThenFoldSet

\* The constraints of the linear programs.
LEMMA LpScheduleable ==
  ASSUME NEW W \in [Nodes -> [Nodes -> Nat]], Acyclic(W),
         NEW own \in Nat, NEW size, NEW links, NEW slots,
         Lp!MeetsConstraints(W, own, size, links, slots)
  PROVE  ScheduleableFlows(W)
<1>1. Lp!Nodes = Nodes
  BY DEF Lp!Nodes, Nodes
<1>2. \A j \in Nodes : W[0][j] = 0
  <2>1. \A j \in Nodes : ~(W[0][j] > 0) /\ W[0][j] \in Nat
    BY <1>1, NodesFinite DEF Lp!MeetsConstraints, Lp!MayFlow
  <2> QED
    BY <2>1
<1>3. ASSUME NEW i \in Nodes, NEW j \in Nodes, W[i][j] > 0, j # 0
      PROVE  \E k \in Nodes : W[j][k] > 0
  <2> DEFINE into == [n \in Nodes |-> W[n][j]]
  <2>1. SumFunction(into) + own = SumFunction(W[j])
    <3>1. Lp!SumFlowsIn(W, j) + own = Lp!SumFlowsOut(W, j)
      BY <1>1, <1>3 DEF Lp!MeetsConstraints
    <3>2. Lp!SumFlowsIn(W, j) = SumFunction(into)
      BY <1>1, LpSum DEF Lp!SumFlowsIn
    <3>3. Lp!SumFlowsOut(W, j) = SumFunction(W[j])
      BY LpSum DEF Lp!SumFlowsOut
    <3> HIDE DEF into
    <3> QED
      BY <3>1, <3>2, <3>3
  <2>2. into \in [Nodes -> Nat] /\ into[i] > 0
    BY <1>3
  <2>3. SumFunction(into) \in Nat /\ SumFunction(into) > 0
    <3> HIDE DEF into
    <3> QED
      BY <2>2, NodesFinite, SumPositive
  <2>4. W[j] \in [Nodes -> Nat]
    OBVIOUS
  <2>5. SumFunction(W[j]) > 0
    <3> HIDE DEF into
    <3> QED
      BY <2>1, <2>3
  <2> QED
    BY <2>4, <2>5, NodesFinite, SumPositive
<1> QED
  BY <1>2, <1>3 DEF ScheduleableFlows

LEMMA LpSlotsScheduleable ==
  ASSUME NEW W \in [Nodes -> [Nodes -> Nat]], Acyclic(W), NEW perSlot \in Nat \ {0},
         NEW links, NEW slots
  PROVE  /\ Lp!ConvexSolution(W, links, slots) =>
                ScheduleableFlows(Lp!ConvexSlots(W, perSlot))
         /\ Lp!GoldsmithSolution(W, links, slots) =>
                ScheduleableFlows(Lp!GoldsmithSlots(W, perSlot))
<1>1. Lp!Nodes = Nodes
  BY DEF Lp!Nodes, Nodes
<1>2. \A a \in Nat, b \in Nat \ {0} :
        Lp!CeilDiv(a, b) \in Nat /\ (Lp!CeilDiv(a, b) = 0 <=> a = 0)
  BY CeilDivBounds DEF Lp!CeilDiv
<1>3. /\ NumPktsNode \in Nat /\ PktUnits \in Nat \ {0}
      /\ NumPktsNode * PktUnits \in Nat
  BY LpAssumption
<1>4. ASSUME Lp!ConvexSolution(W, links, slots)
      PROVE  ScheduleableFlows(Lp!ConvexSlots(W, perSlot))
  <2> DEFINE F == Lp!ConvexSlots(W, perSlot)
  <2>1. ScheduleableFlows(W)
    BY <1>3, <1>4, LpScheduleable DEF Lp!ConvexSolution
  <2>2. \A i, j \in Nodes : F[i][j] = Lp!CeilDiv(Lp!CeilDiv(W[i][j], perSlot), perSlot)
    BY <1>1 DEF Lp!ConvexSlots
  <2>3. F \in [Nodes -> [Nodes -> Nat]]
    BY <1>1, <1>2 DEF Lp!ConvexSlots
  <2>4. \A i, j \in Nodes : F[i][j] = 0 <=> W[i][j] = 0
    BY <1>2, <2>2
  <2> HIDE DEF F
  <2>5. ScheduleableFlows(F)
    BY <2>1, <2>3, <2>4, SameLinksScheduleable
  <2> QED
    BY <2>5 DEF F
<1>5. ASSUME Lp!GoldsmithSolution(W, links, slots)
      PROVE  ScheduleableFlows(Lp!GoldsmithSlots(W, perSlot))
  <2> DEFINE F == Lp!GoldsmithSlots(W, perSlot)
  <2>1. ScheduleableFlows(W)
    BY <1>3, <1>5, LpScheduleable DEF Lp!GoldsmithSolution
  <2>2. \A i, j \in Nodes : F[i][j] = Lp!CeilDiv(Lp!CeilDiv(W[i][j], PktUnits), perSlot)
    BY <1>1 DEF Lp!GoldsmithSlots
  <2>3. F \in [Nodes -> [Nodes -> Nat]]
    BY <1>1, <1>2, <1>3 DEF Lp!GoldsmithSlots
  <2>4. \A i, j \in Nodes : F[i][j] = 0 <=> W[i][j] = 0
    BY <1>2, <1>3, <2>2
  <2> HIDE DEF F
  <2>5. ScheduleableFlows(F)
    BY <2>1, <2>3, <2>4, SameLinksScheduleable
  <2> QED
    BY <2>5 DEF F
<1> QED
  BY <1>4, <1>5

-----------------------------------------------------------------------------
(* The minimum hop optimizer *)

Sends(n) == \E j \in Nodes : flows[n][j] > 0

SolverTypes ==
  /\ pending \in Seq(Nodes)
  /\ hopCount \in [Nodes -> 0 .. NumNodes]
  /\ flows \in [Nodes -> [Nodes -> Nat]]

\* Between two calls every link leads one hop nearer to the sink, to a node that
\* sends on, and the calls still to be made are for such nodes.
SolverTree ==
  /\ hopCount[0] = 0
  /\ \A j \in Nodes : flows[0][j] = 0
  /\ \A i, j \in Nodes : flows[i][j] > 0 =>
       hopCount[i] = hopCount[j] + 1 /\ (j = 0 \/ Sends(j))
  /\ \A k \in DOMAIN pending : pending[k] = 0 \/ Sends(pending[k])

LEMMA SolverNodes == Solver!Nodes = Nodes
BY DEF Solver!Nodes, Nodes

LEMMA SolverAscending ==
  ASSUME NEW S \in SUBSET Nodes
  PROVE  /\ Solver!Ascending(S) \in Seq(S) /\ Solver!Ascending(S) \in Seq(Nodes)
         /\ \A x \in S : \E k \in DOMAIN Solver!Ascending(S) : Solver!Ascending(S)[k] = x
<1>1. Solver!Ascending(S) = Ascending(S)
  BY DEF Solver!Ascending, Ascending, Solver!Cardinality, Cardinality
<1>2. S \in SUBSET Int /\ IsFiniteSet(S)
  BY NodesFinite, FS_Subset
<1>3. Ascending(S) \in Seq(S) /\ Range(Ascending(S)) = S
  BY <1>2, AscendingEnumerates
<1> DEFINE asc == Ascending(S)
<1> HIDE DEF asc
<1>4. asc \in Seq(S) /\ asc \in Seq(Nodes) /\ \A x \in S : \E k \in DOMAIN asc : asc[k] = x
  BY <1>3 DEF Range, asc
<1> QED
  BY <1>1, <1>4 DEF asc

LEMMA FirstParent ==
  ASSUME flows \in [Nodes -> [Nodes -> Nat]], NEW n \in Nodes, Sends(n)
  PROVE  /\ Solver!FindFirstParent(n) \in Nodes
         /\ flows[n][Solver!FindFirstParent(n)] > 0
<1> DEFINE T == {j \in Nodes : flows[n][j] # 0}
<1>1. T \in SUBSET Nat /\ T # {}
  <2>1. PICK j \in Nodes : flows[n][j] > 0
    BY DEF Sends
  <2>2. j \in T
    BY <2>1
  <2> QED
    BY <2>2, NodesFinite
<1>2. PICK x \in T : \A y \in T : x <= y
  <2> HIDE DEF T
  <2> QED
    BY <1>1, LeastNatural
<1>3. x \in Nodes /\ flows[n][x] # 0 /\ \A k \in 0 .. x - 1 : flows[n][k] = 0
  <2>1. x \in Nodes /\ flows[n][x] # 0
    OBVIOUS
  <2>2. ASSUME NEW k \in 0 .. x - 1 PROVE flows[n][k] = 0
    <3>1. k \in Nodes /\ k < x
      BY <2>1, SchedulerAssumption DEF Nodes
    <3>2. k \notin T
      BY <1>2, <2>1, <3>1, NodesFinite
    <3> QED
      BY <3>1, <3>2
  <2> QED
    BY <2>1, <2>2
<1> DEFINE First(j) == flows[n][j] # 0 /\ \A k \in 0 .. j - 1 : flows[n][k] = 0
<1>4. Solver!FindFirstParent(n) = CHOOSE j \in Nodes : First(j)
  BY SolverNodes DEF Solver!FindFirstParent
<1>5. \E j \in Nodes : First(j)
  BY <1>3
<1>6. (CHOOSE j \in Nodes : First(j)) \in Nodes /\ First(CHOOSE j \in Nodes : First(j))
  <2> HIDE DEF First
  <2> QED
    BY <1>5
<1>7. Solver!FindFirstParent(n) \in Nodes /\ flows[n][Solver!FindFirstParent(n)] # 0
  BY <1>4, <1>6
<1>8. \A j \in Nodes : flows[n][j] # 0 => flows[n][j] > 0
  OBVIOUS
<1> QED
  BY <1>7, <1>8

\* On the way from a node that sends to the sink every node sends, to one that is
\* a hop nearer.
LEMMA UpstreamSteps ==
  ASSUME SolverTypes, SolverTree, NEW n \in Nodes, n = 0 \/ Sends(n),
         NEW at, at = Iterated(Solver!NextNode, n, NumNodes)
  PROVE  /\ at[0] = n
         /\ \A k \in 0 .. NumNodes - 1 :
              at[k + 1] = IF at[k] = 0 THEN 0 ELSE Solver!FindFirstParent(at[k])
         /\ \A k \in 0 .. NumNodes :
              /\ at[k] \in Nodes /\ (at[k] = 0 \/ Sends(at[k]))
              /\ at[k] # 0 => hopCount[at[k]] + k = hopCount[n]
         /\ Solver!Upstream(n) = {at[k] : k \in 0 .. NumNodes} \ {0}
<1> DEFINE Good(k, i) == /\ i \in Nodes /\ (i = 0 \/ Sends(i))
                         /\ i # 0 => hopCount[i] + k = hopCount[n]
           Bad == {k \in 0 .. NumNodes : ~Good(k, at[k])}
<1>1. NumNodes \in Nat /\ 0 \in Nodes /\ \A i \in Nodes : hopCount[i] \in Nat
  BY SchedulerAssumption, NodesFinite DEF SolverTypes
<1>2. at = [k \in 0 .. NumNodes |-> IF k = 0 THEN n ELSE Solver!NextNode[at[k - 1]]]
  BY <1>1, IteratedDef
<1>3. Solver!Iterated(Solver!NextNode, n, NumNodes) = at
  BY DEF Solver!Iterated, Iterated
<1>4. \A k \in Nat, i \in Nodes : Good(k, i) =>
        /\ Solver!NextNode[i] = IF i = 0 THEN 0 ELSE Solver!FindFirstParent(i)
        /\ Good(k + 1, Solver!NextNode[i])
  <2> SUFFICES ASSUME NEW k \in Nat, NEW i \in Nodes, Good(k, i)
               PROVE  /\ Solver!NextNode[i] = IF i = 0 THEN 0 ELSE Solver!FindFirstParent(i)
                      /\ Good(k + 1, Solver!NextNode[i])
    OBVIOUS
  <2>1. Solver!NextNode[i] = IF i = 0 THEN 0 ELSE Solver!FindFirstParent(i)
    BY SolverNodes DEF Solver!NextNode
  <2>2. CASE i = 0
    BY <1>1, <2>1, <2>2
  <2>3. CASE i # 0
    <3> DEFINE j == Solver!FindFirstParent(i)
    <3>1. j \in Nodes /\ flows[i][j] > 0
      BY <2>3, FirstParent DEF SolverTypes
    <3> HIDE DEF j
    <3>2. hopCount[i] = hopCount[j] + 1 /\ (j = 0 \/ Sends(j))
      BY <3>1 DEF SolverTree
    <3>3. hopCount[i] + k = hopCount[n]
      BY <2>3
    <3>4. hopCount[j] + (k + 1) = hopCount[n]
      BY <1>1, <3>1, <3>2, <3>3
    <3> QED
      BY <2>1, <2>3, <3>1, <3>2, <3>4 DEF j
  <2> QED
    BY <2>2, <2>3
<1>5. Good(0, n)
  BY <1>1
<1>6. at[0] = n /\ \A k \in 0 .. NumNodes - 1 : at[k + 1] = Solver!NextNode[at[k]]
  <2>1. \A k \in 0 .. NumNodes - 1 : /\ k + 1 \in 0 .. NumNodes /\ k + 1 # 0 /\ k + 1 - 1 = k
    BY <1>1
  <2>2. 0 \in 0 .. NumNodes
    BY <1>1
  <2>3. \A k \in 0 .. NumNodes : at[k] = IF k = 0 THEN n ELSE Solver!NextNode[at[k - 1]]
    BY <1>2
  <2> QED
    BY <2>1, <2>2, <2>3
<1>7. \A k \in 0 .. NumNodes : Good(k, at[k])
  <2> SUFFICES ASSUME Bad # {} PROVE FALSE
    OBVIOUS
  <2>1. PICK k \in Bad : \A y \in Bad : k <= y
    <3>1. Bad \in SUBSET Nat
      OBVIOUS
    <3> HIDE DEF Bad
    <3> QED
      BY <3>1, LeastNatural
  <2>2. k # 0
    BY <1>5, <1>6
  <2>3. k - 1 \in 0 .. NumNodes - 1 /\ k - 1 \in Nat /\ k - 1 + 1 = k /\ ~(k <= k - 1)
        /\ k - 1 \in 0 .. NumNodes
    <3>1. k \in 0 .. NumNodes
      OBVIOUS
    <3> QED
      BY ONLY <1>1, <2>2, <3>1
  <2>4. Good(k - 1, at[k - 1])
    BY <2>1, <2>3
  <2>5. Good(k - 1 + 1, at[k])
    BY <1>4, <1>6, <2>3, <2>4
  <2> QED
    BY <2>3, <2>5
<1>8. Solver!Upstream(n) = {at[k] : k \in 0 .. NumNodes} \ {0}
  <2>1. DOMAIN at = 0 .. NumNodes
    BY <1>2
  <2> QED
    BY <1>3, <2>1 DEF Solver!Upstream, Solver!Range
<1>9. ASSUME NEW k \in 0 .. NumNodes - 1
      PROVE  at[k + 1] = IF at[k] = 0 THEN 0 ELSE Solver!FindFirstParent(at[k])
  <2>1. k \in Nat /\ k \in 0 .. NumNodes
    BY <1>1
  <2> QED
    BY <1>4, <1>6, <1>7, <2>1
<1> QED
  BY <1>6, <1>7, <1>8, <1>9

LEMMA UpstreamSends ==
  ASSUME SolverTypes, SolverTree, NEW n \in Nodes, n = 0 \/ Sends(n)
  PROVE  \A i \in Solver!Upstream(n) : i \in Nodes /\ i # 0 /\ Sends(i)
BY UpstreamSteps

\* The way to the sink is a path: from a node on it one gets to the next one and to
\* no other, each is a hop nearer, and one never gets back to where it began.
LEMMA UpstreamIsPath ==
  ASSUME SolverTypes, SolverTree, NEW n \in Nodes, n = 0 \/ Sends(n),
         NEW U, U = Solver!Upstream(n)
  PROVE  /\ n # 0 => n \in U
         /\ \A i \in U : /\ Solver!FindFirstParent(i) \in U \cup {0}
                         /\ Solver!FindFirstParent(i) # n
         /\ \A i \in U : i # n => \E k \in U : Solver!FindFirstParent(k) = i
         /\ \A i, k \in U : Solver!FindFirstParent(i) = Solver!FindFirstParent(k) => i = k
<1> DEFINE at == Iterated(Solver!NextNode, n, NumNodes)
<1>1. /\ at[0] = n
      /\ \A k \in 0 .. NumNodes - 1 :
           at[k + 1] = IF at[k] = 0 THEN 0 ELSE Solver!FindFirstParent(at[k])
      /\ \A k \in 0 .. NumNodes :
           /\ at[k] \in Nodes /\ (at[k] = 0 \/ Sends(at[k]))
           /\ at[k] # 0 => hopCount[at[k]] + k = hopCount[n]
      /\ U = {at[k] : k \in 0 .. NumNodes} \ {0}
  BY UpstreamSteps
<1> HIDE DEF at
<1>2. /\ NumNodes \in Nat /\ 0 \in 0 .. NumNodes
      /\ \A i \in Nodes : hopCount[i] \in 0 .. NumNodes
  BY SchedulerAssumption DEF SolverTypes
<1>3. n # 0 => n \in U
  BY <1>1, <1>2
<1>4. \A i \in U : i \in Nodes /\ i # 0 /\ \E k \in 0 .. NumNodes : i = at[k]
  BY <1>1
<1>5. ASSUME NEW i \in U
      PROVE  /\ Solver!FindFirstParent(i) \in Nodes
             /\ hopCount[i] = hopCount[Solver!FindFirstParent(i)] + 1
  <2>1. i \in Nodes /\ Sends(i)
    BY <1>1
  <2>2. Solver!FindFirstParent(i) \in Nodes /\ flows[i][Solver!FindFirstParent(i)] > 0
    BY <2>1, FirstParent DEF SolverTypes
  <2> QED
    BY <2>1, <2>2 DEF SolverTree
<1>6. ASSUME NEW i \in U, NEW k \in 0 .. NumNodes, i = at[k]
      PROVE  /\ k \in 0 .. NumNodes - 1 /\ Solver!FindFirstParent(i) = at[k + 1]
             /\ hopCount[i] + k = hopCount[n]
  <2>1. hopCount[i] + k = hopCount[n] /\ i # 0
    BY <1>1, <1>4, <1>6
  <2>2. /\ hopCount[i] \in Nat /\ hopCount[n] \in 0 .. NumNodes
        /\ hopCount[Solver!FindFirstParent(i)] \in Nat
    BY <1>2, <1>4, <1>5
  <2>3. k \in 0 .. NumNodes - 1
    BY <1>2, <1>5, <2>1, <2>2
  <2> QED
    BY <1>1, <1>6, <2>1, <2>3
<1>7. ASSUME NEW i \in U
      PROVE  /\ Solver!FindFirstParent(i) \in U \cup {0}
             /\ Solver!FindFirstParent(i) # n
  <2>1. PICK k \in 0 .. NumNodes : i = at[k]
    BY <1>4
  <2>2. k + 1 \in 0 .. NumNodes /\ Solver!FindFirstParent(i) = at[k + 1]
    BY <1>2, <1>6, <2>1
  <2>3. Solver!FindFirstParent(i) \in U \cup {0}
    BY <1>1, <2>2
  <2>4. hopCount[i] + k = hopCount[n]
    BY <1>6, <2>1
  <2>5. Solver!FindFirstParent(i) # n
    <3>1. hopCount[i] \in Nat /\ hopCount[Solver!FindFirstParent(i)] \in Nat
      BY <1>2, <1>4, <1>5
    <3> QED
      BY <1>5, <2>4, <3>1
  <2> QED
    BY <2>3, <2>5
<1>8. ASSUME NEW i \in U, i # n
      PROVE  \E k \in U : Solver!FindFirstParent(k) = i
  <2>1. PICK k \in 0 .. NumNodes : i = at[k]
    BY <1>4
  <2>2. k - 1 \in 0 .. NumNodes - 1 /\ k - 1 \in 0 .. NumNodes /\ k - 1 + 1 = k
    BY <1>1, <1>2, <1>8, <2>1
  <2>3. i = IF at[k - 1] = 0 THEN 0 ELSE Solver!FindFirstParent(at[k - 1])
    BY <1>1, <2>1, <2>2
  <2>4. at[k - 1] # 0 /\ Solver!FindFirstParent(at[k - 1]) = i
    BY <1>4, <2>3
  <2>5. at[k - 1] \in U
    BY <1>1, <2>2, <2>4
  <2> QED
    BY <2>4, <2>5
<1>9. ASSUME NEW i \in U, NEW k \in U,
             Solver!FindFirstParent(i) = Solver!FindFirstParent(k)
      PROVE  i = k
  <2>1. PICK a \in 0 .. NumNodes : i = at[a]
    BY <1>4
  <2>2. PICK b \in 0 .. NumNodes : k = at[b]
    BY <1>4
  <2>3. hopCount[i] + a = hopCount[n] /\ hopCount[k] + b = hopCount[n]
    BY <1>6, <2>1, <2>2
  <2>4. hopCount[i] = hopCount[k] /\ hopCount[i] \in Nat
    BY <1>2, <1>4, <1>5, <1>9
  <2>5. a = b
    <3>1. hopCount[n] \in Nat
      BY <1>2
    <3> QED
      BY <2>3, <2>4, <3>1
  <2> QED
    BY <2>1, <2>2, <2>5
<1> QED
  BY <1>3, <1>7, <1>8, <1>9

\* What a call adds to a link: the packet of a new node, and those a node on the way
\* from its parent to the sink forwards.
OwnPacket(layer, par, i, j) == IF i \in layer /\ j = par THEN 1 ELSE 0

Forwarded(layer, par, i, j) ==
  IF i \in Solver!Upstream(par) /\ j = Solver!FindFirstParent(i)
    THEN Cardinality(layer) ELSE 0

LEMMA SolverAdds ==
  ASSUME Solver!BreadthFirstMinHopFlowSolver,
         NEW par, par = Head(pending), NEW layer, layer = Solver!NewNeighbours(par),
         NEW i \in Nodes, NEW j \in Nodes
  PROVE  flows'[i][j] = flows[i][j] + OwnPacket(layer, par, i, j) + Forwarded(layer, par, i, j)
<1>1. flows' = Solver!AddFlows(layer, par)
  BY SolverNodes DEF Solver!BreadthFirstMinHopFlowSolver
<1>2. Solver!Cardinality(layer) = Cardinality(layer)
  BY DEF Solver!Cardinality, Cardinality
<1> QED
  BY <1>1, <1>2, SolverNodes DEF Solver!AddFlows, Solver!Matrix, OwnPacket, Forwarded

\* One call of BreadthFirstMinHopFlowSolver.
LEMMA CallNodes ==
  ASSUME SolverTypes, SolverTree, Solver!BreadthFirstMinHopFlowSolver,
         NEW par, par = Head(pending), NEW layer, layer = Solver!NewNeighbours(par)
  PROVE  /\ par \in Nodes /\ (par = 0 \/ Sends(par))
         /\ layer \subseteq Nodes /\ 0 \notin layer /\ par \notin layer
         /\ \A n \in layer : ~Sends(n) /\ hopCount[n] > hopCount[par] + 1
<1>1. /\ par \in Nodes /\ (par = 0 \/ Sends(par))
  <2>1. pending # <<>> /\ pending \in Seq(Nodes)
    BY DEF SolverTypes, Solver!BreadthFirstMinHopFlowSolver
  <2>2. \A k \in DOMAIN pending : pending[k] = 0 \/ Sends(pending[k])
    BY DEF SolverTree
  <2>3. 1 \in DOMAIN pending /\ par = pending[1] /\ par \in Nodes
    BY <2>1
  <2> QED
    BY <2>2, <2>3
<1>2. /\ layer \subseteq Nodes /\ 0 \notin layer /\ par \notin layer
      /\ \A n \in layer : ~Sends(n) /\ hopCount[n] > hopCount[par] + 1
  <2>1. \A n \in layer : /\ n \in Nodes
                         /\ hopCount[n] > hopCount[par] + 1
                         /\ \A j \in Nodes : flows[n][j] = 0
    BY SolverNodes DEF Solver!NewNeighbours, Solver!HasNotBeenProcessed
  <2>2. hopCount[par] \in Nat /\ hopCount[0] = 0
    BY <1>1, SchedulerAssumption DEF SolverTypes, SolverTree
  <2>3. \A n \in layer : ~Sends(n)
    BY <2>1 DEF Sends
  <2> QED
    BY <2>1, <2>2, <2>3
<1> QED
  BY <1>1, <1>2

LEMMA CallPending ==
  ASSUME SolverTypes, SolverTree, Solver!BreadthFirstMinHopFlowSolver,
         NEW par, par = Head(pending), NEW layer, layer = Solver!NewNeighbours(par)
  PROVE  /\ pending' = Solver!Ascending(layer) \o Tail(pending)
         /\ Tail(pending) \in Seq(Nodes)
         /\ \A k \in DOMAIN Tail(pending) : Tail(pending)[k] = 0 \/ Sends(Tail(pending)[k])
         /\ \A n \in Nodes :
              hopCount'[n] = IF n \in layer THEN hopCount[par] + 1 ELSE hopCount[n]
<1>1. /\ hopCount' = [n \in Nodes |-> IF n \in layer THEN hopCount[par] + 1 ELSE hopCount[n]]
      /\ pending' = Solver!Ascending(layer) \o Tail(pending)
  BY SolverNodes DEF Solver!BreadthFirstMinHopFlowSolver
<1>2. pending # <<>> /\ pending \in Seq(Nodes)
  BY DEF SolverTypes, Solver!BreadthFirstMinHopFlowSolver
<1>3. \A k \in DOMAIN Tail(pending) :
        k + 1 \in DOMAIN pending /\ Tail(pending)[k] = pending[k + 1]
  BY <1>2
<1>4. \A k \in DOMAIN Tail(pending) : Tail(pending)[k] = 0 \/ Sends(Tail(pending)[k])
  BY <1>3 DEF SolverTree
<1> QED
  BY <1>1, <1>2, <1>4

LEMMA CallFlows ==
  ASSUME SolverTypes, SolverTree, Solver!BreadthFirstMinHopFlowSolver,
         NEW par, par = Head(pending), NEW layer, layer = Solver!NewNeighbours(par)
  PROVE  /\ flows' \in [Nodes -> [Nodes -> Nat]]
         /\ \A i, j \in Nodes :
              /\ flows'[i][j] >= flows[i][j]
              /\ flows'[i][j] > 0 => flows[i][j] > 0 \/ (i \in layer /\ j = par)
              /\ i \in layer /\ j = par => flows'[i][j] > 0
         /\ \A n \in Nodes : Sends(n)' <=> Sends(n) \/ n \in layer
<1>1. /\ par \in Nodes /\ (par = 0 \/ Sends(par))
      /\ layer \subseteq Nodes
  BY CallNodes
<1>3. Cardinality(layer) \in Nat
  BY <1>1, NodesFinite, FS_Subset, FS_CardinalityType
<1>4. \A i \in Solver!Upstream(par) :
        /\ i \in Nodes /\ i # 0 /\ Sends(i)
        /\ flows[i][Solver!FindFirstParent(i)] > 0
  BY <1>1, UpstreamSends, FirstParent DEF SolverTypes
<1>6. \A i, j \in Nodes :
        flows'[i][j] = flows[i][j] + OwnPacket(layer, par, i, j) + Forwarded(layer, par, i, j)
  BY SolverAdds
<1>7. flows' \in [Nodes -> [Nodes -> Nat]]
  <2>1. flows' = [i \in Nodes |-> [j \in Nodes |-> flows'[i][j]]]
    BY SolverNodes DEF Solver!BreadthFirstMinHopFlowSolver, Solver!AddFlows, Solver!Matrix
  <2>2. \A i, j \in Nodes : flows'[i][j] \in Nat
    <3> SUFFICES ASSUME NEW i \in Nodes, NEW j \in Nodes PROVE flows'[i][j] \in Nat
      OBVIOUS
    <3>1. flows[i][j] \in Nat
      BY DEF SolverTypes
    <3> QED
      BY <1>3, <1>6, <3>1 DEF OwnPacket, Forwarded
  <2> QED
    BY <2>1, <2>2
<1>8. \A i, j \in Nodes :
        /\ flows'[i][j] >= flows[i][j]
        /\ flows'[i][j] > 0 => flows[i][j] > 0 \/ (i \in layer /\ j = par)
        /\ i \in layer /\ j = par => flows'[i][j] > 0
  <2> SUFFICES ASSUME NEW i \in Nodes, NEW j \in Nodes
               PROVE  /\ flows'[i][j] >= flows[i][j]
                      /\ flows'[i][j] > 0 => flows[i][j] > 0 \/ (i \in layer /\ j = par)
                      /\ i \in layer /\ j = par => flows'[i][j] > 0
    OBVIOUS
  <2>1. flows[i][j] \in Nat
    BY DEF SolverTypes
  <2> DEFINE own == OwnPacket(layer, par, i, j)
             forwarded == Forwarded(layer, par, i, j)
  <2>2. own \in Nat /\ (own > 0 <=> i \in layer /\ j = par)
    BY DEF OwnPacket
  <2>3. forwarded \in Nat /\ (forwarded > 0 => flows[i][j] > 0)
    BY <1>3, <1>4 DEF Forwarded
  <2>4. flows'[i][j] = flows[i][j] + own + forwarded
    BY <1>6
  <2> HIDE DEF own, forwarded
  <2> QED
    BY <2>1, <2>2, <2>3, <2>4
<1>9. \A n \in Nodes : Sends(n)' <=> Sends(n) \/ n \in layer
  <2>1. \A i, j \in Nodes : flows[i][j] \in Nat /\ flows'[i][j] \in Nat
    BY <1>7 DEF SolverTypes
  <2>2. ASSUME NEW n \in Nodes, Sends(n) PROVE Sends(n)'
    <3>1. PICK j \in Nodes : flows[n][j] > 0
      BY <2>2 DEF Sends
    <3>2. flows'[n][j] > 0
      BY <1>8, <2>1, <3>1
    <3> QED
      BY <3>2 DEF Sends
  <2>3. ASSUME NEW n \in Nodes, n \in layer PROVE Sends(n)'
    <3>1. flows'[n][par] > 0
      BY <1>1, <1>8, <2>3
    <3> QED
      BY <1>1, <3>1 DEF Sends
  <2>4. ASSUME NEW n \in Nodes, Sends(n)' PROVE Sends(n) \/ n \in layer
    <3>1. PICK j \in Nodes : flows'[n][j] > 0
      BY <2>4 DEF Sends
    <3>2. flows[n][j] > 0 \/ n \in layer
      BY <1>8, <3>1
    <3> QED
      BY <3>2 DEF Sends
  <2> QED
    BY <2>2, <2>3, <2>4
<1> QED
  BY <1>7, <1>8, <1>9

LEMMA SolverStep ==
  ASSUME SolverTypes, SolverTree, Solver!BreadthFirstMinHopFlowSolver
  PROVE  SolverTypes' /\ SolverTree'
<1> DEFINE par == Head(pending)
           layer == Solver!NewNeighbours(par)
<1>0. par = Head(pending) /\ layer = Solver!NewNeighbours(par)
  OBVIOUS
<1> HIDE DEF par, layer
<1>1. /\ par \in Nodes /\ (par = 0 \/ Sends(par))
      /\ Tail(pending) \in Seq(Nodes)
      /\ \A k \in DOMAIN Tail(pending) : Tail(pending)[k] = 0 \/ Sends(Tail(pending)[k])
  BY <1>0, CallNodes, CallPending
<1>2. /\ layer \subseteq Nodes /\ 0 \notin layer /\ par \notin layer
      /\ \A n \in layer : ~Sends(n) /\ hopCount[n] > hopCount[par] + 1
  BY <1>0, CallNodes
<1>5. /\ hopCount' = [n \in Nodes |-> IF n \in layer THEN hopCount[par] + 1 ELSE hopCount[n]]
      /\ pending' = Solver!Ascending(layer) \o Tail(pending)
  BY <1>0, SolverNodes DEF Solver!BreadthFirstMinHopFlowSolver
<1>7. flows' \in [Nodes -> [Nodes -> Nat]]
  BY <1>0, CallFlows
<1>8. \A i, j \in Nodes :
        flows'[i][j] > 0 => flows[i][j] > 0 \/ (i \in layer /\ j = par)
  BY <1>0, CallFlows
<1>9. \A n \in Nodes : Sends(n)' <=> Sends(n) \/ n \in layer
  BY <1>0, CallFlows
<1> HIDE DEF par, layer
<1>10. SolverTypes'
  <2>1. pending' \in Seq(Nodes)
    <3>1. Solver!Ascending(layer) \in Seq(layer)
      BY <1>2, SolverAscending
    <3>2. Solver!Ascending(layer) \in Seq(Nodes)
      BY <1>2, <3>1
    <3> QED
      BY <1>1, <1>5, <3>2
  <2>2. hopCount' \in [Nodes -> 0 .. NumNodes]
    <3>1. \A n \in Nodes : hopCount[n] \in 0 .. NumNodes
      BY DEF SolverTypes
    <3> QED
      BY <1>1, <1>2, <1>5, <3>1, SchedulerAssumption
  <2> QED
    BY <1>7, <2>1, <2>2 DEF SolverTypes
<1>11. SolverTree'
  <2>1. hopCount'[0] = 0
    BY <1>2, <1>5, NodesFinite DEF SolverTree
  <2>2. \A j \in Nodes : flows'[0][j] = 0
    <3> SUFFICES ASSUME NEW j \in Nodes PROVE flows'[0][j] = 0
      OBVIOUS
    <3>1. flows'[0][j] \in Nat /\ flows[0][j] = 0
      BY <1>7, NodesFinite DEF SolverTree
    <3> QED
      BY <1>2, <1>8, <3>1, NodesFinite
  <2>3. ASSUME NEW i \in Nodes, NEW j \in Nodes, flows'[i][j] > 0
        PROVE  hopCount'[i] = hopCount'[j] + 1 /\ (j = 0 \/ Sends(j)')
    <3>1. CASE flows[i][j] > 0
      <4>1. hopCount[i] = hopCount[j] + 1 /\ (j = 0 \/ Sends(j))
        BY <3>1 DEF SolverTree
      <4>2. i \notin layer /\ j \notin layer
        BY <1>2, <3>1, <4>1 DEF Sends
      <4> QED
        BY <1>5, <1>9, <4>1, <4>2
    <3>2. CASE i \in layer /\ j = par
      BY <1>1, <1>2, <1>5, <1>9, <3>2
    <3> QED
      BY <1>8, <2>3, <3>1, <3>2
  <2>4. ASSUME NEW k \in DOMAIN pending'
        PROVE  pending'[k] = 0 \/ Sends(pending[k])'
    <3> DEFINE asc == Solver!Ascending(layer)
    <3>1. asc \in Seq(layer)
      BY <1>2, SolverAscending
    <3>2. \/ k \in DOMAIN asc /\ pending'[k] = asc[k]
          \/ k - Len(asc) \in DOMAIN Tail(pending)
             /\ pending'[k] = Tail(pending)[k - Len(asc)]
      <4> HIDE DEF asc
      <4>1. asc \in Seq(Nodes)
        BY <1>2, <3>1
      <4> QED
        BY <1>1, <1>5, <2>4, <4>1 DEF asc
    <3>3. \A m \in DOMAIN asc : asc[m] \in layer
      <4> HIDE DEF asc
      <4> QED
        BY <3>1
    <3>4. \A m \in DOMAIN Tail(pending) : Tail(pending)[m] \in Nodes
      BY <1>1
    <3> HIDE DEF asc
    <3> QED
      BY <1>1, <1>2, <1>9, <3>2, <3>3, <3>4
  <2> QED
    BY <2>1, <2>2, <2>3, <2>4 DEF SolverTree
<1> QED
  BY <1>10, <1>11

\* The solver's sums are those of the scheduler.
LEMMA SolverSum ==
  ASSUME NEW f
  PROVE  Solver!SumFunction(f) = SumFunction(f)
BY DEF Solver!SumFunction, Solver!SumFunctionOnSet, Solver!FoldFunctionOnSet,
       Solver!MapThenFoldSet, SumFunction, SumFunctionOnSet, FoldFunctionOnSet, MapThenFoldSet

\* The nodes that have a way to the sink.
Processed == {n \in Nodes : n = 0 \/ Sends(n)}

Into(n) == [i \in Nodes |-> flows[i][n]]

Conserved(n) == SumFunction(flows[n]) = 1 + SumFunction(Into(n))

OneParent(n) ==
  \E p \in Nodes : /\ \A j \in Nodes \ {p} : flows[n][j] = 0
                   /\ <<p, n>> \in inReach /\ hopCount[n] = hopCount[p] + 1

\* Flow is conserved, no way is longer than there are nodes with one, and a node
\* without one is out of reach of all those whose call has been made.
SolverFlows ==
  /\ \A n \in Nodes \ {0} : Sends(n) => Conserved(n) /\ OneParent(n)
  /\ \A n \in Nodes \ Processed : hopCount[n] = NumNodes
  /\ \A n \in Processed : hopCount[n] < Cardinality(Processed)
  /\ \A p \in Processed : \A n \in Nodes \ Processed :
       <<p, n>> \in inReach => p \in Range(pending)

LEMMA NodeSums ==
  ASSUME NEW f \in [Nodes -> Nat]
  PROVE  /\ SumFunction(f) \in Nat
         /\ (\A x \in Nodes : f[x] = 0) => SumFunction(f) = 0
         /\ \A a \in Nodes, v \in Nat :
              SumFunction([f EXCEPT ![a] = f[a] + v]) = SumFunction(f) + v
         /\ \A L \in SUBSET Nodes :
              SumFunction([x \in Nodes |-> f[x] + IF x \in L THEN 1 ELSE 0])
                = SumFunction(f) + Cardinality(L)
<1>1. IsFiniteSet(Nodes)
  BY NodesFinite
<1>2. /\ SumFunction(f) \in Nat
      /\ SumFunction(f) > 0 <=> \E a \in Nodes : f[a] > 0
  BY <1>1, SumPositive
<1>3. (\A x \in Nodes : f[x] = 0) => SumFunction(f) = 0
  <2>1. (\A x \in Nodes : f[x] = 0) => ~(\E a \in Nodes : f[a] > 0)
    OBVIOUS
  <2> QED
    BY <1>2, <2>1
<1>4. ASSUME NEW a \in Nodes, NEW v \in Nat
      PROVE  SumFunction([f EXCEPT ![a] = f[a] + v]) = SumFunction(f) + v
  <2> DEFINE w == f[a] + v
  <2>1. w \in Nat /\ f[a] \in Nat
    OBVIOUS
  <2> HIDE DEF w
  <2>2. SumFunction([f EXCEPT ![a] = w]) = SumFunction(f) - f[a] + w
    BY <1>1, <2>1, SumExcept
  <2>3. w = f[a] + v
    BY DEF w
  <2> DEFINE total == SumFunction([f EXCEPT ![a] = w])
             before == SumFunction(f)
  <2>4. total = before - f[a] + w /\ before \in Nat
    BY <1>2, <2>2
  <2> HIDE DEF total, before
  <2>5. total = before + v
    BY <2>1, <2>3, <2>4
  <2> QED
    BY <2>3, <2>5 DEF total, before
<1>5. ASSUME NEW L \in SUBSET Nodes
      PROVE  SumFunction([x \in Nodes |-> f[x] + IF x \in L THEN 1 ELSE 0])
               = SumFunction(f) + Cardinality(L)
  BY <1>1, SumPlusOnes
<1> QED
  BY <1>2, <1>3, <1>4, <1>5

\* A call adds as much to what a node sends as to what it receives.
LEMMA CallConserves ==
  ASSUME SolverTypes, SolverTree, SolverFlows, Solver!BreadthFirstMinHopFlowSolver,
         NEW n \in Nodes \ {0}, Sends(n)'
  PROVE  Conserved(n)'
<1> DEFINE par == Head(pending)
           layer == Solver!NewNeighbours(par)
<1>0. par = Head(pending) /\ layer = Solver!NewNeighbours(par)
  OBVIOUS
<1> HIDE DEF par, layer
<1>10. /\ par \in Nodes /\ (par = 0 \/ Sends(par))
       /\ layer \subseteq Nodes /\ 0 \notin layer /\ par \notin layer
       /\ \A i \in layer : ~Sends(i) /\ hopCount[i] > hopCount[par] + 1
  BY <1>0, CallNodes
<1>11. \A i \in Solver!Upstream(par) :
         /\ i \in Nodes /\ i # 0 /\ Sends(i)
         /\ flows[i][Solver!FindFirstParent(i)] > 0
  BY <1>0, CallNodes, UpstreamSends, FirstParent DEF SolverTypes
<1>12. /\ flows' \in [Nodes -> [Nodes -> Nat]]
       /\ \A i \in Nodes : Sends(i)' <=> Sends(i) \/ i \in layer
  BY <1>0, CallFlows
<1>13. \A i, j \in Nodes :
         flows'[i][j] = flows[i][j] + OwnPacket(layer, par, i, j) + Forwarded(layer, par, i, j)
  <2> SUFFICES ASSUME NEW i \in Nodes, NEW j \in Nodes
               PROVE  flows'[i][j] = flows[i][j] + OwnPacket(layer, par, i, j)
                                                 + Forwarded(layer, par, i, j)
    OBVIOUS
  <2> QED
    BY <1>0, SolverAdds
<1> DEFINE U == Solver!Upstream(par)
           m == Cardinality(layer)
<1>1. /\ par \in Nodes /\ (par = 0 \/ Sends(par))
      /\ layer \subseteq Nodes /\ par \notin layer /\ \A i \in layer : ~Sends(i)
      /\ \A i \in U : /\ i \in Nodes /\ i # 0 /\ Sends(i)
                      /\ flows[i][Solver!FindFirstParent(i)] > 0
      /\ flows' \in [Nodes -> [Nodes -> Nat]]
      /\ \A i \in Nodes : Sends(i)' <=> Sends(i) \/ i \in layer
  BY <1>10, <1>11, <1>12
<1>2. \A i, j \in Nodes :
        flows'[i][j] = flows[i][j] + (IF i \in layer /\ j = par THEN 1 ELSE 0)
                                   + (IF i \in U /\ j = Solver!FindFirstParent(i) THEN m ELSE 0)
  BY <1>13 DEF OwnPacket, Forwarded
<1>3. /\ par # 0 => par \in U
      /\ \A i \in U : /\ Solver!FindFirstParent(i) \in U \cup {0}
                      /\ Solver!FindFirstParent(i) # par
      /\ \A i \in U : i # par => \E k \in U : Solver!FindFirstParent(k) = i
      /\ \A i, k \in U : Solver!FindFirstParent(i) = Solver!FindFirstParent(k) => i = k
  BY <1>1, UpstreamIsPath
<1> HIDE DEF U
<1>4. /\ flows \in [Nodes -> [Nodes -> Nat]]
      /\ flows[n] \in [Nodes -> Nat] /\ flows'[n] \in [Nodes -> Nat]
      /\ Into(n) \in [Nodes -> Nat] /\ Into(n)' \in [Nodes -> Nat]
      /\ \A i \in Nodes : Into(n)[i] = flows[i][n] /\ Into(n)'[i] = flows'[i][n]
  BY <1>1 DEF SolverTypes, Into
<1>5. m \in Nat /\ IsFiniteSet(layer)
  BY <1>1, NodesFinite, FS_Subset, FS_CardinalityType
<1> HIDE DEF m
<1>6. SumFunction(flows[n]) \in Nat /\ SumFunction(Into(n)) \in Nat
  <2> DEFINE f == flows[n]
             g == Into(n)
  <2>1. f \in [Nodes -> Nat] /\ g \in [Nodes -> Nat]
    BY <1>4
  <2> HIDE DEF f, g
  <2>2. SumFunction(f) \in Nat /\ SumFunction(g) \in Nat
    BY <2>1, NodeSums
  <2> QED
    BY <2>2 DEF f, g
<1>7. CASE n \in layer
  <2>1. ~Sends(n) /\ n # par /\ n # 0 /\ n \notin U
    BY <1>1, <1>7
  <2>2. \A j \in Nodes : flows[n][j] = 0
    <3>1. \A j \in Nodes : ~(flows[n][j] > 0) /\ flows[n][j] \in Nat
      BY <1>4, <2>1 DEF Sends
    <3> QED
      BY <3>1
  <2>3. SumFunction(flows'[n]) = 1
    <3> DEFINE f == flows'[n]
               zero == flows[n]
    <3>1. zero \in [Nodes -> Nat] /\ \A j \in Nodes : zero[j] = 0
      BY <1>4, <2>2
    <3>2. f = [j \in Nodes |-> zero[j] + IF j \in {par} THEN 1 ELSE 0]
      <4>1. \A j \in Nodes : f[j] = zero[j] + IF j \in {par} THEN 1 ELSE 0
        BY <1>2, <1>4, <1>7, <2>1
      <4>2. f \in [Nodes -> Nat]
        BY <1>4
      <4> HIDE DEF f, zero
      <4> QED
        BY <4>1, <4>2
    <3> HIDE DEF f, zero
    <3>3. SumFunction(zero) = 0
      BY <3>1, NodeSums
    <3>4. Cardinality({par}) = 1
      BY FS_Singleton
    <3>5. SumFunction(f) = SumFunction(zero) + Cardinality({par})
      <4>1. {par} \in SUBSET Nodes
        BY <1>1
      <4> QED
        BY <3>1, <3>2, <4>1, NodeSums
    <3>6. SumFunction(f) = 1
      BY <3>3, <3>4, <3>5
    <3> QED
      BY <3>6 DEF f
  <2>4. SumFunction(Into(n)') = 0
    <3> DEFINE f == Into(n)'
    <3>1. \A i \in Nodes : f[i] = 0
      <4> SUFFICES ASSUME NEW i \in Nodes PROVE flows'[i][n] = 0
        BY <1>4
      <4>1. flows[i][n] = 0
        <5>1. ~(flows[i][n] > 0)
          BY <2>1 DEF SolverTree
        <5>2. flows[i][n] \in Nat
          BY <1>4
        <5> QED
          BY <5>1, <5>2
      <4>2. i \in U => n # Solver!FindFirstParent(i)
        BY <1>1, <4>1
      <4> QED
        BY <1>2, <2>1, <4>1, <4>2
    <3>2. f \in [Nodes -> Nat]
      BY <1>4
    <3> HIDE DEF f
    <3>3. SumFunction(f) = 0
      BY <3>1, <3>2, NodeSums
    <3> QED
      BY <3>3 DEF f
  <2> QED
    BY <2>3, <2>4 DEF Conserved
<1>8. CASE n \in U
  <2>1. n \notin layer /\ Sends(n)
    BY <1>1, <1>8
  <2>2. SumFunction(flows'[n]) = SumFunction(flows[n]) + m
    <3> DEFINE f == flows[n]
               g == flows'[n]
               p == Solver!FindFirstParent(n)
    <3>1. f \in [Nodes -> Nat] /\ g \in [Nodes -> Nat] /\ p \in Nodes
      BY <1>4, <2>1, FirstParent
    <3>2. \A j \in Nodes : g[j] = f[j] + (IF j = p THEN m ELSE 0)
      <4> SUFFICES ASSUME NEW j \in Nodes PROVE g[j] = f[j] + (IF j = p THEN m ELSE 0)
        OBVIOUS
      <4>1. f[j] \in Nat
        BY <3>1
      <4> QED
        BY <1>2, <1>5, <1>8, <2>1, <4>1
    <3> HIDE DEF f, g, p
    <3>3. g = [f EXCEPT ![p] = f[p] + m]
      BY <1>5, <3>1, <3>2
    <3>4. SumFunction([f EXCEPT ![p] = f[p] + m]) = SumFunction(f) + m
      BY <1>5, <3>1, NodeSums
    <3>6. SumFunction(g) = SumFunction(f) + m
      BY <3>3, <3>4
    <3> QED
      BY <3>6 DEF f, g
  <2>3. SumFunction(Into(n)') = SumFunction(Into(n)) + m
    <3> DEFINE f == Into(n)
               g == Into(n)'
    <3>1. f \in [Nodes -> Nat] /\ g \in [Nodes -> Nat]
          /\ \A i \in Nodes : f[i] = flows[i][n] /\ g[i] = flows'[i][n]
      BY <1>4
    <3>2. CASE n = par
      <4>1. \A i \in Nodes : g[i] = f[i] + IF i \in layer THEN 1 ELSE 0
        <5> SUFFICES ASSUME NEW i \in Nodes PROVE g[i] = f[i] + IF i \in layer THEN 1 ELSE 0
          OBVIOUS
        <5>1. i \in U => n # Solver!FindFirstParent(i)
          BY <1>3, <3>2
        <5>2. f[i] \in Nat
          BY <3>1
        <5>3. g[i] = f[i] + (IF i \in layer THEN 1 ELSE 0) + 0
          BY <1>2, <3>1, <3>2, <5>1
        <5> HIDE DEF f, g
        <5> QED
          BY <5>2, <5>3
      <4> HIDE DEF f, g
      <4>2. g = [i \in Nodes |-> f[i] + IF i \in layer THEN 1 ELSE 0]
        BY <3>1, <4>1
      <4>3. SumFunction(g) = SumFunction(f) + Cardinality(layer)
        BY <1>1, <3>1, <4>2, NodeSums
      <4> QED
        BY <4>3 DEF f, g, m
    <3>3. CASE n # par
      <4>1. PICK k \in U : Solver!FindFirstParent(k) = n
        BY <1>3, <1>8, <3>3
      <4>2. \A i \in Nodes : g[i] = f[i] + (IF i = k THEN m ELSE 0)
        <5> SUFFICES ASSUME NEW i \in Nodes PROVE g[i] = f[i] + (IF i = k THEN m ELSE 0)
          OBVIOUS
        <5>1. i \in U /\ n = Solver!FindFirstParent(i) <=> i = k
          BY <1>3, <4>1
        <5>2. f[i] \in Nat
          BY <3>1
        <5>3. g[i] = f[i] + 0 + (IF i = k THEN m ELSE 0)
          BY <1>2, <3>1, <3>3, <5>1
        <5> HIDE DEF f, g
        <5> QED
          BY <1>5, <5>2, <5>3
      <4>3. k \in Nodes
        BY <1>1, <4>1
      <4> HIDE DEF f, g
      <4>4. g = [f EXCEPT ![k] = f[k] + m]
        BY <1>5, <3>1, <4>2, <4>3
      <4>5. SumFunction([f EXCEPT ![k] = f[k] + m]) = SumFunction(f) + m
        BY <1>5, <3>1, <4>3, NodeSums
      <4>8. SumFunction(g) = SumFunction(f) + m
        BY <4>4, <4>5
      <4> QED
        BY <4>8 DEF f, g
    <3> QED
      BY <3>2, <3>3
  <2>4. SumFunction(flows[n]) = 1 + SumFunction(Into(n))
    BY <2>1 DEF SolverFlows, Conserved
  <2> QED
    BY <1>5, <1>6, <2>2, <2>3, <2>4 DEF Conserved
<1>9. CASE n \notin layer /\ n \notin U
  <2>1. Sends(n) /\ n # par /\ n # 0
    BY <1>1, <1>3, <1>9
  <2>2. flows'[n] = flows[n]
    <3>1. \A j \in Nodes : flows[n][j] \in Nat /\ flows'[n][j] = flows[n][j] + 0 + 0
      BY <1>2, <1>4, <1>9
    <3>2. \A j \in Nodes : flows'[n][j] = flows[n][j]
      BY <3>1
    <3> QED
      BY <1>4, <3>2
  <2>3. Into(n)' = Into(n)
    <3>1. \A i \in U : Solver!FindFirstParent(i) # n
      BY <1>3, <1>9, <2>1
    <3>2. \A i \in Nodes : Into(n)[i] \in Nat /\ Into(n)'[i] = Into(n)[i] + 0 + 0
      BY <1>2, <1>4, <2>1, <3>1
    <3>3. \A i \in Nodes : Into(n)'[i] = Into(n)[i]
      BY <3>2
    <3> QED
      BY <1>4, <3>3
  <2> QED
    BY <2>1, <2>2, <2>3 DEF SolverFlows, Conserved
<1> QED
  BY <1>7, <1>8, <1>9

\* A call gives every node it reaches a parent and leaves none within reach behind.
LEMMA SolverFlowsStep ==
  ASSUME SolverTypes, SolverTree, SolverFlows, Solver!BreadthFirstMinHopFlowSolver
  PROVE  SolverFlows'
<1> DEFINE par == Head(pending)
           layer == Solver!NewNeighbours(par)
<1>0. par = Head(pending) /\ layer = Solver!NewNeighbours(par) /\ pending # <<>>
  BY DEF Solver!BreadthFirstMinHopFlowSolver
<1>1. \A n \in Nodes : n \in layer <=> /\ <<par, n>> \in inReach
                                       /\ hopCount[n] > hopCount[par] + 1
                                       /\ \A j \in Nodes : flows[n][j] = 0
  BY SolverNodes DEF Solver!NewNeighbours, Solver!HasNotBeenProcessed
<1> HIDE DEF par, layer
<1>2. inReach' = inReach /\ SolverTypes' /\ SolverTree'
  BY SolverStep DEF Solver!BreadthFirstMinHopFlowSolver
<1>3. /\ par \in Nodes /\ (par = 0 \/ Sends(par))
      /\ layer \subseteq Nodes /\ 0 \notin layer /\ par \notin layer
      /\ \A n \in layer : ~Sends(n) /\ hopCount[n] > hopCount[par] + 1
  BY <1>0, CallNodes
<1>4. \A i, j \in Nodes : flows'[i][j] > 0 => flows[i][j] > 0 \/ (i \in layer /\ j = par)
  BY <1>0, CallFlows
<1>5. \A n \in Nodes : Sends(n)' <=> Sends(n) \/ n \in layer
  BY <1>0, CallFlows
<1>6. \A n \in Nodes : hopCount'[n] = IF n \in layer THEN hopCount[par] + 1 ELSE hopCount[n]
  BY <1>0, CallPending
<1>7. \A i, j \in Nodes : flows[i][j] \in Nat /\ flows'[i][j] \in Nat /\ hopCount[i] \in Nat
  BY <1>2, SchedulerAssumption DEF SolverTypes
<1>8. ASSUME NEW n \in Nodes \ {0}, Sends(n)' PROVE OneParent(n)'
  <2>1. CASE n \in layer
    <3>1. \A j \in Nodes \ {par} : flows'[n][j] = 0
      <4> SUFFICES ASSUME NEW j \in Nodes \ {par} PROVE flows'[n][j] = 0
        OBVIOUS
      <4>1. flows[n][j] = 0
        BY <1>1, <2>1
      <4>2. ~(flows'[n][j] > 0)
        BY <1>4, <4>1
      <4> QED
        BY <1>7, <4>2
    <3>2. <<par, n>> \in inReach' /\ hopCount'[n] = hopCount'[par] + 1
      BY <1>1, <1>2, <1>3, <1>6, <2>1
    <3> QED
      BY <1>3, <3>1, <3>2 DEF OneParent
  <2>2. CASE n \notin layer
    <3>1. Sends(n)
      BY <1>5, <1>8, <2>2
    <3>2. PICK p \in Nodes : /\ \A j \in Nodes \ {p} : flows[n][j] = 0
                             /\ <<p, n>> \in inReach /\ hopCount[n] = hopCount[p] + 1
      BY <3>1 DEF SolverFlows, OneParent
    <3>3. flows[n][p] > 0
      BY <3>1, <3>2 DEF Sends
    <3>4. p \notin layer
      BY <1>3, <3>3 DEF SolverTree
    <3>5. \A j \in Nodes \ {p} : flows'[n][j] = 0
      <4> SUFFICES ASSUME NEW j \in Nodes \ {p} PROVE flows'[n][j] = 0
        OBVIOUS
      <4>1. ~(flows'[n][j] > 0)
        BY <1>4, <2>2, <3>2
      <4> QED
        BY <1>7, <4>1
    <3>6. <<p, n>> \in inReach' /\ hopCount'[n] = hopCount'[p] + 1
      BY <1>2, <1>6, <2>2, <3>2, <3>4
    <3> QED
      BY <3>5, <3>6 DEF OneParent
  <2> QED
    BY <2>1, <2>2
<1>9. /\ Processed' = Processed \cup layer /\ Processed \cap layer = {}
      /\ IsFiniteSet(Processed) /\ IsFiniteSet(Processed') /\ Processed' \subseteq Nodes
  <2>1. Processed' = Processed \cup layer /\ Processed \cap layer = {}
    BY <1>3, <1>5 DEF Processed
  <2>2. Processed \subseteq Nodes /\ Processed \cup layer \subseteq Nodes
    BY <1>3 DEF Processed
  <2>3. IsFiniteSet(Processed) /\ IsFiniteSet(Processed \cup layer)
    BY <2>2, NodesFinite, FS_Subset
  <2> QED
    BY <2>1, <2>2, <2>3
<1>10. /\ Cardinality(Processed) \in Nat /\ Cardinality(Processed') \in Nat
       /\ Cardinality(Processed) <= Cardinality(Processed')
       /\ layer # {} => Cardinality(Processed) < Cardinality(Processed')
  <2> DEFINE P == Processed
             Q == Processed'
  <2>1. IsFiniteSet(P) /\ IsFiniteSet(Q) /\ P \subseteq Q /\ (layer # {} => P # Q)
    BY <1>9
  <2> HIDE DEF P, Q
  <2>2. /\ Cardinality(P) \in Nat /\ Cardinality(Q) \in Nat /\ Cardinality(P) <= Cardinality(Q)
        /\ P # Q => Cardinality(P) < Cardinality(Q)
    BY <2>1, FS_CardinalityType, FS_Subset
  <2> QED
    BY <2>1, <2>2 DEF P, Q
<1>11. ASSUME NEW n \in Nodes \ Processed' PROVE hopCount'[n] = NumNodes
  BY <1>6, <1>9, <1>11 DEF SolverFlows
<1>12. par \in Processed /\ hopCount[par] < Cardinality(Processed)
  BY <1>3 DEF SolverFlows, Processed
<1>13. ASSUME NEW n \in Processed' PROVE hopCount'[n] < Cardinality(Processed')
  <2>1. n \in Nodes
    BY <1>9
  <2>2. CASE n \in layer
    <3>1. hopCount'[n] = hopCount[par] + 1 /\ Cardinality(Processed) < Cardinality(Processed')
      BY <1>6, <1>10, <2>1, <2>2
    <3> QED
      BY <1>3, <1>7, <1>10, <1>12, <3>1
  <2>3. CASE n \notin layer
    <3>1. hopCount'[n] = hopCount[n] /\ hopCount[n] < Cardinality(Processed)
      BY <1>6, <1>9, <2>1, <2>3 DEF SolverFlows
    <3> QED
      BY <1>7, <1>10, <2>1, <3>1
  <2> QED
    BY <2>2, <2>3
<1>14. ASSUME NEW p \in Processed', NEW n \in Nodes \ Processed', <<p, n>> \in inReach'
       PROVE  p \in Range(pending)'
  <2> DEFINE asc == Solver!Ascending(layer)
             rest == Tail(pending)
  <2>1. asc \in Seq(Nodes) /\ \A x \in layer : \E k \in DOMAIN asc : asc[k] = x
    BY <1>3, SolverAscending
  <2>2. pending' = asc \o rest
    BY <1>0, CallPending
  <2>3. pending \in Seq(Nodes) /\ rest \in Seq(Nodes) /\ Range(pending) = Range(rest) \cup {par}
    <3>1. pending \in Seq(Nodes)
      BY DEF SolverTypes
    <3> QED
      BY <1>0, <3>1, HeadAndTail
  <2> HIDE DEF asc, rest
  <2>4. /\ \A k \in DOMAIN asc : k \in DOMAIN pending' /\ pending'[k] = asc[k]
        /\ \A k \in DOMAIN rest : k + Len(asc) \in DOMAIN pending' /\ pending'[k + Len(asc)] = rest[k]
    <3>1. /\ DOMAIN (asc \o rest) = 1 .. Len(asc) + Len(rest)
          /\ \A a \in 1 .. Len(asc) : (asc \o rest)[a] = asc[a]
          /\ \A a \in DOMAIN rest :
               a + Len(asc) \in DOMAIN (asc \o rest) /\ (asc \o rest)[a + Len(asc)] = rest[a]
      BY <2>1, <2>3, Joined
    <3>2. DOMAIN asc = 1 .. Len(asc) /\ Len(asc) \in Nat /\ Len(rest) \in Nat
      BY <2>1, <2>3
    <3>3. \A k \in DOMAIN asc : k \in 1 .. Len(asc) + Len(rest)
      BY <3>2
    <3> QED
      BY <2>2, <3>1, <3>2, <3>3
  <2>5. CASE p \in layer
    BY <2>1, <2>4, <2>5 DEF Range
  <2>6. CASE p \notin layer
    <3>1. p \in Processed /\ n \in Nodes \ Processed /\ n \notin layer /\ <<p, n>> \in inReach
      BY <1>2, <1>9, <1>14, <2>6
    <3>2. p \in Range(pending)
      BY <3>1 DEF SolverFlows
    <3>3. p # par
      <4> SUFFICES ASSUME p = par PROVE FALSE
        OBVIOUS
      <4>1. hopCount[n] = NumNodes /\ Cardinality(Processed) < NumNodes
        <5>1. hopCount[n] = NumNodes
          BY <3>1 DEF SolverFlows
        <5> DEFINE P == Processed
                   Q == Nodes
        <5>2. IsFiniteSet(Q) /\ P \subseteq Q /\ P # Q
          BY <3>1, NodesFinite DEF Processed
        <5> HIDE DEF P, Q
        <5>3. Cardinality(P) < Cardinality(Q)
          BY <5>2, FS_CardinalityType, FS_Subset
        <5> QED
          BY <5>1, <5>3, NodesFinite DEF P, Q
      <4>2. hopCount[n] > hopCount[par] + 1
        BY <1>3, <1>7, <1>10, <1>12, <4>1, SchedulerAssumption
      <4>3. \A j \in Nodes : flows[n][j] = 0
        <5>1. \A j \in Nodes : ~(flows[n][j] > 0)
          BY <3>1 DEF Processed, Sends
        <5> QED
          BY <1>7, <3>1, <5>1
      <4> QED
        BY <1>1, <3>1, <4>2, <4>3
    <3>4. PICK k \in DOMAIN rest : rest[k] = p
      BY <2>3, <3>2, <3>3 DEF Range
    <3> QED
      BY <2>4, <3>4 DEF Range
  <2> QED
    BY <2>5, <2>6
<1>15. \A n \in Nodes \ {0} : Sends(n)' => Conserved(n)' /\ OneParent(n)'
  BY <1>8, CallConserves
<1> QED
  BY <1>11, <1>13, <1>14, <1>15 DEF SolverFlows

\* What the optimizer promises of its flows.
LEMMA FlowsMakeTree ==
  ASSUME SolverTypes, SolverFlows
  PROVE  Solver!FlowsFormTree /\ Solver!ReachableNodesSend
<1>1. \A n \in Nodes : Sends(n) <=> ~Solver!HasNotBeenProcessed(n)
  <2>1. \A n, j \in Nodes : flows[n][j] > 0 <=> flows[n][j] # 0
    BY DEF SolverTypes
  <2> QED
    BY <2>1, SolverNodes DEF Sends, Solver!HasNotBeenProcessed
<1>2. Solver!FlowsFormTree
  <2> SUFFICES ASSUME NEW n \in Nodes \ {0}, Sends(n)
               PROVE  /\ Solver!SumFunction(flows[n])
                           = 1 + Solver!SumFunction([i \in Nodes |-> flows[i][n]])
                      /\ OneParent(n)
    BY <1>1, SolverNodes DEF Solver!FlowsFormTree, OneParent
  <2> QED
    BY SolverSum DEF SolverFlows, Conserved, Into
<1>3. ASSUME pending = <<>>, NEW n \in Solver!WithinHops[NumNodes] \ {0}
      PROVE  ~Solver!HasNotBeenProcessed(n)
  <2> DEFINE wider == [nearer \in SUBSET Nodes |->
                         nearer \cup {m \in Nodes : \E p \in nearer : <<p, m>> \in inReach}]
             within == Iterated(wider, {0}, NumNodes)
             Bad == {k \in 0 .. NumNodes : ~(within[k] \subseteq Processed)}
  <2>1. NumNodes \in Nat /\ 0 \in Nodes /\ 0 \in Processed /\ Processed \subseteq Nodes
    BY SchedulerAssumption, NodesFinite DEF Processed
  <2>2. Solver!WithinHops = within
    BY SolverNodes DEF Solver!WithinHops, Solver!Iterated, Iterated
  <2>3. \A S \in SUBSET Processed : wider[S] \subseteq Processed
    <3> SUFFICES ASSUME NEW S \in SUBSET Processed, NEW p \in S, NEW m \in Nodes \ Processed,
                        <<p, m>> \in inReach
                 PROVE  FALSE
      BY <2>1
    <3>1. p \in Range(pending)
      BY DEF SolverFlows
    <3> QED
      BY <1>3, <3>1 DEF Range
  <2> HIDE DEF wider
  <2> DEFINE first == {0}
  <2> HIDE DEF first
  <2>9. within = Iterated(wider, first, NumNodes)
    BY DEF first
  <2> HIDE DEF within
  <2>4. within = [k \in 0 .. NumNodes |-> IF k = 0 THEN first ELSE wider[within[k - 1]]]
    BY <2>1, <2>9, IteratedDef
  <2>5. \A k \in 0 .. NumNodes : within[k] = IF k = 0 THEN {0} ELSE wider[within[k - 1]]
    BY <2>4 DEF first
  <2>6. Bad = {}
    <3> SUFFICES ASSUME Bad # {} PROVE FALSE
      OBVIOUS
    <3>1. Bad \in SUBSET Nat
      OBVIOUS
    <3>2. PICK k \in Bad : \A y \in Bad : k <= y
      <4> HIDE DEF Bad
      <4> QED
        BY <3>1, LeastNatural
    <3>3. k \in 0 .. NumNodes /\ ~(within[k] \subseteq Processed)
      OBVIOUS
    <3>4. k # 0
      BY <2>1, <2>5, <3>3
    <3>5. k - 1 \in 0 .. NumNodes /\ ~(k <= k - 1)
      BY ONLY <2>1, <3>3, <3>4
    <3>6. within[k - 1] \subseteq Processed
      BY <3>2, <3>5
    <3> QED
      BY <2>3, <2>5, <3>3, <3>4, <3>6
  <2>7. within[NumNodes] \subseteq Processed
    BY <2>1, <2>6
  <2>8. n \in Processed /\ n # 0
    BY <1>3, <2>2, <2>7
  <2> QED
    BY <1>1, <2>8 DEF Processed
<1> QED
  BY <1>2, <1>3 DEF Solver!ReachableNodesSend

\* The node with the fewest hops of a set sends to none of them.
LEMMA SolverScheduleable ==
  ASSUME SolverTypes, SolverTree, NEW perSlot \in Nat \ {0}
  PROVE  ScheduleableFlows(Solver!SolveTdma(perSlot))
<1> DEFINE F == Solver!SolveTdma(perSlot)
<1>1. \A i, j \in Nodes : flows[i][j] \in Nat /\ hopCount[i] \in Nat
  BY SchedulerAssumption DEF SolverTypes
<1>2. Acyclic(flows)
  <2> SUFFICES ASSUME NEW S \in SUBSET Nodes, S # {}
               PROVE  \E i \in S : \A j \in S : flows[i][j] = 0
    BY DEF Acyclic
  <2> DEFINE hops == {hopCount[n] : n \in S}
  <2>1. hops \in SUBSET Nat /\ hops # {}
    BY <1>1
  <2>2. PICK h \in hops : \A g \in hops : h <= g
    <3> HIDE DEF hops
    <3> QED
      BY <2>1, LeastNatural
  <2>3. PICK i \in S : hopCount[i] = h
    OBVIOUS
  <2>4. ASSUME NEW j \in S PROVE flows[i][j] = 0
    <3>1. hopCount[i] <= hopCount[j]
      BY <2>2, <2>3
    <3> QED
      BY <1>1, <3>1 DEF SolverTree
  <2> QED
    BY <2>4
<1>3. ScheduleableFlows(flows)
  BY <1>2 DEF ScheduleableFlows, SolverTree, SolverTypes, Sends
<1>4. \A i, j \in Nodes : F[i][j] = (flows[i][j] + perSlot - 1) \div perSlot
  BY SolverNodes DEF Solver!SolveTdma, Solver!Matrix
<1>5. F \in [Nodes -> [Nodes -> Nat]] /\ \A i, j \in Nodes : F[i][j] = 0 <=> flows[i][j] = 0
  <2>1. F = [i \in Nodes |-> [j \in Nodes |-> F[i][j]]]
    BY SolverNodes DEF Solver!SolveTdma, Solver!Matrix
  <2>2. \A i, j \in Nodes : F[i][j] \in Nat /\ (F[i][j] = 0 <=> flows[i][j] = 0)
    <3> HIDE DEF F
    <3> QED
      BY SMTT(60), <1>1, <1>4, CeilDivBounds
  <2> HIDE DEF F
  <2> QED
    BY <2>1, <2>2
<1> HIDE DEF F
<1>6. ScheduleableFlows(F)
  BY <1>3, <1>5, SameLinksScheduleable
<1> QED
  BY <1>6 DEF F

-----------------------------------------------------------------------------
(* The inductive invariant of the scheduler *)

\* The links that still wait for their slots.
Waiting(W) == [i \in Nodes |-> [j \in Nodes |-> IF W[i][j] > 0 THEN W[i][j] ELSE 0]]

\* The slots of the superframe, those given out, and those given to one link.
Slots == 0 .. Len(scheduleSummary) - 1
Used  == nSlot + 1 .. Len(scheduleSummary) - 1
Given(i, j) == {s \in Used : LinkOf(s) = <<i, j>>}

Routed  == {"ROUTING", "SCHEDULE_FOUND"}
UnderWay == {"SCHEDULING"} \cup Routed

SchedulerTypes ==
  /\ SchedulerTypeOK
  /\ DOMAIN routingStrings = Nodes

\* Nothing has been done before the first call, nor after one that fails.
NothingScheduled ==
  /\ stage \notin UnderWay =>
       schedules = [n \in Nodes |-> <<>>] /\ scheduleSummary = <<>>
  /\ stage = "OPTIMIZING" =>
       /\ q = <<>> /\ q0 = <<>> /\ nI = <<>> /\ qInd = 0 /\ parent = 0 /\ nSlot = -1
  /\ stage \notin Routed => routeSlot = 0 /\ routingStrings = [n \in Nodes |-> NoRoute]
  /\ stage # "NO_ROUTE"

\* A link keeps its flow until it is scheduled.
FlowsKept ==
  stage # "OPTIMIZING" =>
    /\ ScheduleableFlows(slotFlows)
    /\ \A i, j \in Nodes : packetFlows[i][j] \in {-1, slotFlows[i][j]}
    /\ \A j \in Nodes : packetFlows[0][j] = 0

\* The slots not given out yet are those that the waiting links need.
SlotsLeft ==
  stage \in UnderWay =>
    /\ nSlot + 1 = TotalSlots(Waiting(packetFlows))
    /\ nSlot < Len(scheduleSummary)
    /\ \A i, j \in Nodes :
         slotFlows[i][j] = Cardinality(Given(i, j)) + Waiting(packetFlows)[i][j]

\* A node that receives has nothing left to transmit earlier.
ReceiversAreDone ==
  /\ \A n \in Nodes : \A a \in DOMAIN schedules[n] :
       /\ schedules[n][a].slot \in Used
       /\ schedules[n][a].type = "RECEIVE" => AllOutlinksScheduled(n)
  /\ nI # <<>> => AllOutlinksScheduled(parent)

\* No link is forgotten: when the links of a node have been scheduled and one into
\* it has not, the node is in a queue, or is the one whose links are being scheduled.
NoLinkForgotten ==
  /\ stage = "SCHEDULING" =>
       /\ 0 \notin Range(q) \cup Range(q0) \cup Range(nI)
       /\ parent = 0 => Range(nI) \subseteq Range(q)
       /\ \A i, j \in Nodes :
            packetFlows[i][j] > 0 /\ AllOutlinksScheduled(j) =>
              j \in Range(q) \cup Range(q0) \/ (j = parent /\ i \in Range(nI))
  /\ stage \in Routed => \A i, j \in Nodes : packetFlows[i][j] <= 0

\* A route of node n leads to the sink, over a link of its own and then over links
\* that come after all those into their node.
LeadsToSink(n, route) ==
  /\ route # <<>> /\ route[Len(route)] = 0
  /\ \E s \in Slots : LinkOf(s) = <<n, route[1]>>
  /\ \A k \in 1 .. Len(route) - 1 : \A s \in Slots :
       LinkOf(s)[2] = route[k] =>
         \E t \in Slots : s < t /\ LinkOf(t) = <<route[k], route[k + 1]>>

RoutesLead ==
  /\ \A n \in Nodes : routingStrings[n] # NoRoute => LeadsToSink(n, routingStrings[n])
  /\ \A s \in 0 .. routeSlot - 1 : routingStrings[LinkOf(s)[1]] # NoRoute
  /\ stage = "SCHEDULE_FOUND" => routeSlot = Len(scheduleSummary)

SchedulerInv ==
  /\ SchedulerTypes
  /\ NothingScheduled
  /\ FlowsKept
  /\ SlotsLeft
  /\ SchedulesAgree
  /\ ReceivesBeforeTransmits
  /\ ReceiversAreDone
  /\ NoLinkForgotten
  /\ RoutesLead

-----------------------------------------------------------------------------
(* Giving out slots *)

LEMMA AllSlotsGiven ==
  ASSUME NEW F \in [Nodes -> [Nodes -> Nat]], \A i, j \in Nodes : F[i][j] = 0
  PROVE  TotalSlots(F) = 0
<1> DEFINE sums == [n \in Nodes |-> SumFunction(F[n])]
<1>1. \A n \in Nodes : SumFunction(F[n]) = 0
  <2> SUFFICES ASSUME NEW n \in Nodes PROVE SumFunction(F[n]) = 0
    OBVIOUS
  <2>1. F[n] \in [Nodes -> Nat] /\ \A j \in Nodes : ~(F[n][j] > 0)
    OBVIOUS
  <2>2. /\ SumFunction(F[n]) \in Nat
        /\ SumFunction(F[n]) > 0 <=> \E j \in Nodes : F[n][j] > 0
    BY <2>1, NodesFinite, SumPositive
  <2> QED
    BY <2>1, <2>2
<1>2. sums \in [Nodes -> Nat] /\ \A n \in Nodes : ~(sums[n] > 0)
  BY <1>1
<1>3. SumFunction(sums) = 0
  <2> HIDE DEF sums
  <2>1. /\ SumFunction(sums) \in Nat
        /\ SumFunction(sums) > 0 <=> \E n \in Nodes : sums[n] > 0
    BY <1>2, NodesFinite, SumPositive
  <2> QED
    BY <1>2, <2>1
<1> QED
  BY <1>3 DEF TotalSlots

LEMMA AscendingNodes ==
  ASSUME NEW S \in SUBSET Nodes
  PROVE  Ascending(S) \in Seq(Nodes) /\ Range(Ascending(S)) = S
<1>1. S \in SUBSET Int /\ IsFiniteSet(S)
  BY NodesFinite, FS_Subset
<1>2. Ascending(S) \in Seq(S) /\ Range(Ascending(S)) = S
  BY <1>1, AscendingEnumerates
<1> QED
  BY <1>2

LEMMA InitScheduler ==
  ASSUME numTimeslots \in Nat, SchedulerInit
  PROVE  SchedulerInv
<1> USE DEF SchedulerInit
<1>1. SchedulerTypes
  BY NodesFinite DEF SchedulerTypes, SchedulerTypeOK, Stages
<1>2. NothingScheduled
  BY DEF NothingScheduled, UnderWay, Routed
<1>3. FlowsKept /\ SlotsLeft /\ NoLinkForgotten
  BY DEF FlowsKept, SlotsLeft, NoLinkForgotten, UnderWay, Routed
<1>4. SchedulesAgree
  BY DEF SchedulesAgree
<1>5. ReceivesBeforeTransmits /\ ReceiversAreDone
  BY DEF ReceivesBeforeTransmits, ReceiversAreDone
<1>6. RoutesLead
  BY DEF RoutesLead
<1> QED
  BY <1>1, <1>2, <1>3, <1>4, <1>5, <1>6 DEF SchedulerInv

\* The first links to be scheduled are those into the sink.
LEMMA StartKeepsInv ==
  ASSUME SchedulerInv, NEW F, ScheduleableFlows(F), StartScheduling(F)
  PROVE  SchedulerInv'
<1>1. /\ stage = "OPTIMIZING" /\ stage' \in {"SCHEDULING", "INSUFFICIENT_SLOTS"}
      /\ slotFlows' = F /\ packetFlows' = F
      /\ nSlot' = TotalSlots(F) - 1
      /\ UNCHANGED <<numTimeslots, q0, qInd, parent, schedules, routeSlot, routingStrings>>
  BY DEF StartScheduling, routeVars
<1>2. /\ schedules = [n \in Nodes |-> <<>>] /\ scheduleSummary = <<>>
      /\ q = <<>> /\ q0 = <<>> /\ nI = <<>> /\ qInd = 0 /\ parent = 0 /\ nSlot = -1
      /\ routeSlot = 0 /\ routingStrings = [n \in Nodes |-> NoRoute]
  BY <1>1 DEF SchedulerInv, NothingScheduled, UnderWay, Routed
<1>3. F \in [Nodes -> [Nodes -> Nat]] /\ TotalSlots(F) \in Nat
  BY NodesFinite, TotalSlotsExcept DEF ScheduleableFlows
<1>4. stage' = "INSUFFICIENT_SLOTS" => UNCHANGED <<q, nI, scheduleSummary>>
  BY DEF StartScheduling
<1>5. stage' = "SCHEDULING" =>
        /\ q' = Ascending(Transmitters(0, F)) /\ nI' = q'
        /\ scheduleSummary' = [s \in 1 .. TotalSlots(F) |-> <<0, 0>>]
  BY DEF StartScheduling
<1>6. Transmitters(0, F) \in SUBSET Nodes /\ 0 \notin Transmitters(0, F)
  BY NodesFinite DEF Transmitters, ScheduleableFlows
<1>7. stage' = "SCHEDULING" => /\ q' \in Seq(Nodes) /\ Range(q') = Transmitters(0, F)
                               /\ scheduleSummary' \in Seq(Links)
                               /\ Len(scheduleSummary') = TotalSlots(F)
  BY <1>3, <1>5, <1>6, AscendingNodes, NodesFinite DEF Links
<1>8. Used' = {}
  BY <1>1, <1>2, <1>3, <1>4, <1>7 DEF Used
<1>9. SchedulerTypes'
  <2>1. SchedulerTypes
    BY DEF SchedulerInv
  <2>2. packetFlows' \in [Nodes -> [Nodes -> Int]]
    BY <1>1, <1>3
  <2>3. q' \in Seq(Nodes) /\ nI' \in Seq(Nodes) /\ scheduleSummary' \in Seq(Links)
    <3>1. CASE stage' = "SCHEDULING"
      BY <1>5, <1>7, <3>1
    <3>2. CASE stage' = "INSUFFICIENT_SLOTS"
      BY <1>2, <1>4, <3>2
    <3> QED
      BY <1>1, <3>1, <3>2
  <2>4. q' # <<>> => qInd' \in 0 .. Len(q') - 1
    BY <1>1, <1>2, <2>3
  <2>5. routeSlot' \in 0 .. Len(scheduleSummary')
    BY <1>1, <1>2, <2>3
  <2>6. stage' \in Stages /\ slotFlows' \in [Nodes -> [Nodes -> Nat]]
        /\ nSlot' \in Int /\ nSlot' >= -1
    BY <1>1, <1>3 DEF Stages, Results
  <2> QED
    BY <1>1, <2>1, <2>2, <2>3, <2>4, <2>5, <2>6 DEF SchedulerTypes, SchedulerTypeOK
<1>10. NothingScheduled'
  BY <1>1, <1>2, <1>4 DEF NothingScheduled, UnderWay, Routed
<1>11. FlowsKept'
  BY <1>1 DEF FlowsKept, ScheduleableFlows
<1>12. SlotsLeft'
  <2> SUFFICES ASSUME stage' = "SCHEDULING" PROVE SlotsLeft'
    BY <1>1 DEF SlotsLeft, UnderWay, Routed
  <2>1. Waiting(F) = F
    BY <1>3 DEF Waiting
  <2>2. \A i, j \in Nodes : Cardinality(Given(i, j)') = 0
    <3>1. \A i, j \in Nodes : Given(i, j)' = {}
      BY <1>8 DEF Given
    <3> QED
      BY <3>1, FS_EmptySet
  <2>3. \A i, j \in Nodes : F[i][j] = Cardinality(Given(i, j)') + Waiting(F)[i][j]
    BY <1>3, <2>1, <2>2
  <2>4. nSlot' + 1 = TotalSlots(Waiting(F)) /\ nSlot' < Len(scheduleSummary')
    BY <1>1, <1>3, <1>7, <2>1
  <2> HIDE DEF Waiting
  <2> QED
    BY <1>1, <2>3, <2>4 DEF SlotsLeft
<1>13. SchedulesAgree'
  BY <1>1, <1>2, <1>8 DEF SchedulesAgree, Used
<1>14. ReceivesBeforeTransmits'
  BY <1>1, <1>2 DEF ReceivesBeforeTransmits
<1>15. ReceiversAreDone'
  <2>1. AllOutlinksScheduled(0)'
    BY <1>1 DEF AllOutlinksScheduled, ScheduleableFlows
  <2> QED
    BY <1>1, <1>2, <2>1 DEF ReceiversAreDone
<1>16. NoLinkForgotten'
  <2> SUFFICES ASSUME stage' = "SCHEDULING" PROVE NoLinkForgotten'
    BY <1>1 DEF NoLinkForgotten, Routed
  <2>1. /\ Range(q') = Transmitters(0, F) /\ Range(nI') = Transmitters(0, F)
        /\ Range(q0') = {}
    BY <1>1, <1>2, <1>5, <1>7 DEF Range
  <2>2. ASSUME NEW i \in Nodes, NEW j \in Nodes, F[i][j] > 0, \A k \in Nodes : F[j][k] <= 0
        PROVE  j = 0 /\ i \in Transmitters(0, F)
    <3>1. \A a, b \in Nodes : F[a][b] \in Nat
      BY <1>3
    <3>2. j = 0
      BY <2>2, <3>1 DEF ScheduleableFlows
    <3> QED
      BY <2>2, <3>2 DEF Transmitters
  <2> QED
    BY <1>1, <1>2, <1>6, <2>1, <2>2 DEF NoLinkForgotten, AllOutlinksScheduled, Routed
<1>17. RoutesLead'
  BY <1>1, <1>2 DEF RoutesLead
<1> QED
  BY <1>9, <1>10, <1>11, <1>12, <1>13, <1>14, <1>15, <1>16, <1>17 DEF SchedulerInv

\* What PopulateNodeSchedule does to one schedule.
NewEntries(w, ty) == {[slot |-> s, type |-> ty] : s \in nSlot - w + 1 .. nSlot}

LEMMA EntriesInserted ==
  ASSUME nSlot \in Int, NEW w \in Nat, w <= nSlot + 1, NEW ty \in SlotTypes,
         NEW old \in Seq([slot : Nat, type : SlotTypes])
  PROVE  /\ Inserted(Entries(w, ty), old) \in Seq([slot : Nat, type : SlotTypes])
         /\ \A a \in DOMAIN Inserted(Entries(w, ty), old) :
              \/ /\ a \in 1 .. w
                 /\ Inserted(Entries(w, ty), old)[a] = [slot |-> nSlot - w + a, type |-> ty]
              \/ /\ a > w /\ a - w \in DOMAIN old
                 /\ Inserted(Entries(w, ty), old)[a] = old[a - w]
         /\ Range(Inserted(Entries(w, ty), old)) = Range(old) \cup NewEntries(w, ty)
         /\ w = 0 => Inserted(Entries(w, ty), old) = old
<1> DEFINE E == Entries(w, ty)
           R == [slot : Nat, type : SlotTypes]
<1>1. E = [k \in 1 .. w |-> [slot |-> nSlot - w + k, type |-> ty]]
  BY DEF Entries
<1>2. E \in Seq(R) /\ Len(E) = w
  <2>1. \A k \in 1 .. w : [slot |-> nSlot - w + k, type |-> ty] \in R
    OBVIOUS
  <2> HIDE DEF E, R
  <2>2. E \in [1 .. w -> R]
    BY <1>1, <2>1
  <2> QED
    BY <2>2, FunctionIsSequence
<1> DEFINE new == E \o old
<1>3. Inserted(Entries(w, ty), old) = new
  BY DEF Inserted
<1>4. \A k \in 1 .. w : E[k] = [slot |-> nSlot - w + k, type |-> ty]
  BY <1>1
<1> HIDE DEF E
<1>5. /\ new \in Seq(R)
      /\ DOMAIN new = 1 .. w + Len(old)
      /\ \A a \in 1 .. w : new[a] = E[a]
      /\ \A a \in DOMAIN old : a + w \in DOMAIN new /\ new[a + w] = old[a]
      /\ \A a \in DOMAIN new : a \in 1 .. w \/ (a > w /\ a - w \in DOMAIN old /\ new[a] = old[a - w])
  <2>0. E \in Seq(R)
    BY <1>2
  <2>1. old \in Seq(R)
    OBVIOUS
  <2> HIDE DEF R
  <2>2. /\ new \in Seq(R) /\ Len(new) = Len(E) + Len(old)
        /\ DOMAIN new = 1 .. Len(E) + Len(old)
        /\ \A a \in 1 .. Len(E) : new[a] = E[a]
        /\ \A a \in DOMAIN old : a + Len(E) \in DOMAIN new /\ new[a + Len(E)] = old[a]
        /\ \A a \in DOMAIN new :
             \/ a \in 1 .. Len(E)
             \/ a > Len(E) /\ a - Len(E) \in DOMAIN old /\ new[a] = old[a - Len(E)]
    BY <2>0, <2>1, Joined
  <2> HIDE DEF new
  <2> QED
    BY <1>2, <2>2
<1>6. Range(new) = Range(old) \cup NewEntries(w, ty)
  <2> HIDE DEF new
  <2>1. ASSUME NEW a \in DOMAIN new PROVE new[a] \in Range(old) \cup NewEntries(w, ty)
    <3>1. CASE a \in 1 .. w
      <4>1. new[a] = [slot |-> nSlot - w + a, type |-> ty]
        BY <1>4, <1>5, <3>1
      <4>2. nSlot - w + a \in nSlot - w + 1 .. nSlot
        BY <3>1
      <4> QED
        BY <4>1, <4>2 DEF NewEntries
    <3>2. CASE a \notin 1 .. w
      BY <1>5, <3>2 DEF Range
    <3> QED
      BY <3>1, <3>2
  <2>2. ASSUME NEW s \in nSlot - w + 1 .. nSlot
        PROVE  [slot |-> s, type |-> ty] \in Range(new)
    <3> DEFINE a == s - (nSlot - w)
    <3>1. a \in 1 .. w /\ a \in 1 .. w + Len(old) /\ nSlot - w + a = s
      OBVIOUS
    <3> HIDE DEF a
    <3>2. new[a] = [slot |-> s, type |-> ty] /\ a \in DOMAIN new
      BY <1>4, <1>5, <3>1
    <3> QED
      BY <3>2 DEF Range
  <2>3. ASSUME NEW a \in DOMAIN old PROVE old[a] \in Range(new)
    <3>1. a + w \in DOMAIN new /\ new[a + w] = old[a]
      BY <1>5
    <3> QED
      BY <3>1 DEF Range
  <2>4. Range(new) \subseteq Range(old) \cup NewEntries(w, ty)
    BY <2>1 DEF Range
  <2>5. NewEntries(w, ty) \subseteq Range(new)
    BY <2>2 DEF NewEntries
  <2>6. Range(old) \subseteq Range(new)
    BY <2>3 DEF Range
  <2> QED
    BY <2>4, <2>5, <2>6
<1>7. w = 0 => new = old
  <2> SUFFICES ASSUME w = 0 PROVE new = old
    OBVIOUS
  <2>1. DOMAIN new = DOMAIN old /\ \A a \in DOMAIN old : new[a] = old[a]
    BY <1>5
  <2>2. new \in Seq(R) /\ old \in Seq(R)
    BY <1>5
  <2> HIDE DEF new, R
  <2> QED
    BY <2>1, <2>2
<1>8. \A a \in DOMAIN new :
        \/ a \in 1 .. w /\ new[a] = [slot |-> nSlot - w + a, type |-> ty]
        \/ a > w /\ a - w \in DOMAIN old /\ new[a] = old[a - w]
  <2> HIDE DEF new
  <2> QED
    BY <1>4, <1>5
<1> QED
  BY <1>3, <1>5, <1>6, <1>7, <1>8

\* The slots of one more link: PopulateNodeSchedule, in the names of its step.
LEMMA PopulateKeepsInv ==
  ASSUME SchedulerInv, PopulateNodeSchedule
  PROVE  SchedulerInv'
<1> DEFINE src == Head(nI)
           was == packetFlows[src][parent]
           weight == IF was > 0 THEN was ELSE 0
           New == nSlot - weight + 1 .. nSlot
           type(n) == IF n = src THEN "TRANSMIT" ELSE "RECEIVE"
           size(n) == IF n \in {src, parent} THEN weight ELSE 0
<1>1. /\ stage = "SCHEDULING" /\ nI # <<>>
      /\ UNCHANGED <<numTimeslots, stage, slotFlows, q, qInd, parent, routeSlot, routingStrings>>
      /\ nI' = Tail(nI) /\ nSlot' = nSlot - weight
      /\ packetFlows' = [packetFlows EXCEPT ![src][parent] = -1]
      /\ q0' = IF parent = 0 \/ src \in Range(q0) THEN q0 ELSE Append(q0, src)
  BY DEF PopulateNodeSchedule, Scheduled, routeVars
<1> DEFINE sent == [schedules EXCEPT
                      ![src] = Inserted(Entries(weight, "TRANSMIT"), schedules[src])]
<1>2. /\ schedules' = [sent EXCEPT
             ![parent] = Inserted(Entries(weight, "RECEIVE"), sent[parent])]
      /\ scheduleSummary' = [k \in DOMAIN scheduleSummary |->
             IF k - 1 \in New THEN <<src, parent>> ELSE scheduleSummary[k]]
  BY DEF PopulateNodeSchedule
<1>3. /\ packetFlows \in [Nodes -> [Nodes -> Int]]
      /\ nI \in Seq(Nodes) /\ q0 \in Seq(Nodes) /\ parent \in Nodes /\ nSlot \in Int
      /\ schedules \in [Nodes -> Seq([slot : Nat, type : SlotTypes])]
      /\ scheduleSummary \in Seq(Links)
  BY DEF SchedulerInv, SchedulerTypes, SchedulerTypeOK
<1>4. /\ src \in Nodes /\ src \in Range(nI) /\ Tail(nI) \in Seq(Nodes)
      /\ Range(nI) = Range(Tail(nI)) \cup {src}
  <2>1. Head(nI) \in Nodes /\ Tail(nI) \in Seq(Nodes)
        /\ Range(nI) = Range(Tail(nI)) \cup {Head(nI)}
    BY <1>1, <1>3, HeadAndTail
  <2> QED
    BY <2>1
<1> HIDE DEF src
<1>5. /\ src # 0 /\ AllOutlinksScheduled(parent)
      /\ \A j \in Nodes : packetFlows[0][j] = 0
      /\ \A i, j \in Nodes : packetFlows[i][j] \in {-1, slotFlows[i][j]}
  BY <1>1, <1>4
  DEF SchedulerInv, NoLinkForgotten, ReceiversAreDone, FlowsKept
<1>6. was \in Int /\ weight \in Nat
  BY <1>3, <1>4
<1>7. weight > 0 => src # parent /\ ~AllOutlinksScheduled(src)
  <2>1. packetFlows[parent][parent] <= 0
    BY <1>3, <1>5 DEF AllOutlinksScheduled
  <2>2. weight > 0 => packetFlows[src][parent] > 0
    OBVIOUS
  <2>3. \A j \in Nodes : packetFlows[src][j] \in Int
    BY <1>3, <1>4
  <2> HIDE DEF weight
  <2> QED
    BY <1>3, <2>1, <2>2, <2>3 DEF AllOutlinksScheduled
<1>8. /\ packetFlows' \in [Nodes -> [Nodes -> Int]]
      /\ \A i, j \in Nodes :
           packetFlows'[i][j] = IF i = src /\ j = parent THEN -1 ELSE packetFlows[i][j]
  <2>1. \A i, j \in Nodes :
          packetFlows'[i][j] = IF i = src /\ j = parent THEN -1 ELSE packetFlows[i][j]
    BY <1>1, <1>3, <1>4
  <2>2. packetFlows' \in [Nodes -> [Nodes -> Int]]
    <3>1. \A i \in Nodes : [packetFlows[i] EXCEPT ![parent] = -1] \in [Nodes -> Int]
      BY <1>3
    <3> QED
      BY <1>1, <1>3, <3>1
  <2> QED
    BY <2>1, <2>2
<1>9. /\ Waiting(packetFlows) \in [Nodes -> [Nodes -> Nat]]
      /\ Waiting(packetFlows') \in [Nodes -> [Nodes -> Nat]]
      /\ Waiting(packetFlows)[src][parent] = weight
      /\ \A i, j \in Nodes : Waiting(packetFlows')[i][j] =
           IF i = src /\ j = parent THEN 0 ELSE Waiting(packetFlows)[i][j]
  <2>1. \A i, j \in Nodes : packetFlows[i][j] \in Int /\ packetFlows'[i][j] \in Int
    BY <1>3, <1>8
  <2>2. Waiting(packetFlows) \in [Nodes -> [Nodes -> Nat]]
    BY <2>1 DEF Waiting
  <2>3. Waiting(packetFlows') \in [Nodes -> [Nodes -> Nat]]
    BY <2>1 DEF Waiting
  <2>4. Waiting(packetFlows)[src][parent] = weight
    BY <1>3, <1>4 DEF Waiting
  <2>5. \A i, j \in Nodes : Waiting(packetFlows')[i][j] =
          IF i = src /\ j = parent THEN 0 ELSE Waiting(packetFlows)[i][j]
    BY <1>8 DEF Waiting
  <2> QED
    BY <2>2, <2>3, <2>4, <2>5
<1> HIDE DEF weight, was
<1>10. /\ weight <= nSlot + 1 /\ nSlot' >= -1
       /\ nSlot + 1 = TotalSlots(Waiting(packetFlows))
       /\ nSlot' + 1 = TotalSlots(Waiting(packetFlows'))
       /\ nSlot < Len(scheduleSummary)
  <2> DEFINE W == Waiting(packetFlows)
             V == Waiting(packetFlows')
  <2>1. nSlot + 1 = TotalSlots(W) /\ nSlot < Len(scheduleSummary)
    BY <1>1 DEF SchedulerInv, SlotsLeft, UnderWay
  <2>2. W \in [Nodes -> [Nodes -> Nat]] /\ V \in [Nodes -> [Nodes -> Nat]]
    BY <1>9
  <2>3. /\ W[src][parent] = weight /\ V[src][parent] = 0
        /\ \A a, b \in Nodes : a # src \/ b # parent => V[a][b] = W[a][b]
    BY <1>3, <1>4, <1>9
  <2> HIDE DEF W, V
  <2>4. /\ TotalSlots(W) \in Nat /\ W[src][parent] <= TotalSlots(W)
        /\ TotalSlots(V) = TotalSlots(W) - W[src][parent] + V[src][parent]
    BY <1>3, <1>4, <2>2, <2>3, TotalSlotsChange
  <2>5. weight <= nSlot + 1 /\ nSlot' >= -1 /\ nSlot' + 1 = TotalSlots(V)
    BY <1>1, <1>3, <1>6, <2>1, <2>3, <2>4
  <2> QED
    BY <2>1, <2>5 DEF W, V
<1>11. \A n \in Nodes : AllOutlinksScheduled(n) => AllOutlinksScheduled(n)'
  BY <1>8 DEF AllOutlinksScheduled
<1>12. /\ New \subseteq Slots /\ Used' = Used \cup New /\ Used \cap New = {}
       /\ Used \subseteq Slots
       /\ Len(scheduleSummary') = Len(scheduleSummary)
       /\ scheduleSummary' \in Seq(Links)
       /\ \A s \in Slots : LinkOf(s)' = IF s \in New THEN <<src, parent>> ELSE LinkOf(s)
  <2>1. /\ Len(scheduleSummary) \in Nat
        /\ DOMAIN scheduleSummary = 1 .. Len(scheduleSummary)
        /\ \A k \in DOMAIN scheduleSummary : scheduleSummary[k] \in Links
        /\ <<src, parent>> \in Links
    <3>1. <<src, parent>> \in Links
      BY <1>3, <1>4 DEF Links
    <3> QED
      BY <1>3, <3>1
  <2>2. scheduleSummary' \in [1 .. Len(scheduleSummary) -> Links]
    BY <1>2, <2>1
  <2>3. scheduleSummary' \in Seq(Links) /\ Len(scheduleSummary') = Len(scheduleSummary)
    BY <2>1, <2>2, FunctionIsSequence
  <2>4. /\ New \subseteq Slots /\ Used \cup New = nSlot - weight + 1 .. Len(scheduleSummary) - 1
        /\ Used \cap New = {} /\ Used \subseteq Slots
    BY <1>3, <1>6, <1>10, <2>1 DEF Slots, Used
  <2>5. Used' = Used \cup New
    BY <1>1, <2>3, <2>4 DEF Used
  <2>6. ASSUME NEW s \in Slots
        PROVE  LinkOf(s)' = IF s \in New THEN <<src, parent>> ELSE LinkOf(s)
    <3>1. s + 1 \in DOMAIN scheduleSummary /\ (s + 1) - 1 = s
      BY <2>1 DEF Slots
    <3> HIDE DEF New
    <3> QED
      BY <1>2, <3>1 DEF LinkOf
  <2> QED
    BY <2>3, <2>4, <2>5, <2>6
<1>13. \A n \in Nodes : /\ type(n) \in SlotTypes /\ size(n) \in Nat /\ size(n) <= nSlot + 1
                        /\ schedules[n] \in Seq([slot : Nat, type : SlotTypes])
  BY <1>3, <1>6, <1>10 DEF SlotTypes
<1>14. ASSUME NEW n \in Nodes
       PROVE  schedules'[n] = Inserted(Entries(size(n), type(n)), schedules[n])
  <2>1. CASE n \notin {src, parent}
    <3>1. schedules'[n] = schedules[n]
      BY <1>2, <1>3, <1>4, <2>1
    <3>2. size(n) = 0
      BY <2>1
    <3> HIDE DEF size, type
    <3> QED
      BY <1>3, <1>13, <3>1, <3>2, EntriesInserted
  <2>2. CASE n = src /\ src # parent
    BY <1>2, <1>3, <1>4, <2>2
  <2>3. CASE n = parent /\ src # parent
    BY <1>2, <1>3, <1>4, <2>3
  <2>4. CASE n = src /\ src = parent
    <3>1. weight = 0
      BY <1>6, <1>7, <2>4
    <3> DEFINE one == Inserted(Entries(weight, "TRANSMIT"), schedules[n])
               two == Inserted(Entries(weight, "RECEIVE"), one)
    <3>2. schedules'[n] = two
      <4>1. sent[n] = one /\ DOMAIN sent = Nodes
        BY <1>3, <2>4
      <4> HIDE DEF one, sent
      <4> QED
        BY <1>2, <2>4, <4>1
    <3>3. one = schedules[n]
      BY <1>3, <1>6, <1>10, <1>13, <3>1, EntriesInserted DEF SlotTypes
    <3>4. Inserted(Entries(weight, "RECEIVE"), schedules[n]) = schedules[n]
      BY <1>3, <1>6, <1>10, <1>13, <3>1, EntriesInserted DEF SlotTypes
    <3>5. size(n) = weight /\ type(n) = "TRANSMIT"
      BY <2>4
    <3> HIDE DEF size, type
    <3> QED
      BY <3>2, <3>3, <3>4, <3>5
  <2> QED
    BY <2>1, <2>2, <2>3, <2>4
<1>15. /\ size(src) = weight /\ type(src) = "TRANSMIT"
       /\ size(parent) = weight /\ (parent # src => type(parent) = "RECEIVE")
  OBVIOUS
<1>16. \A n \in Nodes : size(n) > 0 => /\ size(n) = weight
                                       /\ type(n) = "TRANSMIT" => n = src
                                       /\ type(n) = "RECEIVE" => n = parent
  BY <1>6
<1>17. ASSUME NEW n \in Nodes
       PROVE  /\ schedules'[n] \in Seq([slot : Nat, type : SlotTypes])
              /\ \A a \in DOMAIN schedules'[n] :
                   \/ /\ a \in 1 .. size(n)
                      /\ schedules'[n][a] = [slot |-> nSlot - size(n) + a, type |-> type(n)]
                   \/ /\ a > size(n) /\ a - size(n) \in DOMAIN schedules[n]
                      /\ schedules'[n][a] = schedules[n][a - size(n)]
              /\ Range(schedules'[n]) = Range(schedules[n]) \cup NewEntries(size(n), type(n))
  <2> HIDE DEF size, type
  <2>1. nSlot \in Int /\ size(n) \in Nat /\ size(n) <= nSlot + 1 /\ type(n) \in SlotTypes
        /\ schedules[n] \in Seq([slot : Nat, type : SlotTypes])
    BY <1>3, <1>13
  <2> DEFINE sched == schedules[n]
             w == size(n)
             ty == type(n)
             new == Inserted(Entries(w, ty), sched)
  <2>2. sched \in Seq([slot : Nat, type : SlotTypes]) /\ schedules'[n] = new
        /\ w \in Nat /\ w <= nSlot + 1 /\ ty \in SlotTypes
    BY <1>14, <2>1
  <2> HIDE DEF sched, w, ty
  <2>3. new \in Seq([slot : Nat, type : SlotTypes])
    BY <2>1, <2>2, EntriesInserted
  <2>4. \A a \in DOMAIN new :
          \/ a \in 1 .. w /\ new[a] = [slot |-> nSlot - w + a, type |-> ty]
          \/ a > w /\ a - w \in DOMAIN sched /\ new[a] = sched[a - w]
    BY <2>1, <2>2, EntriesInserted
  <2>5. Range(new) = Range(sched) \cup NewEntries(w, ty)
    BY <2>1, <2>2, EntriesInserted
  <2> HIDE DEF new
  <2> QED
    BY <2>2, <2>3, <2>4, <2>5 DEF sched, w, ty
<1> HIDE DEF size, type
<1>18. SchedulerTypes'
  <2>1. SchedulerTypes
    BY DEF SchedulerInv
  <2>2. schedules' \in [Nodes -> Seq([slot : Nat, type : SlotTypes])]
    <3>1. DOMAIN schedules' = Nodes /\ schedules' = [n \in Nodes |-> schedules'[n]]
      BY <1>2, <1>3
    <3> QED
      BY <1>17, <3>1
  <2>3. q0' \in Seq(Nodes) /\ nI' \in Seq(Nodes)
    BY <1>1, <1>3, <1>4, Appended
  <2>4. nSlot' \in Int /\ nSlot' >= -1
    BY <1>1, <1>3, <1>6, <1>10
  <2> QED
    BY <1>1, <1>8, <1>12, <2>1, <2>2, <2>3, <2>4 DEF SchedulerTypes, SchedulerTypeOK
<1>19. NothingScheduled'
  BY <1>1 DEF SchedulerInv, NothingScheduled, UnderWay, Routed
<1>20. FlowsKept'
  <2>1. ScheduleableFlows(slotFlows)
    BY <1>1 DEF SchedulerInv, FlowsKept
  <2>2. \A i, j \in Nodes : packetFlows'[i][j] \in {-1, slotFlows[i][j]}
    BY <1>5, <1>8
  <2>3. \A j \in Nodes : packetFlows'[0][j] = 0
    BY <1>5, <1>8, NodesFinite
  <2> QED
    BY <1>1, <2>1, <2>2, <2>3 DEF FlowsKept, ScheduleableFlows
<1>21. SlotsLeft'
  <2>1. \A i, j \in Nodes : slotFlows[i][j] = Cardinality(Given(i, j)) + Waiting(packetFlows)[i][j]
    BY <1>1 DEF SchedulerInv, SlotsLeft, UnderWay
  <2>2. IsFiniteSet(Used) /\ IsFiniteSet(New) /\ Cardinality(New) = weight
    <3>1. /\ nSlot + 1 \in Int /\ Len(scheduleSummary) - 1 \in Int
          /\ nSlot - weight + 1 \in Int
      BY <1>3, <1>6
    <3>2. IsFiniteSet(Used)
      BY <3>1, FS_Interval DEF Used
    <3>3. IsFiniteSet(New) /\ Cardinality(New) =
            IF nSlot - weight + 1 > nSlot THEN 0 ELSE nSlot - (nSlot - weight + 1) + 1
      BY <1>3, <3>1, FS_Interval
    <3>4. (IF nSlot - weight + 1 > nSlot THEN 0 ELSE nSlot - (nSlot - weight + 1) + 1) = weight
      BY <1>3, <1>6
    <3> QED
      BY <3>2, <3>3, <3>4
  <2> HIDE DEF New
  <2>3. ASSUME NEW i \in Nodes, NEW j \in Nodes
        PROVE  slotFlows[i][j] = Cardinality(Given(i, j)') + Waiting(packetFlows')[i][j]
    <3>1. IsFiniteSet(Given(i, j)) /\ Given(i, j) \subseteq Used
      BY <2>2, FS_Subset DEF Given
    <3>2. CASE i = src /\ j = parent
      <4>1. Given(i, j)' = Given(i, j) \cup New
        BY <1>12, <3>2 DEF Given
      <4>2. Cardinality(Given(i, j)') = Cardinality(Given(i, j)) + weight
        <5>1. Given(i, j) \cap New = {}
          BY <1>12, <3>1
        <5>2. Cardinality(Given(i, j) \cup New) = Cardinality(Given(i, j)) + Cardinality(New)
          <6>1. Cardinality({}) = 0 /\ Cardinality(Given(i, j)) \in Nat
            BY <3>1, FS_EmptySet, FS_CardinalityType
          <6>2. Cardinality(Given(i, j) \cup New)
                  = Cardinality(Given(i, j)) + Cardinality(New) - Cardinality(Given(i, j) \cap New)
            BY <2>2, <3>1, FS_Union
          <6>3. Cardinality(Given(i, j) \cap New) = 0
            BY <5>1, <6>1
          <6> QED
            BY <1>6, <2>2, <6>1, <6>2, <6>3
        <5> QED
          BY <2>2, <4>1, <5>2
      <4>3. Waiting(packetFlows)[i][j] = weight /\ Waiting(packetFlows')[i][j] = 0
        BY <1>9, <3>2
      <4>4. Cardinality(Given(i, j)) \in Nat
        BY <3>1, FS_CardinalityType
      <4> QED
        BY <1>6, <2>1, <4>2, <4>3, <4>4
    <3>3. CASE ~(i = src /\ j = parent)
      <4>1. Given(i, j)' = Given(i, j)
        <5>1. <<src, parent>> # <<i, j>>
          BY <3>3
        <5> QED
          BY <1>12, <5>1 DEF Given
      <4>2. Waiting(packetFlows')[i][j] = Waiting(packetFlows)[i][j]
        BY <1>9, <3>3
      <4> QED
        BY <2>1, <4>1, <4>2
    <3> QED
      BY <3>2, <3>3
  <2>4. nSlot' < Len(scheduleSummary')
    BY <1>1, <1>3, <1>6, <1>10, <1>12
  <2> QED
    BY <1>1, <1>10, <2>3, <2>4 DEF SlotsLeft
\* An entry of a new schedule is one of the old ones or one of the new.
<1> DEFINE Old(n, a) == /\ a > size(n) /\ a - size(n) \in DOMAIN schedules[n]
                        /\ schedules'[n][a] = schedules[n][a - size(n)]
                        /\ schedules'[n][a].slot \in Used
                        /\ schedules'[n][a].type = "RECEIVE" => AllOutlinksScheduled(n)
           Fresh(n, a) == /\ a \in 1 .. size(n) /\ size(n) > 0
                          /\ schedules'[n][a].slot = nSlot - size(n) + a
                          /\ schedules'[n][a].slot \in New
                          /\ schedules'[n][a].type = type(n)
<1>22. ASSUME NEW n \in Nodes, NEW a \in DOMAIN schedules'[n]
       PROVE  Old(n, a) \/ Fresh(n, a)
  <2>1. \A b \in DOMAIN schedules[n] :
          /\ schedules[n][b].slot \in Used
          /\ schedules[n][b].type = "RECEIVE" => AllOutlinksScheduled(n)
    BY DEF SchedulerInv, ReceiversAreDone
  <2>2. CASE a \in 1 .. size(n)
             /\ schedules'[n][a] = [slot |-> nSlot - size(n) + a, type |-> type(n)]
    <3>1. size(n) \in Nat /\ size(n) > 0
      BY <1>13, <2>2
    <3>2. size(n) = weight
      BY <1>16, <3>1
    <3>3. nSlot - size(n) + a \in New
      BY <1>3, <1>6, <2>2, <3>2
    <3> QED
      BY <2>2, <3>1, <3>3
  <2>3. CASE a > size(n) /\ a - size(n) \in DOMAIN schedules[n]
             /\ schedules'[n][a] = schedules[n][a - size(n)]
    BY <2>1, <2>3
  <2> QED
    BY <1>17, <2>2, <2>3
<1>23. \A s \in Used, t \in New : t < s
  BY <1>3, <1>6 DEF Used
<1>24. \A n \in Nodes : \A a \in DOMAIN schedules'[n] :
         schedules'[n][a].slot \in Int /\ a \in Int /\ size(n) \in Nat
  <2> SUFFICES ASSUME NEW n \in Nodes, NEW a \in DOMAIN schedules'[n]
               PROVE  schedules'[n][a].slot \in Int /\ a \in Int /\ size(n) \in Nat
    OBVIOUS
  <2> DEFINE sched == schedules'[n]
             R == [slot : Nat, type : SlotTypes]
  <2>1. sched \in Seq(R) /\ size(n) \in Nat
    BY <1>13, <1>17
  <2>2. \A r \in R : r.slot \in Int
    OBVIOUS
  <2>3. a \in DOMAIN sched
    OBVIOUS
  <2> HIDE DEF sched, R
  <2>4. sched[a] \in R /\ a \in Int
    BY <2>1, <2>3
  <2> QED
    BY <2>1, <2>2, <2>4 DEF sched
<1>25. SchedulesAgree'
  <2>1. ASSUME NEW n \in Nodes, NEW a \in DOMAIN schedules'[n], NEW b \in DOMAIN schedules'[n],
               a < b
        PROVE  schedules'[n][a].slot < schedules'[n][b].slot
    <3>1. CASE Old(n, a) /\ Old(n, b)
      <4>1. a - size(n) < b - size(n)
        BY <1>24, <2>1
      <4>2. \A c, d \in DOMAIN schedules[n] :
              c < d => schedules[n][c].slot < schedules[n][d].slot
        BY DEF SchedulerInv, SchedulesAgree
      <4> QED
        BY <3>1, <4>1, <4>2
    <3>2. CASE Fresh(n, a) /\ Old(n, b)
      BY <1>23, <3>2
    <3>3. CASE Fresh(n, a) /\ Fresh(n, b)
      BY SMTT(60), <1>3, <1>24, <2>1, <3>3
    <3>4. CASE Old(n, a) /\ Fresh(n, b)
      BY <1>24, <2>1, <3>4
    <3> QED
      BY <1>22, <3>1, <3>2, <3>3, <3>4
  <2> DEFINE end(ty) == IF ty = "TRANSMIT" THEN 1 ELSE 2
  <2>2. ASSUME NEW s \in Used, NEW n \in Nodes, NEW ty \in SlotTypes
        PROVE  [slot |-> s, type |-> ty] \in Range(schedules'[n]) <=> n = (LinkOf(s)')[end(ty)]
    <3>1. [slot |-> s, type |-> ty] \in Range(schedules[n]) <=> n = LinkOf(s)[end(ty)]
      BY DEF SchedulerInv, SchedulesAgree, Used
    <3>2. LinkOf(s)' = LinkOf(s)
      BY <1>12
    <3>3. [slot |-> s, type |-> ty] \notin NewEntries(size(n), type(n))
      <4> SUFFICES ASSUME NEW t \in nSlot - size(n) + 1 .. nSlot, t = s PROVE FALSE
        BY DEF NewEntries
      <4> QED
        BY <1>3, <1>13 DEF Used
    <3> QED
      BY <1>17, <3>1, <3>2, <3>3
  <2>3. ASSUME NEW s \in New, NEW n \in Nodes, NEW ty \in SlotTypes
        PROVE  [slot |-> s, type |-> ty] \in Range(schedules'[n]) <=> n = (LinkOf(s)')[end(ty)]
    <3>1. LinkOf(s)' = <<src, parent>>
      BY <1>12
    <3>2. [slot |-> s, type |-> ty] \notin Range(schedules[n])
      <4> SUFFICES ASSUME NEW a \in DOMAIN schedules[n],
                          schedules[n][a] = [slot |-> s, type |-> ty]
                   PROVE  FALSE
        BY DEF Range
      <4>1. schedules[n][a].slot \in Used
        BY DEF SchedulerInv, ReceiversAreDone
      <4> QED
        BY <1>12, <4>1
    <3>3. [slot |-> s, type |-> ty] \in NewEntries(size(n), type(n))
            <=> n = <<src, parent>>[end(ty)]
      <4>1. weight > 0 /\ src # parent
        <5>1. weight > 0
          BY <1>3, <1>6
        <5> QED
          BY <1>7, <5>1
      <4>2. ASSUME NEW t \in nSlot - size(n) + 1 .. nSlot,
                   [slot |-> s, type |-> ty] = [slot |-> t, type |-> type(n)]
            PROVE  n = <<src, parent>>[end(ty)]
        <5>1. ty = type(n) /\ size(n) > 0
          BY <1>3, <1>13, <4>2
        <5> QED
          BY <1>16, <5>1 DEF SlotTypes
      <4>3. ASSUME n = <<src, parent>>[end(ty)]
            PROVE  size(n) = weight /\ type(n) = ty
        <5>1. CASE ty = "TRANSMIT"
          BY <1>15, <4>3, <5>1
        <5>2. CASE ty = "RECEIVE"
          BY <1>15, <4>1, <4>3, <5>2
        <5> QED
          BY <5>1, <5>2 DEF SlotTypes
      <4>4. n = <<src, parent>>[end(ty)] => [slot |-> s, type |-> ty] \in NewEntries(size(n), type(n))
        BY <4>3 DEF NewEntries
      <4>5. [slot |-> s, type |-> ty] \in NewEntries(size(n), type(n)) => n = <<src, parent>>[end(ty)]
        BY <4>2 DEF NewEntries
      <4> QED
        BY <4>4, <4>5
    <3> QED
      BY <1>17, <3>1, <3>2, <3>3
  <2>4. nSlot' + 1 .. Len(scheduleSummary') - 1 = Used \cup New
    BY <1>12 DEF Used
  <2> HIDE DEF New
  <2> QED
    BY <2>1, <2>2, <2>3, <2>4 DEF SchedulesAgree
<1>26. ReceivesBeforeTransmits'
  <2> SUFFICES ASSUME NEW n \in Nodes, NEW a \in DOMAIN schedules'[n], NEW b \in DOMAIN schedules'[n],
                      schedules'[n][a].type = "RECEIVE", schedules'[n][b].type = "TRANSMIT"
               PROVE  schedules'[n][a].slot < schedules'[n][b].slot
    BY DEF ReceivesBeforeTransmits
  <2>1. CASE Old(n, a) /\ Old(n, b)
    <3>1. \A c, d \in DOMAIN schedules[n] :
            schedules[n][c].type = "RECEIVE" /\ schedules[n][d].type = "TRANSMIT"
              => schedules[n][c].slot < schedules[n][d].slot
      BY DEF SchedulerInv, ReceivesBeforeTransmits
    <3> QED
      BY <2>1, <3>1
  <2>2. CASE Fresh(n, a) /\ Old(n, b)
    BY <1>23, <2>2
  <2>3. CASE Fresh(n, a) /\ Fresh(n, b)
    BY <2>3
  <2>4. CASE Old(n, a) /\ Fresh(n, b)
    <3>1. n = src /\ weight > 0
      BY <1>16, <2>4
    <3> QED
      BY <1>7, <2>4, <3>1
  <2> QED
    BY <1>22, <2>1, <2>2, <2>3, <2>4
<1>27. ReceiversAreDone'
  <2>1. ASSUME NEW n \in Nodes, NEW a \in DOMAIN schedules'[n]
        PROVE  /\ schedules'[n][a].slot \in Used'
               /\ schedules'[n][a].type = "RECEIVE" => AllOutlinksScheduled(n)'
    <3>1. CASE Old(n, a)
      BY <1>11, <1>12, <3>1
    <3>2. CASE Fresh(n, a)
      <4>1. type(n) = "RECEIVE" => n = parent
        BY <1>16, <3>2
      <4> HIDE DEF New
      <4> QED
        BY <1>5, <1>11, <1>12, <3>2, <4>1
    <3> QED
      BY <1>22, <3>1, <3>2
  <2>2. AllOutlinksScheduled(parent)'
    BY <1>1, <1>3, <1>5, <1>8 DEF AllOutlinksScheduled
  <2> QED
    BY <2>1, <2>2 DEF ReceiversAreDone
<1>28. NoLinkForgotten'
  <2>1. /\ 0 \notin Range(q) \cup Range(q0) \cup Range(nI)
        /\ parent = 0 => Range(nI) \subseteq Range(q)
        /\ \A i, j \in Nodes :
             packetFlows[i][j] > 0 /\ AllOutlinksScheduled(j) =>
               j \in Range(q) \cup Range(q0) \/ (j = parent /\ i \in Range(nI))
    BY <1>1 DEF SchedulerInv, NoLinkForgotten
  <2>2. /\ Range(q0') \subseteq Range(q0) \cup {src} /\ Range(q0) \subseteq Range(q0')
        /\ parent # 0 => src \in Range(q0')
    <3>1. CASE q0' = q0 /\ (parent = 0 \/ src \in Range(q0))
      BY <3>1
    <3>2. CASE q0' = Append(q0, src)
      <4>1. Range(Append(q0, src)) = Range(q0) \cup {src}
        BY <1>3, <1>4, Appended
      <4> QED
        BY <3>2, <4>1
    <3> QED
      BY <1>1, <3>1, <3>2
  <2>3. Range(nI) = Range(nI') \cup {src}
    BY <1>1, <1>4
  <2>4. ASSUME NEW i \in Nodes, NEW j \in Nodes, packetFlows'[i][j] > 0, AllOutlinksScheduled(j)'
        PROVE  j \in Range(q') \cup Range(q0') \/ (j = parent' /\ i \in Range(nI'))
    <3>1. ~(i = src /\ j = parent) /\ packetFlows[i][j] > 0
      BY <1>8, <2>4
    <3>2. CASE AllOutlinksScheduled(j)
      BY <1>1, <2>1, <2>2, <2>3, <3>1, <3>2
    <3>3. CASE ~AllOutlinksScheduled(j)
      <4>1. j = src
        BY <1>8, <2>4, <3>3 DEF AllOutlinksScheduled
      <4> QED
        BY <1>1, <1>4, <2>1, <2>2, <4>1
    <3> QED
      BY <3>2, <3>3
  <2>5. 0 \notin Range(q') \cup Range(q0') \cup Range(nI')
    BY <1>1, <1>5, <2>1, <2>2, <2>3
  <2>6. parent' = 0 => Range(nI') \subseteq Range(q')
    BY <1>1, <2>1, <2>3
  <2> QED
    BY <1>1, <2>4, <2>5, <2>6 DEF NoLinkForgotten, Routed
<1>29. RoutesLead'
  BY <1>1 DEF SchedulerInv, NothingScheduled, RoutesLead, Routed
<1> QED
  BY <1>18, <1>19, <1>20, <1>21, <1>25, <1>26, <1>27, <1>28, <1>29 DEF SchedulerInv

LEMMA SlotsUntouched ==
  ASSUME SchedulerInv, stage \in UnderWay, stage' \in UnderWay,
         UNCHANGED <<slotFlows, packetFlows, nSlot, schedules, scheduleSummary>>
  PROVE  FlowsKept' /\ SlotsLeft' /\ SchedulesAgree' /\ ReceivesBeforeTransmits'
<1>1. FlowsKept'
  BY DEF SchedulerInv, FlowsKept, ScheduleableFlows, UnderWay, Routed
<1>2. SlotsLeft'
  <2>1. \A i, j \in Nodes : Given(i, j)' = Given(i, j)
    BY DEF Given, Used, LinkOf
  <2> QED
    BY <2>1 DEF SchedulerInv, SlotsLeft
<1>3. SchedulesAgree'
  BY DEF SchedulerInv, SchedulesAgree, LinkOf
<1>4. ReceivesBeforeTransmits'
  BY DEF SchedulerInv, ReceivesBeforeTransmits
<1> QED
  BY <1>1, <1>2, <1>3, <1>4

\* A node leaves the queue when nothing waits for it there.
LEMMA VisitKeepsInv ==
  ASSUME SchedulerInv, VisitNode
  PROVE  SchedulerInv'
<1> DEFINE node == q[qInd + 1]
<1>1. /\ stage = "SCHEDULING" /\ nI = <<>> /\ q # <<>>
      /\ UNCHANGED <<numTimeslots, stage, slotFlows, packetFlows, q0, nSlot, schedules,
                     scheduleSummary, routeSlot, routingStrings>>
  BY DEF VisitNode, routeVars
<1>2. \/ /\ IsLeaf(node) /\ Visit(TRUE) /\ UNCHANGED <<parent, nI>>
      \/ /\ AllOutlinksScheduled(node) /\ parent' = node
         /\ nI' = Ascending(Transmitters(node, packetFlows)) /\ Visit(TRUE)
      \/ /\ ~AllOutlinksScheduled(node) /\ UNCHANGED <<parent, nI>>
         /\ \E erased \in BOOLEAN : Visit(erased)
  BY DEF VisitNode, NoParentInQ
<1>3. /\ q \in Seq(Nodes) /\ qInd \in 0 .. Len(q) - 1
      /\ packetFlows \in [Nodes -> [Nodes -> Int]]
  BY <1>1 DEF SchedulerInv, SchedulerTypes, SchedulerTypeOK
<1>4. /\ 0 \notin Range(q) /\ 0 \notin Range(q0)
      /\ \A i, j \in Nodes :
           packetFlows[i][j] > 0 /\ AllOutlinksScheduled(j) => j \in Range(q) \cup Range(q0)
  BY <1>1 DEF SchedulerInv, NoLinkForgotten, Range
<1>5. node \in Nodes /\ node # 0 /\ node \in Range(q) /\ qInd + 1 \in 1 .. Len(q)
  <2>1. qInd + 1 \in DOMAIN q /\ qInd + 1 \in 1 .. Len(q)
    BY <1>3
  <2>2. node \in Nodes /\ node \in Range(q)
    BY <1>3, <2>1 DEF Range
  <2> QED
    BY <1>4, <2>1, <2>2
<1>6. /\ q' \in Seq(Nodes)
      /\ Range(q') \subseteq Range(q) /\ Range(q) \subseteq Range(q') \cup {node}
      /\ q' # <<>> => qInd' \in 0 .. Len(q') - 1
  <2>1. PICK erased \in BOOLEAN : Visit(erased)
    BY <1>2
  <2>2. q' = q \/ q' = RemoveAt(q, qInd + 1)
    BY <2>1 DEF Visit
  <2>3. /\ q' \in Seq(Nodes)
        /\ Range(q') \subseteq Range(q) /\ Range(q) \subseteq Range(q') \cup {node}
    <3>1. CASE q' = q
      BY <1>3, <3>1
    <3>2. CASE q' = RemoveAt(q, qInd + 1)
      BY <1>3, <1>5, <3>2, RemovedAt
    <3> QED
      BY <2>2, <3>1, <3>2
  <2>4. ASSUME q' # <<>> PROVE qInd' \in 0 .. Len(q') - 1
    <3>1. qInd' = (qInd + 1) % Len(q')
      BY <2>1, <2>4 DEF Visit
    <3>2. Len(q') \in Nat /\ Len(q') > 0 /\ qInd + 1 \in Int
      <4> DEFINE r == q'
      <4>1. r \in Seq(Nodes) /\ r # <<>>
        BY <2>3, <2>4
      <4> HIDE DEF r
      <4>2. Len(r) \in Nat /\ Len(r) > 0
        BY <4>1
      <4> QED
        BY <1>3, <4>2 DEF r
    <3> QED
      BY <3>1, <3>2
  <2> QED
    BY <2>3, <2>4
<1>7. /\ parent' \in Nodes /\ nI' \in Seq(Nodes) /\ (parent' = 0 => nI' = <<>>)
      /\ 0 \notin Range(nI')
      /\ nI' # <<>> => parent' = node /\ AllOutlinksScheduled(node)
                       /\ Range(nI') = Transmitters(node, packetFlows)
  <2>1. CASE UNCHANGED <<parent, nI>>
    BY <1>1, <2>1 DEF SchedulerInv, SchedulerTypes, SchedulerTypeOK, Range
  <2>2. CASE /\ AllOutlinksScheduled(node) /\ parent' = node
             /\ nI' = Ascending(Transmitters(node, packetFlows))
    <3>1. Transmitters(node, packetFlows) \in SUBSET Nodes
          /\ 0 \notin Transmitters(node, packetFlows)
      BY <1>1, <1>5 DEF Transmitters, SchedulerInv, FlowsKept
    <3> HIDE DEF node
    <3> QED
      BY <1>5, <2>2, <3>1, AscendingNodes
  <2> HIDE DEF node
  <2> QED
    BY <1>2, <2>1, <2>2
<1>8. SchedulerTypes'
  <2>1. SchedulerTypes
    BY DEF SchedulerInv
  <2> QED
    BY <1>1, <1>6, <1>7, <2>1 DEF SchedulerTypes, SchedulerTypeOK
<1>9. NothingScheduled' /\ RoutesLead'
  BY <1>1 DEF SchedulerInv, NothingScheduled, RoutesLead, UnderWay, Routed
<1>10. FlowsKept' /\ SlotsLeft' /\ SchedulesAgree' /\ ReceivesBeforeTransmits'
  BY <1>1, SlotsUntouched DEF UnderWay
<1>11. ReceiversAreDone'
  <2>1. \A n \in Nodes : \A a \in DOMAIN schedules[n] :
          /\ schedules[n][a].slot \in Used
          /\ schedules[n][a].type = "RECEIVE" => AllOutlinksScheduled(n)
    BY DEF SchedulerInv, ReceiversAreDone
  <2> QED
    BY <1>1, <1>7, <2>1 DEF ReceiversAreDone, AllOutlinksScheduled, Used
<1>12. NoLinkForgotten'
  <2>1. ASSUME NEW i \in Nodes, NEW j \in Nodes,
               packetFlows[i][j] > 0, AllOutlinksScheduled(j)
        PROVE  j \in Range(q') \cup Range(q0) \/ (j = parent' /\ i \in Range(nI'))
    <3>1. j # node => j \in Range(q') \cup Range(q0)
      BY <1>4, <1>6, <2>1
    <3>2. i \in Transmitters(node, packetFlows) \/ j # node
      BY <1>3, <2>1 DEF Transmitters
    <3>3. CASE j = node
      <4>1. ~IsLeaf(node) /\ AllOutlinksScheduled(node)
        BY <2>1, <3>2, <3>3 DEF IsLeaf
      <4>2. parent' = node /\ nI' = Ascending(Transmitters(node, packetFlows))
        BY <1>2, <4>1
      <4>3. Range(nI') = Transmitters(node, packetFlows)
        <5>1. Transmitters(node, packetFlows) \in SUBSET Nodes
          BY DEF Transmitters
        <5> HIDE DEF node
        <5> QED
          BY <4>2, <5>1, AscendingNodes
      <4> QED
        BY <3>2, <3>3, <4>2, <4>3
    <3> QED
      BY <3>1, <3>3
  <2>2. 0 \notin Range(q') \cup Range(q0) \cup Range(nI')
    BY <1>4, <1>6, <1>7
  <2>3. parent' = 0 => Range(nI') \subseteq Range(q')
    BY <1>7 DEF Range
  <2> QED
    BY <1>1, <2>1, <2>2, <2>3 DEF NoLinkForgotten, AllOutlinksScheduled, Routed
<1> QED
  BY <1>8, <1>9, <1>10, <1>11, <1>12 DEF SchedulerInv

\* When no node is left in a queue no link is left either: of the nodes that still
\* have one, one sends to none of the others.
LEMMA NextRoundKeepsInv ==
  ASSUME SchedulerInv, NextRound
  PROVE  SchedulerInv'
<1>1. /\ stage = "SCHEDULING" /\ nI = <<>> /\ q = <<>>
      /\ q' = q0 /\ q0' = <<>> /\ qInd' = 0
      /\ stage' = IF q0 = <<>> THEN "ROUTING" ELSE stage
      /\ UNCHANGED <<numTimeslots, slotFlows, packetFlows, nSlot, parent, nI, schedules,
                     scheduleSummary, routeSlot, routingStrings>>
  BY DEF NextRound, routeVars
<1>2. stage' \in {"SCHEDULING", "ROUTING"}
  BY <1>1
<1>3. SchedulerTypes'
  <2>1. SchedulerTypes
    BY DEF SchedulerInv
  <2>2. q0 \in Seq(Nodes) /\ (q0 # <<>> => 0 \in 0 .. Len(q0) - 1)
    BY <2>1 DEF SchedulerTypes, SchedulerTypeOK
  <2> QED
    BY <1>1, <1>2, <2>1, <2>2 DEF SchedulerTypes, SchedulerTypeOK, Stages
<1>4. NothingScheduled' /\ RoutesLead'
  BY <1>1, <1>2 DEF SchedulerInv, NothingScheduled, RoutesLead, UnderWay, Routed
<1>5. FlowsKept' /\ SlotsLeft' /\ SchedulesAgree' /\ ReceivesBeforeTransmits'
  BY <1>1, <1>2, SlotsUntouched DEF UnderWay, Routed
<1>6. ReceiversAreDone'
  BY <1>1 DEF SchedulerInv, ReceiversAreDone, AllOutlinksScheduled, Used
<1>7. NoLinkForgotten'
  <2>1. /\ 0 \notin Range(q0) /\ Range(<<>>) = {}
        /\ \A i, j \in Nodes :
             packetFlows[i][j] > 0 /\ AllOutlinksScheduled(j) => j \in Range(q0)
    BY <1>1 DEF SchedulerInv, NoLinkForgotten, Range
  <2>2. CASE q0 # <<>>
    BY <1>1, <2>1, <2>2 DEF NoLinkForgotten, AllOutlinksScheduled, Routed, Range
  <2>3. CASE q0 = <<>>
    <3> DEFINE S == {i \in Nodes : \E j \in Nodes : packetFlows[i][j] > 0}
    <3>0. \A i, j \in Nodes : packetFlows[i][j] \in Int
      BY DEF SchedulerInv, SchedulerTypes, SchedulerTypeOK
    <3>1. ASSUME NEW i \in Nodes, NEW j \in Nodes, packetFlows[i][j] > 0 PROVE j \in S
      <4>1. ~AllOutlinksScheduled(j)
        BY <2>1, <2>3, <3>1 DEF Range
      <4>2. PICK k \in Nodes : ~(packetFlows[j][k] <= 0)
        BY <4>1 DEF AllOutlinksScheduled
      <4> QED
        BY <3>0, <4>2
    <3>2. \A i, j \in Nodes : packetFlows[i][j] > 0 => slotFlows[i][j] > 0
      BY <1>1 DEF SchedulerInv, FlowsKept
    <3>3. Acyclic(slotFlows)
      BY <1>1 DEF SchedulerInv, FlowsKept, ScheduleableFlows
    <3>4. S = {}
      <4> SUFFICES ASSUME S # {} PROVE FALSE
        OBVIOUS
      <4>1. PICK i \in S : \A j \in S : slotFlows[i][j] = 0
        BY <3>3 DEF Acyclic
      <4>2. PICK j \in Nodes : packetFlows[i][j] > 0
        OBVIOUS
      <4> QED
        BY <3>1, <3>2, <4>1, <4>2
    <3>5. \A i, j \in Nodes : packetFlows[i][j] <= 0
      BY <3>0, <3>4
    <3> QED
      BY <1>1, <2>3, <3>5 DEF NoLinkForgotten
  <2> QED
    BY <2>2, <2>3
<1> QED
  BY <1>3, <1>4, <1>5, <1>6, <1>7 DEF SchedulerInv

-----------------------------------------------------------------------------
(* The routes *)

\* When the rounds are over all slots have been given out, to the links with a flow.
LEMMA LinksGiven ==
  ASSUME SchedulerInv, stage \in Routed
  PROVE  /\ Used = Slots
         /\ \A s \in Slots : LinkOf(s) \in Links
         /\ \A i, j \in Nodes : slotFlows[i][j] > 0 <=> \E s \in Slots : LinkOf(s) = <<i, j>>
<1>1. \A i, j \in Nodes : packetFlows[i][j] <= 0 /\ packetFlows[i][j] \in Int
  BY DEF SchedulerInv, NoLinkForgotten, SchedulerTypes, SchedulerTypeOK
<1>2. \A i, j \in Nodes : Waiting(packetFlows)[i][j] = 0
  BY <1>1 DEF Waiting
<1>3. nSlot = -1
  <2>1. Waiting(packetFlows) \in [Nodes -> [Nodes -> Nat]]
    BY <1>1 DEF Waiting
  <2>2. TotalSlots(Waiting(packetFlows)) = 0
    BY <1>2, <2>1, AllSlotsGiven
  <2> QED
    BY <2>2 DEF SchedulerInv, SlotsLeft, UnderWay, SchedulerTypes, SchedulerTypeOK
<1>4. Used = Slots
  BY <1>3 DEF Used, Slots
<1>5. scheduleSummary \in Seq(Links) /\ slotFlows \in [Nodes -> [Nodes -> Nat]]
  BY DEF SchedulerInv, SchedulerTypes, SchedulerTypeOK
<1>6. \A s \in Slots : LinkOf(s) \in Links
  <2> SUFFICES ASSUME NEW s \in Slots PROVE LinkOf(s) \in Links
    OBVIOUS
  <2>1. s + 1 \in 1 .. Len(scheduleSummary)
    BY <1>5 DEF Slots
  <2> QED
    BY <1>5, <2>1 DEF LinkOf
<1>7. IsFiniteSet(Slots)
  BY <1>5, FS_Interval DEF Slots
<1>8. ASSUME NEW i \in Nodes, NEW j \in Nodes
      PROVE  slotFlows[i][j] > 0 <=> \E s \in Slots : LinkOf(s) = <<i, j>>
  <2>1. slotFlows[i][j] = Cardinality(Given(i, j)) + 0
    BY <1>2 DEF SchedulerInv, SlotsLeft, UnderWay
  <2>2. IsFiniteSet(Given(i, j))
    BY <1>4, <1>7, FS_Subset DEF Given
  <2>3. Cardinality(Given(i, j)) \in Nat /\ (Cardinality(Given(i, j)) = 0 <=> Given(i, j) = {})
    BY <2>2, FS_CardinalityType, FS_EmptySet
  <2>4. slotFlows[i][j] > 0 <=> Given(i, j) # {}
    BY <2>1, <2>3
  <2> QED
    BY <1>4, <2>4 DEF Given
<1> QED
  BY <1>4, <1>6, <1>8

\* When all links have their slots, the superframe brings every packet to a node
\* before it takes it on.
LEMMA LinksInOrder ==
  ASSUME SchedulerInv, stage \in Routed
  PROVE  /\ \A s \in Slots : LinkOf(s) \in Links /\ LinkOf(s)[1] # 0
         /\ \A s \in Slots : LinkOf(s)[2] # 0 =>
              \E t \in Slots : LinkOf(t)[1] = LinkOf(s)[2]
         /\ \A s, t \in Slots : LinkOf(t)[1] = LinkOf(s)[2] => s < t
         /\ \A n \in Nodes : SumFunction(slotFlows[n]) > 0 =>
              \E s \in Slots : LinkOf(s)[1] = n
<1>1. /\ Used = Slots
      /\ \A s \in Slots : LinkOf(s) \in Links
      /\ \A i, j \in Nodes : slotFlows[i][j] > 0 <=> \E s \in Slots : LinkOf(s) = <<i, j>>
  BY LinksGiven
<1>2. slotFlows \in [Nodes -> [Nodes -> Nat]]
  BY DEF SchedulerInv, SchedulerTypes, SchedulerTypeOK
<1>3. ScheduleableFlows(slotFlows)
  BY DEF SchedulerInv, FlowsKept, Routed
<1>4. ASSUME NEW s \in Slots
       PROVE  /\ LinkOf(s)[1] # 0
              /\ LinkOf(s)[2] # 0 => \E t \in Slots : LinkOf(t)[1] = LinkOf(s)[2]
  <2>1. PICK i \in Nodes, j \in Nodes : LinkOf(s) = <<i, j>>
    BY <1>1 DEF Links
  <2>2. slotFlows[i][j] > 0
    BY <1>1, <2>1
  <2>3. i # 0
    BY <1>3, <2>2 DEF ScheduleableFlows
  <2>4. ASSUME j # 0 PROVE \E t \in Slots : LinkOf(t)[1] = j
    <3>1. PICK k \in Nodes : slotFlows[j][k] > 0
      BY <1>3, <2>2, <2>4 DEF ScheduleableFlows
    <3>2. PICK t \in Slots : LinkOf(t) = <<j, k>>
      BY <1>1, <3>1
    <3> QED
      BY <3>2
  <2> QED
    BY <2>1, <2>3, <2>4
<1>5. ASSUME NEW s \in Slots, NEW t \in Slots, LinkOf(t)[1] = LinkOf(s)[2]
       PROVE  s < t
  <2> DEFINE n == LinkOf(t)[1]
  <2>1. n \in Nodes
    BY <1>1 DEF Links
  <2>2. \A u \in Slots, ty \in SlotTypes :
          [slot |-> u, type |-> ty] \in Range(schedules[n]) <=>
            n = LinkOf(u)[IF ty = "TRANSMIT" THEN 1 ELSE 2]
    <3> HIDE DEF n
    <3> QED
      BY <1>1, <2>1 DEF SchedulerInv, SchedulesAgree, Used
  <2>3. /\ [slot |-> t, type |-> "TRANSMIT"] \in Range(schedules[n])
        /\ [slot |-> s, type |-> "RECEIVE"] \in Range(schedules[n])
    <3>1. n = LinkOf(t)[1] /\ n = LinkOf(s)[2]
      BY <1>5
    <3>2. "TRANSMIT" \in SlotTypes /\ "RECEIVE" \in SlotTypes
      BY DEF SlotTypes
    <3> HIDE DEF n
    <3> QED
      BY <2>2, <3>1, <3>2
  <2> HIDE DEF n
  <2>4. PICK b \in DOMAIN schedules[n] : schedules[n][b] = [slot |-> t, type |-> "TRANSMIT"]
    BY <2>3 DEF Range
  <2>5. PICK a \in DOMAIN schedules[n] : schedules[n][a] = [slot |-> s, type |-> "RECEIVE"]
    BY <2>3 DEF Range
  <2>6. schedules[n][a].slot < schedules[n][b].slot
    BY <2>1, <2>4, <2>5 DEF SchedulerInv, ReceivesBeforeTransmits
  <2> QED
    BY <2>4, <2>5, <2>6
<1>6. ASSUME NEW n \in Nodes, SumFunction(slotFlows[n]) > 0
       PROVE  \E s \in Slots : LinkOf(s)[1] = n
  <2>1. slotFlows[n] \in [Nodes -> Nat]
    BY <1>2
  <2>2. PICK j \in Nodes : slotFlows[n][j] > 0
    BY <1>6, <2>1, NodesFinite, SumPositive
  <2>3. PICK s \in Slots : LinkOf(s) = <<n, j>>
    BY <1>1, <2>2
  <2> QED
    BY <2>3
<1> QED
  BY <1>1, <1>4, <1>5, <1>6

\* The first slot in which a node transmits.
Earliest(n, t) ==
  /\ t \in Slots /\ LinkOf(t)[1] = n
  /\ \A u \in Slots : LinkOf(u)[1] = n => t <= u

\* What a node receives after slot s it sends on in its first slot.
LEMMA FirstSlot ==
  ASSUME SchedulerInv, stage \in Routed,
         NEW u \in Slots, LinkOf(u)[2] # 0, NEW s \in Slots, s <= u
  PROVE  \E t \in Slots : /\ u < t /\ Earliest(LinkOf(u)[2], t)
                          /\ NextHop(LinkOf(u)[2], s) = LinkOf(t)[2]
<1> DEFINE n == LinkOf(u)[2]
           From == SlotsFrom(n, s + 1)
<1>1. Slots \subseteq Nat /\ Len(scheduleSummary) \in Nat
  BY DEF Slots, SchedulerInv, SchedulerTypes, SchedulerTypeOK
<1>2. From = {t \in Slots : LinkOf(t)[1] = n}
  <2>1. \A t \in Slots : LinkOf(t)[1] = n => u < t
    BY LinksInOrder
  <2>2. \A t \in Slots : s < t => t \in s + 1 .. Len(scheduleSummary) - 1
    BY <1>1 DEF Slots
  <2>3. \A t \in s + 1 .. Len(scheduleSummary) - 1 : t \in Slots
    BY <1>1 DEF Slots
  <2>4. \A t \in Slots : LinkOf(t)[1] = n => t \in s + 1 .. Len(scheduleSummary) - 1
    BY <1>1, <2>1, <2>2
  <2> QED
    BY <2>3, <2>4 DEF SlotsFrom
<1>3. From # {}
  BY <1>2, LinksInOrder
<1>4. PICK least \in From : \A t \in From : least <= t
  <2>1. From \in SUBSET Nat
    BY <1>1, <1>2
  <2> HIDE DEF From
  <2> QED
    BY <1>3, <2>1, LeastNatural
<1> DEFINE first == CHOOSE t \in From : \A v \in From : t <= v
<1>5. first \in From /\ \A v \in From : first <= v
  <2> HIDE DEF From
  <2> QED
    BY <1>4
<1>6. NextHop(n, s) = LinkOf(first)[2]
  BY <1>3 DEF NextHop
<1>7. first \in Slots /\ u < first
  BY <1>2, <1>5, LinksInOrder
<1>8. Earliest(n, first)
  BY <1>2, <1>5 DEF Earliest
<1> HIDE DEF first
<1> QED
  BY <1>6, <1>7, <1>8

\* A packet that follows the first slots never comes back, so that it is at the sink
\* after at most as many hops as there are nodes.
LEMMA PathReachesSink ==
  ASSUME SchedulerInv, stage \in Routed, NEW s0 \in Slots, NEW path, path = Path(s0)
  PROVE  /\ \A k \in 0 .. NumNodes : path[k] \in Nodes
         /\ path[0] = LinkOf(s0)[1] /\ path[1] = LinkOf(s0)[2] /\ path[NumNodes] = 0
         /\ \A k \in 1 .. NumNodes - 1 : path[k] # 0 =>
              \A s \in Slots : LinkOf(s)[2] = path[k] =>
                \E t \in Slots : s < t /\ LinkOf(t) = <<path[k], path[k + 1]>>
<1> DEFINE x == LinkOf(s0)[2]
           at == Iterated(Hop(s0), x, NumNodes)
           step == Hop(s0)
<1>0. /\ NumNodes \in Nat /\ NumNodes > 0 /\ NoRoute \notin Nodes
      /\ 0 \in Nodes /\ Nodes \subseteq Nat
  BY SchedulerAssumption, NodesFinite
<1>1. Slots \subseteq Nat
  BY DEF Slots, SchedulerInv, SchedulerTypes, SchedulerTypeOK
<1>2. \A s \in Slots : /\ LinkOf(s)[1] \in Nodes \ {0} /\ LinkOf(s)[2] \in Nodes
                       /\ LinkOf(s) = <<LinkOf(s)[1], LinkOf(s)[2]>>
  BY LinksInOrder DEF Links
<1>3. \A n \in Nodes : step[n] = IF n = 0 THEN 0 ELSE NextHop(n, s0)
  BY <1>0 DEF Hop
<1>4. at[0] = x /\ \A k \in 0 .. NumNodes - 1 : at[k + 1] = step[at[k]]
  <2>1. at = [k \in 0 .. NumNodes |-> IF k = 0 THEN x ELSE step[at[k - 1]]]
    <3> HIDE DEF x
    <3> QED
      BY <1>0, IteratedDef
  <2> HIDE DEF at, step, x
  <2>2. \A k \in 0 .. NumNodes : at[k] = IF k = 0 THEN x ELSE step[at[k - 1]]
    BY <2>1
  <2>3. \A k \in 0 .. NumNodes - 1 : /\ k + 1 \in 0 .. NumNodes /\ k + 1 # 0 /\ k + 1 - 1 = k
    BY <1>0
  <2> QED
    BY <1>0, <2>2, <2>3
<1>5. path = [k \in 0 .. NumNodes |-> IF k = 0 THEN LinkOf(s0)[1] ELSE at[k - 1]]
  BY DEF Path
<1> HIDE DEF at, step
\* At at[k] one has arrived in slot u, and has left every node before.
<1> DEFINE Left(k, u) == \A h \in 0 .. k - 1 :
                           \E w \in Slots : w <= u /\ LinkOf(w)[1] = at[h]
           Good(k) == /\ at[k] \in Nodes
                      /\ at[k] = 0 \/ \E u \in Slots : /\ s0 <= u /\ LinkOf(u)[2] = at[k]
                                                       /\ Left(k, u)
<1>6. Good(0)
  BY <1>1, <1>2, <1>4
<1>7. ASSUME NEW k \in 0 .. NumNodes - 1, Good(k) PROVE Good(k + 1)
  <2>1. at[k + 1] = step[at[k]]
    BY <1>4
  <2>2. CASE at[k] = 0
    BY <1>0, <1>3, <2>1, <2>2
  <2>3. CASE at[k] # 0
    <3>1. PICK u \in Slots : s0 <= u /\ LinkOf(u)[2] = at[k] /\ Left(k, u)
      BY <1>7, <2>3
    <3>2. PICK t \in Slots : /\ u < t /\ Earliest(at[k], t)
                             /\ NextHop(at[k], s0) = LinkOf(t)[2]
      BY <2>3, <3>1, FirstSlot
    <3>3. at[k + 1] = LinkOf(t)[2] /\ LinkOf(t)[1] = at[k] /\ at[k + 1] \in Nodes
      BY <1>2, <1>3, <1>7, <2>1, <2>3, <3>2 DEF Earliest
    <3>4. s0 <= t
      BY <1>1, <3>1, <3>2
    <3>5. Left(k + 1, t)
      <4> SUFFICES ASSUME NEW h \in 0 .. k + 1 - 1
                   PROVE  \E w \in Slots : w <= t /\ LinkOf(w)[1] = at[h]
        OBVIOUS
      <4>1. CASE h = k
        BY <1>1, <3>3, <4>1
      <4>2. CASE h # k
        <5>1. h \in 0 .. k - 1
          BY <4>2
        <5>2. PICK w \in Slots : w <= u /\ LinkOf(w)[1] = at[h]
          BY <3>1, <5>1
        <5>3. w \in Nat /\ u \in Nat /\ t \in Nat /\ w <= u /\ u < t
          BY <1>1, <3>2, <5>2
        <5>4. w <= t
          BY ONLY <5>3
        <5> QED
          BY <5>2, <5>4
      <4> QED
        BY <4>1, <4>2
    <3> QED
      BY <3>3, <3>4, <3>5
  <2> QED
    BY <2>2, <2>3
<1>8. \A k \in 0 .. NumNodes : Good(k)
  <2> DEFINE Bad == {k \in 0 .. NumNodes : ~Good(k)}
  <2> HIDE DEF Good
  <2> SUFFICES ASSUME Bad # {} PROVE FALSE
    OBVIOUS
  <2>1. Bad \in SUBSET Nat
    BY <1>0
  <2>2. PICK k \in Bad : \A h \in Bad : k <= h
    <3> HIDE DEF Bad
    <3> QED
      BY <2>1, LeastNatural
  <2>3. k # 0 /\ k \in 0 .. NumNodes
    BY <1>6
  <2>4. k - 1 \in 0 .. NumNodes - 1 /\ k - 1 + 1 = k /\ ~(k <= k - 1) /\ k - 1 \in 0 .. NumNodes
    BY <1>0, <2>3
  <2>5. Good(k - 1)
    BY <2>2, <2>4
  <2>6. Good(k - 1 + 1)
    BY <1>7, <2>4, <2>5
  <2> QED
    BY <2>4, <2>6
<1>9. at[NumNodes - 1] = 0
  <2> DEFINE last == NumNodes - 1
  <2> SUFFICES ASSUME at[last] # 0 PROVE FALSE
    OBVIOUS
  <2>1. last \in 0 .. NumNodes /\ Nodes = 0 .. last
    BY <1>0 DEF Nodes
  <2>2. PICK u \in Slots : LinkOf(u)[2] = at[last] /\ Left(last, u)
    BY <1>8, <2>1
  <2>3. \A k \in Nodes : at[k] \in Nodes \ {0}
    <3> SUFFICES ASSUME NEW k \in Nodes, k # last PROVE at[k] \in Nodes \ {0}
      BY <1>8, <2>1
    <3>1. k \in 0 .. last - 1
      BY <1>0, <2>1
    <3>2. PICK w \in Slots : LinkOf(w)[1] = at[k]
      BY <2>2, <3>1
    <3> QED
      BY <1>2, <3>2
  <2>4. ASSUME NEW h \in Nodes, NEW k \in Nodes, h < k PROVE at[h] # at[k]
    <3>1. k \in 0 .. NumNodes /\ h \in 0 .. k - 1
      BY <1>0, <2>1, <2>4
    <3>2. PICK v \in Slots : LinkOf(v)[2] = at[k] /\ Left(k, v)
      BY <1>8, <2>3, <3>1
    <3>3. PICK w \in Slots : w <= v /\ LinkOf(w)[1] = at[h]
      BY <3>1, <3>2
    <3>4. at[h] = at[k] => v < w
      BY <3>2, <3>3, LinksInOrder
    <3> QED
      BY <1>1, <3>3, <3>4
  <2>5. \A h, k \in Nodes : h # k => at[h] # at[k]
    <3> SUFFICES ASSUME NEW h \in Nodes, NEW k \in Nodes, h # k PROVE at[h] # at[k]
      OBVIOUS
    <3>1. h < k \/ k < h
      BY <1>0
    <3> QED
      BY <2>4, <3>1
  <2> DEFINE T == Nodes \ {0}
             g == [k \in Nodes |-> at[k]]
  <2>6. IsFiniteSet(T) /\ Cardinality(T) < Cardinality(Nodes)
    <3>1. IsFiniteSet(T) /\ Cardinality(T) = Cardinality(Nodes) - 1
      BY <1>0, NodesFinite, FS_RemoveElement
    <3> QED
      BY <1>0, <3>1, NodesFinite
  <2>7. g \in [Nodes -> T]
    BY <2>3
  <2>8. \A h, k \in Nodes : h # k => g[h] # g[k]
    BY <2>5
  <2> HIDE DEF T, g
  <2> QED
    BY <2>6, <2>7, <2>8, NodesFinite, FS_PigeonHole
<1>10. \A k \in 0 .. NumNodes : path[k] = IF k = 0 THEN LinkOf(s0)[1] ELSE at[k - 1]
  BY <1>5
<1>11. ASSUME NEW k \in 0 .. NumNodes PROVE path[k] \in Nodes
  <2>1. CASE k = 0
    BY <1>2, <1>10, <2>1
  <2>2. CASE k # 0
    <3>1. k - 1 \in 0 .. NumNodes
      BY <1>0, <2>2
    <3> QED
      BY <1>8, <1>10, <2>2, <3>1
  <2> QED
    BY <2>1, <2>2
<1>12. ASSUME NEW k \in 1 .. NumNodes - 1, path[k] # 0,
              NEW s \in Slots, LinkOf(s)[2] = path[k]
       PROVE  \E t \in Slots : s < t /\ LinkOf(t) = <<path[k], path[k + 1]>>
  <2>1. /\ k - 1 \in 0 .. NumNodes - 1 /\ k - 1 \in 0 .. NumNodes /\ k - 1 + 1 = k
        /\ k \in 0 .. NumNodes /\ k + 1 \in 0 .. NumNodes
        /\ k # 0 /\ k + 1 # 0 /\ k + 1 - 1 = k
    BY <1>0
  <2>2. path[k] = at[k - 1] /\ path[k + 1] = at[k]
    BY <1>10, <2>1
  <2>3. PICK u \in Slots : s0 <= u /\ LinkOf(u)[2] = at[k - 1]
    BY <1>8, <1>12, <2>1, <2>2
  <2>4. PICK t \in Slots : /\ u < t /\ Earliest(at[k - 1], t)
                           /\ NextHop(at[k - 1], s0) = LinkOf(t)[2]
    BY <1>12, <2>2, <2>3, FirstSlot
  <2>5. at[k] = LinkOf(t)[2] /\ LinkOf(t)[1] = at[k - 1]
    <3>1. at[k] = step[at[k - 1]] /\ at[k - 1] \in Nodes
      BY <1>4, <1>8, <2>1
    <3> QED
      BY <1>3, <1>12, <2>2, <2>4, <3>1 DEF Earliest
  <2>6. s < t
    BY <1>12, <2>2, <2>5, LinksInOrder
  <2> QED
    BY <1>2, <2>2, <2>5, <2>6
<1> QED
  <2>1. /\ NumNodes \in 0 .. NumNodes /\ 0 \in 0 .. NumNodes /\ NumNodes # 0
        /\ 1 \in 0 .. NumNodes /\ 1 # 0 /\ 1 - 1 = 0
    BY <1>0
  <2> QED
    BY <1>4, <1>9, <1>10, <1>11, <1>12, <2>1

\* The first slots lead to the sink.
LEMMA FirstSlotsLead ==
  ASSUME SchedulerInv, stage \in Routed, NEW s0 \in Slots, NEW path, path = Path(s0),
         NEW numHops, numHops = CHOOSE k \in 0 .. NumNodes :
                                  path[k] = 0 /\ \A h \in 0 .. k - 1 : path[h] # 0,
         NEW route, route = [k \in 1 .. numHops |-> path[k]]
  PROVE  route \in Seq(Nodes) /\ LeadsToSink(LinkOf(s0)[1], route)
<1> DEFINE Zeros == {k \in 0 .. NumNodes : path[k] = 0}
           Sink(k) == path[k] = 0 /\ \A h \in 0 .. k - 1 : path[h] # 0
<1>1. NumNodes \in Nat /\ NumNodes > 0
  BY SchedulerAssumption
<1>2. /\ \A k \in 0 .. NumNodes : path[k] \in Nodes
      /\ path[0] # 0 /\ path[NumNodes] = 0
  <2>1. LinkOf(s0)[1] # 0
    BY LinksInOrder
  <2> QED
    BY <2>1, PathReachesSink
<1>3. \E k \in 0 .. NumNodes : Sink(k)
  <2>1. Zeros \in SUBSET Nat /\ Zeros # {}
    BY <1>1, <1>2
  <2>2. PICK k \in Zeros : \A h \in Zeros : k <= h
    <3> HIDE DEF Zeros
    <3> QED
      BY <2>1, LeastNatural
  <2>3. \A h \in 0 .. k - 1 : h \in 0 .. NumNodes /\ ~(k <= h)
    BY <1>1
  <2> QED
    BY <2>2, <2>3
<1>4. numHops \in 0 .. NumNodes /\ Sink(numHops)
  <2> DEFINE All == 0 .. NumNodes
  <2>1. numHops = CHOOSE k \in All : Sink(k)
    OBVIOUS
  <2>2. \E k \in All : Sink(k)
    BY <1>3
  <2> HIDE DEF Sink, All
  <2>3. numHops \in All /\ Sink(numHops)
    BY ONLY <2>1, <2>2
  <2> QED
    BY <2>3 DEF All, Sink
<1>5. numHops \in 1 .. NumNodes /\ numHops \in Nat
  BY <1>1, <1>2, <1>4
<1>6. route \in [1 .. numHops -> Nodes]
  <2>1. \A k \in 1 .. numHops : k \in 0 .. NumNodes
    BY ONLY <1>1, <1>5
  <2> QED
    BY <1>2, <2>1
<1>7. route \in Seq(Nodes) /\ Len(route) = numHops
  BY <1>5, <1>6, FunctionIsSequence
<1>8. route # <<>> /\ route[Len(route)] = 0
  BY SMTT(60), <1>4, <1>5, <1>7
<1>9. ASSUME NEW k \in 1 .. Len(route) - 1, NEW s \in Slots, LinkOf(s)[2] = route[k]
      PROVE  \E t \in Slots : s < t /\ LinkOf(t) = <<route[k], route[k + 1]>>
  <2>1. /\ k \in 1 .. NumNodes - 1 /\ k \in 0 .. numHops - 1
        /\ k \in 1 .. numHops /\ k + 1 \in 1 .. numHops
    BY <1>1, <1>5, <1>7
  <2>2. route[k] = path[k] /\ route[k + 1] = path[k + 1] /\ path[k] # 0
    BY <1>4, <2>1
  <2> QED
    BY <1>9, <2>1, <2>2, PathReachesSink
<1>10. LinkOf(s0) = <<LinkOf(s0)[1], route[1]>>
  <2>1. LinkOf(s0) \in Links
    BY LinksInOrder
  <2>2. route[1] = LinkOf(s0)[2]
    BY <1>5, PathReachesSink
  <2> QED
    BY <2>1, <2>2 DEF Links
<1> QED
  BY <1>7, <1>8, <1>9, <1>10 DEF LeadsToSink

\* One iteration of CalculateSourceRouteStrings never ends without a route.
LEMMA RouteKeepsInv ==
  ASSUME SchedulerInv, CalculateSourceRoute
  PROVE  SchedulerInv'
<1> DEFINE start == LinkOf(routeSlot)[1]
           path == Path(routeSlot)
           numHops == CHOOSE k \in 0 .. NumNodes :
                        path[k] = 0 /\ \A h \in 0 .. k - 1 : path[h] # 0
           route == [k \in 1 .. numHops |-> path[k]]
<1>1. /\ stage = "ROUTING" /\ routeSlot' = routeSlot + 1
      /\ UNCHANGED <<numTimeslots, slotFlows, packetFlows, q, q0, qInd, nSlot, parent, nI,
                     schedules, scheduleSummary>>
  BY DEF CalculateSourceRoute, loopVars
<1>2. /\ routeSlot \in Slots /\ Len(scheduleSummary) \in Nat
      /\ routeSlot + 1 \in 0 .. Len(scheduleSummary)
      /\ \A s \in 0 .. routeSlot : s = routeSlot \/ s \in 0 .. routeSlot - 1
  BY SMTT(60) DEF CalculateSourceRoute, SchedulerInv, SchedulerTypes, SchedulerTypeOK, Slots
<1>3. path[NumNodes] # NoRoute
  <2>1. stage \in Routed
    BY <1>1 DEF Routed
  <2>2. path[NumNodes] = 0
    BY <1>2, <2>1, PathReachesSink
  <2> QED
    BY <2>2, SchedulerAssumption, NodesFinite
<1>4. route \in Seq(Nodes) /\ LeadsToSink(start, route)
  <2>1. stage \in Routed
    BY <1>1 DEF Routed
  <2> HIDE DEF path
  <2>2. path = Path(routeSlot)
    BY DEF path
  <2> HIDE DEF numHops
  <2>3. numHops = CHOOSE k \in 0 .. NumNodes :
                    path[k] = 0 /\ \A h \in 0 .. k - 1 : path[h] # 0
    BY DEF numHops
  <2> HIDE DEF route
  <2>4. route = [k \in 1 .. numHops |-> path[k]]
    BY DEF route
  <2> QED
    BY <1>2, <2>1, <2>2, <2>3, <2>4, FirstSlotsLead
<1>5. /\ stage' = "ROUTING"
      /\ \/ routingStrings[start] # NoRoute /\ UNCHANGED routingStrings
         \/ routingStrings' = [routingStrings EXCEPT ![start] = route]
  BY <1>1, <1>3 DEF CalculateSourceRoute
<1>6. start \in Nodes
  BY <1>1, <1>2, LinksInOrder DEF Routed, Links
<1> HIDE DEF start, route
<1>7. SchedulerTypes /\ RoutesLead
  BY DEF SchedulerInv
<1>8. /\ DOMAIN routingStrings' = Nodes
      /\ \A n \in Nodes : \/ routingStrings'[n] = routingStrings[n]
                          \/ n = start /\ routingStrings'[n] = route
      /\ routingStrings'[start] # NoRoute
  <2>1. route # NoRoute
    BY <1>4, SchedulerAssumption
  <2> QED
    BY <1>5, <1>6, <1>7, <2>1 DEF SchedulerTypes
<1>9. SchedulerTypes'
  <2>1. \A n \in Nodes : routingStrings'[n] = NoRoute \/ routingStrings'[n] \in Seq(Nodes)
    BY <1>4, <1>7, <1>8 DEF SchedulerTypes, SchedulerTypeOK
  <2> QED
    BY <1>1, <1>2, <1>5, <1>7, <1>8, <2>1 DEF SchedulerTypes, SchedulerTypeOK, Stages
<1>10. NothingScheduled'
  BY <1>1, <1>5 DEF SchedulerInv, NothingScheduled, UnderWay, Routed
<1>11. FlowsKept' /\ SlotsLeft' /\ SchedulesAgree' /\ ReceivesBeforeTransmits'
  BY <1>1, <1>5, SlotsUntouched DEF UnderWay, Routed
<1>12. ReceiversAreDone'
  BY <1>1 DEF SchedulerInv, ReceiversAreDone, AllOutlinksScheduled, Used
<1>13. NoLinkForgotten'
  BY <1>1, <1>5 DEF SchedulerInv, NoLinkForgotten, Routed
<1>14. RoutesLead'
  <2>1. /\ Slots' = Slots /\ \A s : LinkOf(s)' = LinkOf(s)
        /\ \A n, r : LeadsToSink(n, r)' <=> LeadsToSink(n, r)
    BY <1>1 DEF Slots, LinkOf, LeadsToSink
  <2>2. \A n \in Nodes : routingStrings'[n] # NoRoute => LeadsToSink(n, routingStrings'[n])
    BY <1>4, <1>7, <1>8 DEF RoutesLead
  <2>3. \A s \in 0 .. routeSlot : routingStrings'[LinkOf(s)[1]] # NoRoute
    <3> SUFFICES ASSUME NEW s \in 0 .. routeSlot, s # routeSlot
                 PROVE  routingStrings'[LinkOf(s)[1]] # NoRoute
      BY <1>8 DEF start
    <3>1. s \in 0 .. routeSlot - 1 /\ s \in Slots
      BY <1>2 DEF Slots
    <3>2. LinkOf(s)[1] \in Nodes
      BY <1>1, <3>1, LinksInOrder DEF Routed, Links
    <3>3. routingStrings[LinkOf(s)[1]] # NoRoute
      BY <1>7, <3>1 DEF RoutesLead
    <3> DEFINE n == LinkOf(s)[1]
    <3> HIDE DEF n
    <3>4. routingStrings'[n] # NoRoute
      BY <1>8, <3>2, <3>3 DEF n
    <3> QED
      BY <3>4 DEF n
  <2>4. \A s \in 0 .. routeSlot' - 1 : s \in 0 .. routeSlot
    <3>1. routeSlot' = routeSlot + 1 /\ routeSlot \in Int
      BY <1>1, <1>2 DEF Slots
    <3> QED
      BY ONLY <3>1
  <2> QED
    BY <1>5, <2>1, <2>2, <2>3, <2>4 DEF RoutesLead
<1> QED
  BY <1>9, <1>10, <1>11, <1>12, <1>13, <1>14 DEF SchedulerInv

LEMMA InstallKeepsInv ==
  ASSUME SchedulerInv, InstallSchedule
  PROVE  SchedulerInv'
<1>1. /\ stage = "ROUTING" /\ stage' = "SCHEDULE_FOUND" /\ routeSlot = Len(scheduleSummary)
      /\ UNCHANGED <<numTimeslots, slotFlows, packetFlows, q, q0, qInd, nSlot, parent, nI,
                     schedules, scheduleSummary, routeSlot, routingStrings>>
  BY DEF InstallSchedule, loopVars, routeVars
<1>2. SchedulerTypes' /\ NothingScheduled'
  BY <1>1 DEF SchedulerInv, SchedulerTypes, SchedulerTypeOK, NothingScheduled, Stages, Results,
              UnderWay, Routed
<1>3. FlowsKept' /\ SlotsLeft' /\ SchedulesAgree' /\ ReceivesBeforeTransmits'
  BY <1>1, SlotsUntouched DEF UnderWay, Routed
<1>4. ReceiversAreDone'
  BY <1>1 DEF SchedulerInv, ReceiversAreDone, AllOutlinksScheduled, Used
<1>6. NoLinkForgotten'
  BY <1>1 DEF SchedulerInv, NoLinkForgotten, Routed
<1>5. RoutesLead'
  <2>1. \A n, r : LeadsToSink(n, r)' <=> LeadsToSink(n, r)
    BY <1>1 DEF Slots, LinkOf, LeadsToSink
  <2> QED
    BY <1>1, <2>1 DEF SchedulerInv, RoutesLead, LinkOf
<1> QED
  BY <1>2, <1>3, <1>4, <1>5, <1>6 DEF SchedulerInv

LEMMA SchedulerUnchanged ==
  ASSUME SchedulerInv, UNCHANGED schedulerVars
  PROVE  SchedulerInv'
<1>1. UNCHANGED <<numTimeslots, stage, slotFlows, packetFlows, q, q0, qInd, nSlot, parent, nI,
                  schedules, scheduleSummary, routeSlot, routingStrings>>
  BY DEF schedulerVars
<1>2. SchedulerTypes' /\ NothingScheduled'
  BY <1>1 DEF SchedulerInv, SchedulerTypes, SchedulerTypeOK, NothingScheduled
<1>3. FlowsKept'
  BY <1>1 DEF SchedulerInv, FlowsKept
<1>4. SlotsLeft'
  <2>1. \A i, j \in Nodes : Given(i, j)' = Given(i, j)
    BY <1>1 DEF Given, Used, LinkOf
  <2> QED
    BY <1>1, <2>1 DEF SchedulerInv, SlotsLeft
<1>5. SchedulesAgree' /\ ReceivesBeforeTransmits'
  BY <1>1 DEF SchedulerInv, SchedulesAgree, ReceivesBeforeTransmits, LinkOf
<1>6. ReceiversAreDone'
  BY <1>1 DEF SchedulerInv, ReceiversAreDone, AllOutlinksScheduled, Used
<1>8. NoLinkForgotten'
  BY <1>1 DEF SchedulerInv, NoLinkForgotten, AllOutlinksScheduled
<1>7. RoutesLead'
  <2>1. \A n, r : LeadsToSink(n, r)' <=> LeadsToSink(n, r)
    BY <1>1 DEF Slots, LinkOf, LeadsToSink
  <2> QED
    BY <1>1, <2>1 DEF SchedulerInv, RoutesLead, LinkOf
<1> QED
  BY <1>2, <1>3, <1>4, <1>5, <1>6, <1>7, <1>8 DEF SchedulerInv

-----------------------------------------------------------------------------
(* What the invariant means *)

LEMMA InvAccountsForSlots ==
  ASSUME SchedulerInv
  PROVE  SlotsAccounted
<1> SUFFICES ASSUME stage \in UnderWay, NEW i \in Nodes, NEW j \in Nodes
             PROVE  /\ slotFlows[i][j] = Cardinality(Given(i, j)) + Waiting(packetFlows)[i][j]
                    /\ stage # "SCHEDULING" => Waiting(packetFlows)[i][j] = 0
  BY DEF SlotsAccounted, UnderWay, Routed, Given, Used, Waiting
<1>1. slotFlows[i][j] = Cardinality(Given(i, j)) + Waiting(packetFlows)[i][j]
  BY DEF SchedulerInv, SlotsLeft
<1>2. ASSUME stage # "SCHEDULING" PROVE Waiting(packetFlows)[i][j] = 0
  <2>1. packetFlows[i][j] <= 0 /\ packetFlows[i][j] \in Int
    BY <1>2 DEF SchedulerInv, NoLinkForgotten, UnderWay, SchedulerTypes, SchedulerTypeOK
  <2> QED
    BY <2>1 DEF Waiting
<1> QED
  BY <1>1, <1>2

LEMMA InvFindsRoutes ==
  ASSUME SchedulerInv
  PROVE  RoutesFollowSchedule
<1>1. stage # "NO_ROUTE"
  BY DEF SchedulerInv, NothingScheduled
<1>2. ASSUME stage = "SCHEDULE_FOUND", NEW n \in Nodes \ {0}, SumFunction(slotFlows[n]) > 0
      PROVE  /\ routingStrings[n] # NoRoute
             /\ Last(<<n>> \o routingStrings[n]) = 0
             /\ \A k \in 2 .. Len(<<n>> \o routingStrings[n]) - 1 : \A s \in Slots :
                  LinkOf(s) = <<(<<n>> \o routingStrings[n])[k - 1], (<<n>> \o routingStrings[n])[k]>> =>
                    \E t \in s + 1 .. Len(scheduleSummary) - 1 :
                      LinkOf(t) = <<(<<n>> \o routingStrings[n])[k], (<<n>> \o routingStrings[n])[k + 1]>>
  <2> DEFINE r == routingStrings[n]
             route == <<n>> \o r
  <2>1. /\ routeSlot = Len(scheduleSummary)
        /\ \A s \in 0 .. routeSlot - 1 : routingStrings[LinkOf(s)[1]] # NoRoute
    BY <1>2 DEF SchedulerInv, RoutesLead
  <2>2. PICK u \in Slots : LinkOf(u)[1] = n
    BY <1>2, LinksInOrder DEF Routed
  <2>3. r # NoRoute
    BY <2>1, <2>2 DEF Slots
  <2>4. r \in Seq(Nodes) /\ LeadsToSink(n, r)
    BY <2>3 DEF SchedulerInv, SchedulerTypes, SchedulerTypeOK, RoutesLead
  <2> HIDE DEF r
  <2>5. Len(r) \in Nat /\ Len(r) > 0 /\ r[Len(r)] = 0
    BY <2>4 DEF LeadsToSink
  <2>6. /\ Len(route) = Len(r) + 1
        /\ \A k \in 1 .. Len(r) : route[k + 1] = r[k]
    BY <2>4
  <2>7. Last(route) = 0
    <3>1. Len(r) \in 1 .. Len(r)
      BY <2>5
    <3> HIDE DEF route
    <3> QED
      BY <2>5, <2>6, <3>1 DEF Last
  <2>8. ASSUME NEW k \in 2 .. Len(route) - 1, NEW s \in Slots,
               LinkOf(s) = <<route[k - 1], route[k]>>
        PROVE  \E t \in s + 1 .. Len(scheduleSummary) - 1 :
                 LinkOf(t) = <<route[k], route[k + 1]>>
    <3>1. /\ k - 1 \in 1 .. Len(r) - 1 /\ k - 1 \in 1 .. Len(r) /\ k \in 1 .. Len(r)
          /\ k - 1 + 1 = k
      BY <2>5, <2>6
    <3>2. route[k] = r[k - 1] /\ route[k + 1] = r[k]
      BY <2>6, <3>1
    <3> HIDE DEF route
    <3>3. LinkOf(s)[2] = r[k - 1]
      BY <2>8, <3>2
    <3>4. PICK t \in Slots : s < t /\ LinkOf(t) = <<r[k - 1], r[k]>>
      BY <2>4, <3>1, <3>3 DEF LeadsToSink
    <3>5. t \in s + 1 .. Len(scheduleSummary) - 1
      BY <3>4 DEF Slots
    <3> QED
      BY <3>2, <3>4, <3>5
  <2> QED
    BY <2>3, <2>7, <2>8 DEF r
<1> QED
  BY <1>1, <1>2 DEF RoutesFollowSchedule, Slots

-----------------------------------------------------------------------------
(* The inductive invariant of the whole *)

TdmaInv ==
  /\ SchedulerInv
  /\ SolverTypes
  /\ inReach \subseteq Nodes \X Nodes
  /\ packetsPerSlot \in Nat \ {0}
  /\ optSelect = "TDMA_MIN_HOP" =>
       SolverTree /\ SolverFlows /\ (stage # "OPTIMIZING" => pending = <<>>)
  /\ SlotsCarryFlows

\* What is rounded up twice is not less than before.
LEMMA CeilDivTwice ==
  ASSUME NEW a \in Nat, NEW b \in Nat \ {0}, NEW c \in Nat \ {0},
         NEW u, u = (a + b - 1) \div b, NEW v, v = (u + c - 1) \div c
  PROVE  a <= v * c * b
<1>1. u \in Nat /\ a <= u * b
  BY CeilDivBounds
<1>2. v \in Nat /\ u <= v * c
  BY <1>1, CeilDivBounds
<1>3. u * b <= (v * c) * b
  <2>1. \A x, y, z \in Nat : x <= y => x * z <= y * z
    OBVIOUS
  <2>2. v * c \in Nat /\ b \in Nat
    BY <1>2
  <2> QED
    BY <1>1, <1>2, <2>1, <2>2
<1>4. u * b \in Nat /\ v * c * b \in Nat
  BY <1>1, <1>2
<1> QED
  BY <1>1, <1>3, <1>4

LEMMA TdmaInvInit ==
  ASSUME Init
  PROVE  TdmaInv
<1>0. NumNodes \in Nat /\ NumNodes > 0 /\ 0 \in Nodes
  BY SchedulerAssumption, NodesFinite
<1>1. SchedulerInv
  BY FlowAssumption, InitScheduler DEF Init
<1>2. /\ inReach \in Networks[optSelect] /\ pending = <<0>>
      /\ hopCount = [n \in Nodes |-> IF n = 0 THEN 0 ELSE NumNodes]
      /\ flows = [i \in Nodes |-> [j \in Nodes |-> 0]]
  BY SolverNodes DEF Init, Solver!SolverInit, Solver!Matrix, Solver!NoHops
<1>3. SolverTypes /\ SolverTree
  BY <1>0, <1>2 DEF SolverTypes, SolverTree
<1>7. SolverFlows
  <2>1. \A n \in Nodes : ~Sends(n)
    BY <1>2 DEF Sends
  <2>2. Processed = {0}
    BY <1>0, <2>1 DEF Processed
  <2>3. Cardinality(Processed) = 1
    BY <2>2, FS_Singleton
  <2>4. \A p \in Processed : p \in Range(pending)
    BY <1>2, <2>2 DEF Range
  <2> QED
    BY <1>0, <1>2, <2>1, <2>2, <2>3, <2>4 DEF SolverFlows
<1>4. inReach \subseteq Nodes \X Nodes
  BY <1>2, FlowAssumption DEF Init
<1>5. packetsPerSlot \in Nat \ {0}
  BY LpAssumption DEF Init
<1>6. stage = "OPTIMIZING"
  BY DEF Init, SchedulerInit
<1> QED
  BY <1>1, <1>3, <1>4, <1>5, <1>6, <1>7 DEF TdmaInv, SlotsCarryFlows, PacketsFitSlots

\* The slots of a solution carry it.
LEMMA StartCarriesFlows ==
  ASSUME SolverTypes, packetsPerSlot \in Nat \ {0}, UNCHANGED <<optSelect, packetsPerSlot>>,
         NEW W \in [Nodes -> [Nodes -> Nat]], flows' = W, NEW F, slotFlows' = F,
         \/ optSelect = "TDMA_MIN_HOP" /\ W = flows /\ F = Solver!SolveTdma(packetsPerSlot)
         \/ optSelect = "TDMA_GOLDSMITH" /\ F = Lp!GoldsmithSlots(W, packetsPerSlot)
         \/ optSelect = "TDMA_CONVEX_INT" /\ F = Lp!ConvexSlots(W, packetsPerSlot)
  PROVE  SlotsCarryFlows'
<1> DEFINE pps == packetsPerSlot
<1> SUFFICES ASSUME optSelect # "TDMA_CONVEX_INT" \/ pps = 1, NEW i \in Nodes, NEW j \in Nodes
             PROVE  W[i][j] <= F[i][j] * pps * FlowUnit'
  BY DEF SlotsCarryFlows, PacketsFitSlots
<1>1. W[i][j] \in Nat /\ PktUnits \in Nat \ {0} /\ Lp!Nodes = Nodes
  BY LpAssumption DEF Lp!Nodes, Nodes
<1>2. CASE optSelect = "TDMA_MIN_HOP" /\ W = flows /\ F = Solver!SolveTdma(pps)
  <2>1. F[i][j] = (W[i][j] + pps - 1) \div pps /\ FlowUnit' = 1
    BY <1>2, SolverNodes DEF Solver!SolveTdma, Solver!Matrix, FlowUnit
  <2>2. F[i][j] \in Nat /\ W[i][j] <= F[i][j] * pps
    BY <1>1, <2>1, CeilDivBounds
  <2> QED
    BY <2>1, <2>2
<1>3. CASE optSelect = "TDMA_GOLDSMITH" /\ F = Lp!GoldsmithSlots(W, pps)
  <2> DEFINE u == (W[i][j] + PktUnits - 1) \div PktUnits
  <2>1. F[i][j] = (u + pps - 1) \div pps /\ FlowUnit' = PktUnits
    BY <1>1, <1>3 DEF Lp!GoldsmithSlots, Lp!CeilDiv, FlowUnit
  <2> HIDE DEF u
  <2>2. u = (W[i][j] + PktUnits - 1) \div PktUnits
    BY DEF u
  <2> QED
    BY <1>1, <2>1, <2>2, CeilDivTwice
<1>4. CASE optSelect = "TDMA_CONVEX_INT" /\ F = Lp!ConvexSlots(W, pps)
  <2> DEFINE u == (W[i][j] + pps - 1) \div pps
  <2>1. F[i][j] = (u + pps - 1) \div pps /\ FlowUnit' = 1 /\ pps = 1
    BY <1>1, <1>4 DEF Lp!ConvexSlots, Lp!CeilDiv, FlowUnit
  <2> HIDE DEF u
  <2>2. u = (W[i][j] + pps - 1) \div pps
    BY DEF u
  <2> QED
    BY <1>1, <2>1, <2>2
<1> QED
  BY <1>2, <1>3, <1>4

LEMMA SolverUnchanged ==
  ASSUME SolverTypes, UNCHANGED <<inReach, pending, hopCount, flows>>
  PROVE  /\ SolverTypes' /\ (SolverTree => SolverTree') /\ (SolverFlows => SolverFlows')
<1>1. SolverTypes' /\ (SolverTree => SolverTree')
  BY DEF SolverTypes, SolverTree, Sends
<1>2. \A n \in Nodes : (Sends(n)' <=> Sends(n)) /\ Into(n)' = Into(n)
  BY DEF Sends, Into
<1>3. Processed' = Processed
  BY <1>2 DEF Processed
<1>4. \A n \in Nodes : (Conserved(n) => Conserved(n)') /\ (OneParent(n) => OneParent(n)')
  BY <1>2 DEF Conserved, OneParent
<1>5. SolverFlows => SolverFlows'
  BY <1>2, <1>3, <1>4 DEF SolverFlows
<1> QED
  BY <1>1, <1>5

LEMMA TdmaInvNext ==
  ASSUME \A W \in BitFlows \cup PacketFlows : Acyclic(W), TdmaInv, [Next]_vars
  PROVE  TdmaInv'
<1>1. /\ SchedulerInv /\ SolverTypes /\ inReach \subseteq Nodes \X Nodes
      /\ packetsPerSlot \in Nat \ {0}
      /\ optSelect = "TDMA_MIN_HOP" =>
           SolverTree /\ SolverFlows /\ (stage # "OPTIMIZING" => pending = <<>>)
      /\ SlotsCarryFlows
  BY DEF TdmaInv
<1>2. CASE SolveMinHop /\ UNCHANGED schedulerVars
  <2>1. /\ optSelect = "TDMA_MIN_HOP" /\ UNCHANGED <<optSelect, packetsPerSlot>>
        /\ UNCHANGED stage
    BY <1>2 DEF SolveMinHop, schedulerVars
  <2>2. stage = "OPTIMIZING" => Solver!BreadthFirstMinHopFlowSolver \/ UNCHANGED solver
    BY <1>2 DEF SolveMinHop
  <2>3. stage # "OPTIMIZING" => UNCHANGED solver
    BY <1>1, <1>2 DEF SolveMinHop, Solver!BreadthFirstMinHopFlowSolver
  <2>4. SchedulerInv'
    BY <1>1, <1>2, SchedulerUnchanged
  <2>5. CASE UNCHANGED solver
    BY <1>1, <1>2, <2>1, <2>4, <2>5, SolverUnchanged
    DEF TdmaInv, SlotsCarryFlows, PacketsFitSlots, FlowUnit, solver, schedulerVars
  <2>6. CASE Solver!BreadthFirstMinHopFlowSolver /\ stage = "OPTIMIZING"
    <3>1. SolverTypes' /\ SolverTree' /\ UNCHANGED inReach
      BY <1>1, <2>1, <2>6, SolverStep DEF Solver!BreadthFirstMinHopFlowSolver
    <3>2. SolverFlows'
      BY <1>1, <2>1, <2>6, SolverFlowsStep
    <3> QED
      BY <1>1, <2>1, <2>4, <2>6, <3>1, <3>2 DEF TdmaInv, SlotsCarryFlows, PacketsFitSlots
  <2> QED
    BY <2>2, <2>3, <2>5, <2>6
<1>3. CASE /\ optSelect = "TDMA_MIN_HOP" /\ pending = <<>>
           /\ StartScheduling(Solver!SolveTdma(packetsPerSlot))
           /\ UNCHANGED solver /\ UNCHANGED <<optSelect, packetsPerSlot>>
  <2> DEFINE F == Solver!SolveTdma(packetsPerSlot)
  <2>1. UNCHANGED <<inReach, pending, hopCount, flows>>
    BY <1>3 DEF solver
  <2>2. ScheduleableFlows(F)
    BY <1>1, <1>3, SolverScheduleable
  <2>3. StartScheduling(F)
    BY <1>3
  <2>4. SchedulerInv' /\ slotFlows' = F
    <3> HIDE DEF F
    <3> QED
      BY <1>1, <2>2, <2>3, StartKeepsInv DEF StartScheduling
  <2>5. SolverTypes' /\ SolverTree' /\ SolverFlows'
    BY <1>1, <1>3, <2>1, SolverUnchanged
  <2>6. SlotsCarryFlows'
    <3>1. flows \in [Nodes -> [Nodes -> Nat]]
      BY <1>1 DEF SolverTypes
    <3> QED
      BY <1>1, <1>3, <2>1, <2>4, <3>1, StartCarriesFlows
  <2> QED
    BY <1>1, <1>3, <2>1, <2>4, <2>5, <2>6 DEF TdmaInv
<1>4. ASSUME SolveGoldsmith \/ SolveConvexInt
      PROVE  TdmaInv'
  <2>1. /\ optSelect # "TDMA_MIN_HOP"
        /\ UNCHANGED <<optSelect, packetsPerSlot, inReach, pending, hopCount>>
    BY <1>4 DEF SolveGoldsmith, SolveConvexInt
  <2>2. PICK W, F :
          /\ W \in BitFlows \cup PacketFlows
          /\ flows' = W /\ StartScheduling(F)
          /\ \/ /\ optSelect = "TDMA_GOLDSMITH" /\ F = Lp!GoldsmithSlots(W, packetsPerSlot)
                /\ Lp!GoldsmithSolution(W, inReach, numTimeslots)
             \/ /\ optSelect = "TDMA_CONVEX_INT" /\ F = Lp!ConvexSlots(W, packetsPerSlot)
                /\ Lp!ConvexSolution(W, inReach, numTimeslots)
    BY <1>4 DEF SolveGoldsmith, SolveConvexInt
  <2>3. W \in [Nodes -> [Nodes -> Nat]] /\ Acyclic(W)
    BY <2>2, FlowAssumption
  <2>4. ScheduleableFlows(F)
    BY <1>1, <2>2, <2>3, LpSlotsScheduleable
  <2>5. SchedulerInv' /\ slotFlows' = F
    BY <1>1, <2>2, <2>4, StartKeepsInv DEF StartScheduling
  <2>6. SolverTypes'
    BY <1>1, <2>1, <2>2, <2>3 DEF SolverTypes
  <2>7. SlotsCarryFlows'
    BY <1>1, <2>1, <2>2, <2>3, <2>5, StartCarriesFlows
  <2> QED
    BY <1>1, <2>1, <2>5, <2>6, <2>7 DEF TdmaInv
<1>5. CASE Schedule
  <2>1. UNCHANGED <<optSelect, packetsPerSlot, inReach, pending, hopCount, flows>>
    BY <1>5 DEF Schedule, solver
  <2>2. SchedulerInv'
    BY <1>1, <1>5, PopulateKeepsInv, VisitKeepsInv, NextRoundKeepsInv, RouteKeepsInv,
       InstallKeepsInv
    DEF Schedule, ScheduleAndRouteTdma
  <2>3. stage # "OPTIMIZING" /\ UNCHANGED slotFlows
    BY <1>5 DEF Schedule, ScheduleAndRouteTdma, PopulateNodeSchedule, VisitNode, NextRound,
                CalculateSourceRoute, InstallSchedule
  <2>4. SolverTypes' /\ (SolverTree => SolverTree') /\ (SolverFlows => SolverFlows')
    BY <1>1, <2>1, SolverUnchanged
  <2>5. SlotsCarryFlows'
    BY <1>1, <2>1, <2>3 DEF SlotsCarryFlows, PacketsFitSlots, FlowUnit
  <2> QED
    BY <1>1, <2>1, <2>2, <2>3, <2>4, <2>5 DEF TdmaInv
<1>6. CASE UNCHANGED vars
  <2>1. UNCHANGED <<optSelect, packetsPerSlot, inReach, pending, hopCount, flows>>
        /\ UNCHANGED schedulerVars
    BY <1>6 DEF vars, solver
  <2>2. SchedulerInv'
    BY <1>1, <2>1, SchedulerUnchanged
  <2> QED
    BY <1>1, <2>1, <2>2, SolverUnchanged
    DEF TdmaInv, SlotsCarryFlows, PacketsFitSlots, FlowUnit, schedulerVars
<1> QED
  <2>1. SolveMinHop => (SolveMinHop /\ UNCHANGED schedulerVars)
          \/ /\ optSelect = "TDMA_MIN_HOP" /\ pending = <<>>
             /\ StartScheduling(Solver!SolveTdma(packetsPerSlot))
             /\ UNCHANGED solver /\ UNCHANGED <<optSelect, packetsPerSlot>>
    BY DEF SolveMinHop
  <2> QED
    BY <1>2, <1>3, <1>4, <1>5, <1>6, <2>1 DEF Next

-----------------------------------------------------------------------------
(* The links of the schedule *)

\* A slot is given to two nodes of which one reaches the other.
ReachInv ==
  stage # "OPTIMIZING" =>
    \A i, j \in Nodes : slotFlows[i][j] > 0 => <<i, j>> \in inReach \/ <<j, i>> \in inReach

LEMMA LpLinksInReach ==
  ASSUME NEW W \in [Nodes -> [Nodes -> Nat]], NEW perSlot \in Nat \ {0}, NEW links, NEW slots,
         NEW F, NEW i \in Nodes, NEW j \in Nodes, F[i][j] > 0,
         \/ Lp!ConvexSolution(W, links, slots) /\ F = Lp!ConvexSlots(W, perSlot)
         \/ Lp!GoldsmithSolution(W, links, slots) /\ F = Lp!GoldsmithSlots(W, perSlot)
  PROVE  <<i, j>> \in links
<1>1. Lp!Nodes = Nodes
  BY DEF Lp!Nodes, Nodes
<1>2. \A a \in Nat, b \in Nat \ {0} :
        Lp!CeilDiv(a, b) \in Nat /\ (Lp!CeilDiv(a, b) = 0 <=> a = 0)
  BY CeilDivBounds DEF Lp!CeilDiv
<1>3. PktUnits \in Nat \ {0} /\ W[i][j] \in Nat
  BY LpAssumption
<1>4. W[i][j] # 0
  <2>1. CASE F = Lp!ConvexSlots(W, perSlot)
    <3>1. F[i][j] = Lp!CeilDiv(Lp!CeilDiv(W[i][j], perSlot), perSlot)
      BY <1>1, <2>1 DEF Lp!ConvexSlots
    <3> QED
      BY <1>2, <1>3, <3>1
  <2>2. CASE F = Lp!GoldsmithSlots(W, perSlot)
    <3>1. F[i][j] = Lp!CeilDiv(Lp!CeilDiv(W[i][j], PktUnits), perSlot)
      BY <1>1, <2>2 DEF Lp!GoldsmithSlots
    <3> QED
      BY <1>2, <1>3, <3>1
  <2> QED
    BY <2>1, <2>2
<1>5. Lp!MayFlow(links, i, j)
  BY <1>1, <1>3, <1>4 DEF Lp!ConvexSolution, Lp!GoldsmithSolution, Lp!MeetsConstraints
<1> QED
  BY <1>5 DEF Lp!MayFlow

LEMMA ReachInvNext ==
  ASSUME TdmaInv, ReachInv, [Next]_vars
  PROVE  ReachInv'
<1>1. CASE UNCHANGED <<stage, slotFlows, inReach>>
  BY <1>1 DEF ReachInv
<1>2. CASE Schedule
  <2>1. stage # "OPTIMIZING" /\ UNCHANGED slotFlows
    BY <1>2 DEF Schedule, ScheduleAndRouteTdma, PopulateNodeSchedule, VisitNode, NextRound,
                CalculateSourceRoute, InstallSchedule
  <2>2. UNCHANGED inReach
    BY <1>2 DEF Schedule, solver
  <2> QED
    BY <2>1, <2>2 DEF ReachInv
<1>3. CASE SolveMinHop /\ ~UNCHANGED <<stage, slotFlows, inReach>>
  <2>1. /\ optSelect = "TDMA_MIN_HOP" /\ UNCHANGED inReach
        /\ slotFlows' = Solver!SolveTdma(packetsPerSlot)
    BY <1>3 DEF SolveMinHop, StartScheduling, schedulerVars, solver,
                Solver!BreadthFirstMinHopFlowSolver
  <2> SUFFICES ASSUME NEW i \in Nodes, NEW j \in Nodes, slotFlows'[i][j] > 0
               PROVE  <<j, i>> \in inReach
    BY <2>1 DEF ReachInv
  <2>2. slotFlows'[i][j] = (flows[i][j] + packetsPerSlot - 1) \div packetsPerSlot
    BY <2>1, SolverNodes DEF Solver!SolveTdma, Solver!Matrix
  <2>3. flows[i][j] > 0
    <3>1. flows[i][j] \in Nat /\ packetsPerSlot \in Nat \ {0}
      BY DEF TdmaInv, SolverTypes
    <3> QED
      BY <2>2, <3>1, CeilDivBounds
  <2>4. i # 0
    BY <2>1, <2>3 DEF TdmaInv, SolverTree
  <2>5. OneParent(i)
    BY <2>1, <2>3, <2>4 DEF TdmaInv, SolverFlows, Sends
  <2> QED
    BY <2>3, <2>5 DEF OneParent
<1>4. CASE SolveGoldsmith \/ SolveConvexInt
  <2>1. PICK W, F :
          /\ W \in BitFlows \cup PacketFlows /\ StartScheduling(F)
          /\ \/ Lp!ConvexSolution(W, inReach, numTimeslots) /\ F = Lp!ConvexSlots(W, packetsPerSlot)
             \/ Lp!GoldsmithSolution(W, inReach, numTimeslots) /\ F = Lp!GoldsmithSlots(W, packetsPerSlot)
    BY <1>4 DEF SolveGoldsmith, SolveConvexInt
  <2>2. W \in [Nodes -> [Nodes -> Nat]] /\ packetsPerSlot \in Nat \ {0}
    BY <2>1, FlowAssumption DEF TdmaInv
  <2>3. slotFlows' = F /\ UNCHANGED inReach
    BY <1>4, <2>1 DEF StartScheduling, SolveGoldsmith, SolveConvexInt
  <2>4. \A i, j \in Nodes : F[i][j] > 0 => <<i, j>> \in inReach
    BY <2>1, <2>2, LpLinksInReach
  <2> QED
    BY <2>3, <2>4 DEF ReachInv
<1>5. CASE UNCHANGED vars
  BY <1>1, <1>5 DEF vars, schedulerVars, solver
<1> QED
  BY <1>1, <1>2, <1>3, <1>4, <1>5 DEF Next

-----------------------------------------------------------------------------
(* Slots enough to pass on what a node receives *)

\* One packet in a slot, and flows in packets: the linear program in bits may give
\* a node more slots to receive the parts of packets in than it needs to send them
\* together.
WholePackets == optSelect \in {"TDMA_MIN_HOP", "TDMA_CONVEX_INT"} /\ packetsPerSlot = 1

\* A node that sends at all has a slot for every packet it receives and for its own.
PassesOn(F, n) == SumFunction(F[n]) >= 1 + SumFunction([i \in Nodes |-> F[i][n]])

EverythingPassed ==
  stage # "OPTIMIZING" /\ WholePackets =>
    \A n \in Nodes \ {0} : SumFunction(slotFlows[n]) > 0 => PassesOn(slotFlows, n)

\* The integer program asks for it.
LEMMA ProgramPasses ==
  ASSUME NumPktsNode > 0, NEW W \in [Nodes -> [Nodes -> Nat]], NEW links, NEW slots,
         Lp!ConvexSolution(W, links, slots)
  PROVE  /\ Lp!ConvexSlots(W, 1) = W
         /\ \A n \in Nodes \ {0} : PassesOn(W, n)
<1>1. Lp!Nodes = Nodes
  BY DEF Lp!Nodes, Nodes
<1>2. Lp!ConvexSlots(W, 1) = W
  <2>1. \A a \in Nat : Lp!CeilDiv(a, 1) = a
    BY DEF Lp!CeilDiv
  <2>2. \A i, j \in Nodes : Lp!CeilDiv(Lp!CeilDiv(W[i][j], 1), 1) = W[i][j]
    BY <2>1
  <2> QED
    BY <1>1, <2>2 DEF Lp!ConvexSlots
<1>3. ASSUME NEW n \in Nodes \ {0}
      PROVE  PassesOn(W, n)
  <2> DEFINE into == [i \in Nodes |-> W[i][n]]
  <2>1. SumFunction(into) + NumPktsNode = SumFunction(W[n])
    <3>1. Lp!SumFlowsIn(W, n) + NumPktsNode = Lp!SumFlowsOut(W, n)
      BY <1>1 DEF Lp!ConvexSolution, Lp!MeetsConstraints
    <3>2. Lp!SumFlowsIn(W, n) = SumFunction(into)
      BY <1>1, LpSum DEF Lp!SumFlowsIn
    <3>3. Lp!SumFlowsOut(W, n) = SumFunction(W[n])
      BY LpSum DEF Lp!SumFlowsOut
    <3> HIDE DEF into
    <3> QED
      BY <3>1, <3>2, <3>3
  <2>2. SumFunction(into) \in Nat
    <3>1. into \in [Nodes -> Nat]
      OBVIOUS
    <3> HIDE DEF into
    <3> QED
      BY <3>1, NodeSums
  <2>3. NumPktsNode \in Nat
    BY LpAssumption
  <2>4. SumFunction(W[n]) >= 1 + SumFunction(into)
    <3> HIDE DEF into
    <3> QED
      BY <2>1, <2>2, <2>3
  <2> QED
    BY <2>4 DEF PassesOn
<1> QED
  BY <1>2, <1>3

\* The flows of the minimum hop optimizer are conserved.
LEMMA TreePasses ==
  ASSUME SolverTypes, SolverFlows, SolverTree
  PROVE  /\ Solver!SolveTdma(1) = flows
         /\ \A n \in Nodes \ {0} : SumFunction(flows[n]) > 0 => PassesOn(flows, n)
<1>1. flows \in [Nodes -> [Nodes -> Nat]]
  BY DEF SolverTypes
<1>2. Solver!SolveTdma(1) = flows
  <2>1. \A a \in Nat : (a + 1 - 1) \div 1 = a
    OBVIOUS
  <2>2. \A i, j \in Nodes : (flows[i][j] + 1 - 1) \div 1 = flows[i][j]
    BY <1>1, <2>1
  <2>3. Solver!SolveTdma(1) = [i \in Nodes |-> [j \in Nodes |-> (flows[i][j] + 1 - 1) \div 1]]
    BY SolverNodes DEF Solver!SolveTdma, Solver!Matrix
  <2> QED
    BY <1>1, <2>2, <2>3
<1>3. ASSUME NEW n \in Nodes \ {0}, SumFunction(flows[n]) > 0
      PROVE  PassesOn(flows, n)
  <2>1. flows[n] \in [Nodes -> Nat] /\ Into(n) \in [Nodes -> Nat]
    BY <1>1 DEF Into
  <2>2. Sends(n)
    BY <1>3, <2>1, NodesFinite, SumPositive DEF Sends
  <2>3. SumFunction(flows[n]) = 1 + SumFunction(Into(n)) /\ SumFunction(Into(n)) \in Nat
    BY <2>1, <2>2, NodeSums DEF SolverFlows, Conserved
  <2>4. SumFunction(flows[n]) >= 1 + SumFunction(Into(n))
    BY <2>3
  <2> QED
    BY <2>4 DEF PassesOn, Into
<1> QED
  BY <1>2, <1>3

LEMMA PassedNext ==
  ASSUME NumPktsNode > 0, TdmaInv, EverythingPassed, [Next]_vars
  PROVE  EverythingPassed'
<1>1. CASE UNCHANGED <<stage, slotFlows, optSelect, packetsPerSlot>>
  BY <1>1 DEF EverythingPassed, WholePackets, PassesOn
<1>2. CASE Schedule
  <2>1. stage # "OPTIMIZING" /\ UNCHANGED slotFlows
    BY <1>2 DEF Schedule, ScheduleAndRouteTdma, PopulateNodeSchedule, VisitNode, NextRound,
                CalculateSourceRoute, InstallSchedule
  <2>2. UNCHANGED <<optSelect, packetsPerSlot>>
    BY <1>2 DEF Schedule
  <2> QED
    BY <2>1, <2>2 DEF EverythingPassed, WholePackets, PassesOn
<1>3. CASE SolveMinHop /\ ~UNCHANGED <<stage, slotFlows, optSelect, packetsPerSlot>>
  <2>1. /\ optSelect = "TDMA_MIN_HOP" /\ UNCHANGED <<optSelect, packetsPerSlot>>
        /\ slotFlows' = Solver!SolveTdma(packetsPerSlot)
    BY <1>3 DEF SolveMinHop, StartScheduling, schedulerVars
  <2>2. SolverTypes /\ SolverFlows /\ SolverTree
    BY <2>1 DEF TdmaInv
  <2>3. WholePackets' => packetsPerSlot = 1
    BY <2>1 DEF WholePackets
  <2>4. ASSUME packetsPerSlot = 1
        PROVE  \A n \in Nodes \ {0} : SumFunction(slotFlows'[n]) > 0 => PassesOn(slotFlows', n)
    <3>1. slotFlows' = flows
      BY <2>1, <2>2, <2>4, TreePasses
    <3> QED
      BY <2>2, <3>1, TreePasses
  <2> QED
    BY <2>3, <2>4 DEF EverythingPassed, PassesOn
<1>4. CASE SolveGoldsmith
  BY <1>4 DEF SolveGoldsmith, EverythingPassed, WholePackets
<1>5. CASE SolveConvexInt
  <2>1. PICK W \in PacketFlows : /\ Lp!ConvexSolution(W, inReach, numTimeslots)
                                 /\ StartScheduling(Lp!ConvexSlots(W, packetsPerSlot))
    BY <1>5 DEF SolveConvexInt
  <2>2. UNCHANGED packetsPerSlot /\ W \in [Nodes -> [Nodes -> Nat]]
    BY <1>5, FlowAssumption DEF SolveConvexInt
  <2>3. slotFlows' = Lp!ConvexSlots(W, packetsPerSlot)
    BY <2>1 DEF StartScheduling
  <2>4. ASSUME packetsPerSlot = 1
        PROVE  \A n \in Nodes \ {0} : PassesOn(slotFlows', n)
    <3>1. slotFlows' = W
      BY <2>1, <2>2, <2>3, <2>4, ProgramPasses
    <3> QED
      BY <2>1, <2>2, <3>1, ProgramPasses
  <2>5. WholePackets' => packetsPerSlot = 1
    BY <2>2 DEF WholePackets
  <2> QED
    BY <2>4, <2>5 DEF EverythingPassed, PassesOn
<1>6. CASE UNCHANGED vars
  BY <1>1, <1>6 DEF vars, schedulerVars
<1> QED
  BY <1>1, <1>2, <1>3, <1>4, <1>5, <1>6 DEF Next

\* The slots in which a node receives and those in which it transmits.
Received(n) == {s \in Slots : LinkOf(s)[2] = n}
Transmitted(n) == {s \in Slots : LinkOf(s)[1] = n}

LEMMA SlotsOfNode ==
  ASSUME SchedulerInv, stage \in Routed, NEW n \in Nodes
  PROVE  /\ IsFiniteSet(Received(n)) /\ IsFiniteSet(Transmitted(n))
         /\ Cardinality(Transmitted(n)) = SumFunction(slotFlows[n])
         /\ Cardinality(Received(n)) = SumFunction([i \in Nodes |-> slotFlows[i][n]])
<1>1. /\ Used = Slots /\ IsFiniteSet(Nodes)
      /\ \A s \in Slots : LinkOf(s) \in Links
  BY LinksGiven, NodesFinite
<1>2. slotFlows \in [Nodes -> [Nodes -> Nat]]
  BY DEF SchedulerInv, SchedulerTypes, SchedulerTypeOK
<1>3. ASSUME NEW i \in Nodes, NEW j \in Nodes
      PROVE  /\ IsFiniteSet(Given(i, j)) /\ Cardinality(Given(i, j)) = slotFlows[i][j]
             /\ Given(i, j) = {s \in Slots : LinkOf(s) = <<i, j>>}
  <2>1. slotFlows[i][j] = Cardinality(Given(i, j)) + Waiting(packetFlows)[i][j]
    BY DEF SchedulerInv, SlotsLeft, UnderWay
  <2>2. Waiting(packetFlows)[i][j] = 0
    <3>1. packetFlows[i][j] <= 0 /\ packetFlows[i][j] \in Int
      BY DEF SchedulerInv, NoLinkForgotten, SchedulerTypes, SchedulerTypeOK
    <3> QED
      BY <3>1 DEF Waiting
  <2>3. IsFiniteSet(Slots)
    <3>1. Len(scheduleSummary) \in Nat
      BY DEF SchedulerInv, SchedulerTypes, SchedulerTypeOK
    <3> QED
      BY <3>1, FS_Interval DEF Slots
  <2>4. IsFiniteSet(Given(i, j)) /\ Given(i, j) = {s \in Slots : LinkOf(s) = <<i, j>>}
    BY <1>1, <2>3, FS_Subset DEF Given
  <2>5. Cardinality(Given(i, j)) \in Nat
    BY <2>4, FS_CardinalityType
  <2> QED
    BY <2>1, <2>2, <2>4, <2>5
<1>4. /\ IsFiniteSet(Transmitted(n))
      /\ Cardinality(Transmitted(n)) = SumFunction(slotFlows[n])
  <2> DEFINE G == [j \in Nodes |-> Given(n, j)]
             f == slotFlows[n]
  <2>1. f \in [Nodes -> Nat] /\ \A j \in Nodes : IsFiniteSet(G[j]) /\ Cardinality(G[j]) = f[j]
    BY <1>2, <1>3
  <2>2. \A i, j \in Nodes : i # j => G[i] \cap G[j] = {}
    BY <1>3
  <2>3. UNION {G[j] : j \in Nodes} = Transmitted(n)
    BY <1>1, <1>3 DEF Transmitted, Links
  <2> HIDE DEF G, f
  <2>4. IsFiniteSet(UNION {G[j] : j \in Nodes})
        /\ Cardinality(UNION {G[j] : j \in Nodes}) = SumFunction(f)
    BY <1>1, <2>1, <2>2, SharesAddUp
  <2> QED
    BY <2>3, <2>4 DEF f
<1>5. /\ IsFiniteSet(Received(n))
      /\ Cardinality(Received(n)) = SumFunction([i \in Nodes |-> slotFlows[i][n]])
  <2> DEFINE G == [i \in Nodes |-> Given(i, n)]
             f == [i \in Nodes |-> slotFlows[i][n]]
  <2>1. f \in [Nodes -> Nat] /\ \A i \in Nodes : IsFiniteSet(G[i]) /\ Cardinality(G[i]) = f[i]
    BY <1>2, <1>3
  <2>2. \A i, j \in Nodes : i # j => G[i] \cap G[j] = {}
    BY <1>3
  <2>3. UNION {G[i] : i \in Nodes} = Received(n)
    BY <1>1, <1>3 DEF Received, Links
  <2> HIDE DEF G, f
  <2>4. IsFiniteSet(UNION {G[i] : i \in Nodes})
        /\ Cardinality(UNION {G[i] : i \in Nodes}) = SumFunction(f)
    BY <1>1, <2>1, <2>2, SharesAddUp
  <2> QED
    BY <2>3, <2>4 DEF f
<1> QED
  BY <1>4, <1>5

\* A node with slots of its own has one more of them than slots to receive in.
LEMMA MoreToTransmit ==
  ASSUME SchedulerInv, stage \in Routed, EverythingPassed, WholePackets,
         NEW n \in Nodes \ {0}, Transmitted(n) # {}
  PROVE  1 + Cardinality(Received(n)) <= Cardinality(Transmitted(n))
<1>1. /\ IsFiniteSet(Received(n)) /\ IsFiniteSet(Transmitted(n))
      /\ Cardinality(Transmitted(n)) = SumFunction(slotFlows[n])
      /\ Cardinality(Received(n)) = SumFunction([i \in Nodes |-> slotFlows[i][n]])
  BY SlotsOfNode
<1>2. Cardinality(Transmitted(n)) \in Nat /\ Cardinality(Transmitted(n)) # 0
      /\ Cardinality(Received(n)) \in Nat
  BY <1>1, FS_CardinalityType, FS_EmptySet
<1>3. PassesOn(slotFlows, n)
  BY <1>1, <1>2 DEF EverythingPassed, Routed
<1> QED
  BY <1>1, <1>2, <1>3 DEF PassesOn

-----------------------------------------------------------------------------
(* The theorems.  The flows of the minimum hop optimizer have no cycle; those *)
(* of the linear programs are assumed to have none.                           *)

\* Nothing but these facts is needed of the steps.
LEMMA TdmaInvMeans ==
  TdmaInv => /\ TypeOK /\ SlotsAccounted /\ SchedulesAgree /\ ReceivesBeforeTransmits
             /\ RoutesFollowSchedule /\ SlotsCarryFlows /\ FlowsFormTree
<1> SUFFICES ASSUME TdmaInv
             PROVE  /\ TypeOK /\ SlotsAccounted /\ SchedulesAgree /\ ReceivesBeforeTransmits
                    /\ RoutesFollowSchedule /\ SlotsCarryFlows /\ FlowsFormTree
  OBVIOUS
<1>1. SchedulerInv /\ SolverTypes /\ SlotsCarryFlows
  BY DEF TdmaInv
<1>2. TypeOK
  BY SolverNodes DEF TdmaInv, SchedulerInv, SchedulerTypes, SolverTypes, TypeOK,
                     Solver!SolverTypeOK, Solver!NoHops
<1>3. SchedulesAgree /\ ReceivesBeforeTransmits
  BY <1>1 DEF SchedulerInv
<1>4. FlowsFormTree
  BY <1>1, FlowsMakeTree DEF TdmaInv, FlowsFormTree
<1> QED
  BY <1>1, <1>2, <1>3, <1>4, InvAccountsForSlots, InvFindsRoutes

LEMMA TdmaInvAlways ==
  ASSUME \A W \in BitFlows \cup PacketFlows : Acyclic(W)
  PROVE  Spec => []TdmaInv
<1>1. Init => TdmaInv
  BY TdmaInvInit
<1>2. TdmaInv /\ [Next]_vars => TdmaInv'
  BY TdmaInvNext
<1> QED
  BY <1>1, <1>2, PTL DEF Spec

\* Every variable of the optimizer and of the scheduler keeps its type; above all no
\* slot index and no queue index leaves its range.
THEOREM TypesAreRight ==
  ASSUME \A W \in BitFlows \cup PacketFlows : Acyclic(W)
  PROVE  Spec => []TypeOK
BY TdmaInvAlways, TdmaInvMeans, PTL

\* PopulateNodeSchedule loses no slot of a link and gives none twice, and when the
\* loops of FlowMatrixToTdmaSchedule end, every link has all its slots.
THEOREM EverySlotIsAccounted ==
  ASSUME \A W \in BitFlows \cup PacketFlows : Acyclic(W)
  PROVE  Spec => []SlotsAccounted
BY TdmaInvAlways, TdmaInvMeans, PTL

\* In every slot the schedules that the nodes are given name one transmitter and
\* one receiver, and each of them is in ascending order, as ProcessLink needs it.
THEOREM SchedulesAlwaysAgree ==
  ASSUME \A W \in BitFlows \cup PacketFlows : Acyclic(W)
  PROVE  Spec => []SchedulesAgree
BY TdmaInvAlways, TdmaInvMeans, PTL

\* Giving out the slots from the sink outwards makes a node receive everything
\* before it transmits.
THEOREM NodesReceiveFirst ==
  ASSUME \A W \in BitFlows \cup PacketFlows : Acyclic(W)
  PROVE  Spec => []ReceivesBeforeTransmits
BY TdmaInvAlways, TdmaInvMeans, PTL

\* CalculateSourceRouteStrings finds a route to the sink for every node with a flow,
\* and each of its hops has a slot after every one that brings the packet.
THEOREM RoutesReachTheSink ==
  ASSUME \A W \in BitFlows \cup PacketFlows : Acyclic(W)
  PROVE  Spec => []RoutesFollowSchedule
BY TdmaInvAlways, TdmaInvMeans, PTL

\* Rounding up, the optimizers give a link slots enough for its flow; the integer
\* program does so for one packet in a slot.
THEOREM SlotsAreEnough ==
  ASSUME \A W \in BitFlows \cup PacketFlows : Acyclic(W)
  PROVE  Spec => []SlotsCarryFlows
BY TdmaInvAlways, TdmaInvMeans, PTL

\* The flows of BreadthFirstMinHopFlowSolver conserve packets and form a tree in
\* which every node that can reach the sink has one parent.
THEOREM MinHopFlowsFormTree ==
  ASSUME \A W \in BitFlows \cup PacketFlows : Acyclic(W)
  PROVE  Spec => []FlowsFormTree
BY TdmaInvAlways, TdmaInvMeans, PTL

\* With one packet in a slot, the slots that the minimum hop optimizer and the integer
\* program give a node are enough to pass on, in the same superframe, a packet of its
\* own and one for every slot in which it receives.
THEOREM SlotsForEveryPacket ==
  ASSUME \A W \in BitFlows \cup PacketFlows : Acyclic(W), NumPktsNode > 0
  PROVE  Spec => []EverythingPassed
<1>1. Init => EverythingPassed
  BY DEF Init, SchedulerInit, EverythingPassed
<1>2. TdmaInv /\ EverythingPassed /\ [Next]_vars => EverythingPassed'
  BY PassedNext
<1> QED
  BY <1>1, <1>2, TdmaInvAlways, PTL DEF Spec
=============================================================================
