------------------------- MODULE FieldLayoutProofs -------------------------
(***************************************************************************)
(* Proofs about the fading and the transmit powers of a field, for every   *)
(* number of nodes, every set of places and every fading drawn.            *)
(***************************************************************************)
EXTENDS FieldLayout, TLAPS

Places == Int \X Int

LEMMA FieldTypes ==
  /\ NumNodes \in Nat \ {0}
  /\ Xs \X Ys \subseteq Places /\ SinkLocation \in Places
  /\ ReferenceDistance \in Nat /\ ReferenceLoss \in Int /\ Sensitivity \in Int
  /\ Shadowing \subseteq Int
<1>1. 0 .. 99 \subseteq Int
  OBVIOUS
<1>2. Xs \X Ys \subseteq Places
  BY <1>1, FieldAssumption DEF Places
<1>3. SinkLocation \in Places
  BY <1>1, FieldAssumption DEF Places
<1> QED BY <1>2, <1>3, FieldAssumption

-----------------------------------------------------------------------------
(* Two passes over the allocator *)

LEMMA SmallRemainder ==
  ASSUME NEW n \in Nat \ {0}, NEW k \in 0 .. n - 1
  PROVE  k % n = k
OBVIOUS

\* A pass over the list of the allocator returns it as it is, and ends where it
\* has begun.
LEMMA PassOverAllocator ==
  ASSUME allocated \in Seq(Places), Len(allocated) = NumNodes, current = 1
  PROVE  /\ GetNext(NumNodes) = [i \in Indices |-> allocated[i]]
         /\ NextAfter(NumNodes) = 1
<1>1. NumNodes \in Nat \ {0}
  BY FieldTypes
<1>2. \A i \in Indices : ((current + i - 2) % Len(allocated)) + 1 = i
  <2> TAKE i \in Indices
  <2>1. i - 1 \in 0 .. NumNodes - 1 /\ current + i - 2 = i - 1
    BY <1>1 DEF Indices
  <2>2. (i - 1) % NumNodes = i - 1
    BY <1>1, <2>1, SmallRemainder
  <2>3. (current + i - 2) % Len(allocated) = i - 1
    BY <2>1, <2>2, Zenon
  <2> QED BY <2>1, <2>3 DEF Indices
<1>3. GetNext(NumNodes) = [i \in Indices |-> allocated[i]]
  BY <1>2 DEF GetNext, Indices
<1>4. NextAfter(NumNodes) = 1
  <2>1. current + NumNodes - 1 = NumNodes
    BY <1>1
  <2>2. NumNodes % NumNodes = 0
    BY <1>1
  <2> QED BY <2>1, <2>2 DEF NextAfter
<1> QED BY <1>3, <1>4

-----------------------------------------------------------------------------
(* The inductive invariant *)

\* The list is whole once all nodes are placed, and no pass leaves the allocator
\* in the middle of it.
AllocatorInv ==
  /\ allocated \in Seq(Places)
  /\ stage \notin {"PLACING", "ABORTED"} => Len(allocated) = NumNodes /\ current = 1

\* The table holds what was drawn for the places allocated.
FadingInv ==
  stage \in {"FADED", "INSTALLED", "POWERED"} =>
    /\ drawn \in [Pairs -> Shadowing]
    /\ lookup = RecordAll([i \in Indices |-> allocated[i]], drawn)

\* The devices are at these places, in this order.
DeviceInv ==
  stage \in {"INSTALLED", "POWERED"} => mobility = [i \in Indices |-> allocated[i]]

PowersInv ==
  stage = "POWERED" => txPwrDbm = [i \in Indices |-> [j \in Indices |-> LinkPower(i, j)]]

FieldInv ==
  /\ stage \in {"PLACING", "ABORTED", "PLACED", "FADED", "INSTALLED", "POWERED"}
  /\ AllocatorInv /\ FadingInv /\ DeviceInv /\ PowersInv

LEMMA FieldInit == Init => FieldInv
<1> SUFFICES ASSUME Init PROVE FieldInv
  OBVIOUS
<1>1. <<SinkLocation>> \in Seq(Places)
  BY FieldTypes
<1> QED BY <1>1 DEF Init, FieldInv, AllocatorInv, FadingInv, DeviceInv, PowersInv

LEMMA FieldNext == FieldInv /\ [Next]_fieldVars => FieldInv'
<1> SUFFICES ASSUME FieldInv, [Next]_fieldVars PROVE FieldInv'
  OBVIOUS
<1> USE DEF FieldInv
<1>1. CASE PlaceNode
  <2>1. stage = "PLACING" /\ current' = 1
        /\ stage' = IF Len(allocated') = NumNodes THEN "PLACED" ELSE stage
    BY <1>1 DEF PlaceNode
  <2>2. allocated' \in Seq(Places)
    <3>1. PICK location \in Xs \X Ys : allocated' = Append(allocated, location)
      BY <1>1 DEF PlaceNode
    <3> QED BY <3>1, FieldTypes DEF AllocatorInv
  <2> QED BY <2>1, <2>2 DEF AllocatorInv, FadingInv, DeviceInv, PowersInv
<1>2. CASE GenerateNewShadowingValues
  <2>1. /\ stage = "PLACED" /\ stage' = "FADED" /\ allocated' = allocated
        /\ current' = NextAfter(NumNodes)
        /\ \E values \in [Pairs -> Shadowing] :
             lookup' = RecordAll(GetNext(NumNodes), values) /\ drawn' = values
    BY <1>2 DEF GenerateNewShadowingValues
  <2>2. /\ GetNext(NumNodes) = [i \in Indices |-> allocated[i]]
        /\ NextAfter(NumNodes) = 1
    BY <2>1, PassOverAllocator DEF AllocatorInv
  <2>3. FadingInv'
    <3>1. drawn' \in [Pairs -> Shadowing]
          /\ lookup' = RecordAll([i \in Indices |-> allocated[i]], drawn')
      BY <2>1, <2>2
    <3> QED BY <2>1, <3>1 DEF FadingInv
  <2> QED BY <2>1, <2>2, <2>3 DEF AllocatorInv, DeviceInv, PowersInv
<1>3. CASE SetDeviceConstantPosition
  <2>1. /\ stage = "FADED" /\ stage' = "INSTALLED"
        /\ UNCHANGED <<allocated, lookup, drawn>>
        /\ current' = NextAfter(NumNodes)
        /\ mobility' = InstalledAt(GetNext(NumNodes))
    BY <1>3 DEF SetDeviceConstantPosition
  <2>2. /\ GetNext(NumNodes) = [i \in Indices |-> allocated[i]]
        /\ NextAfter(NumNodes) = 1
    BY <2>1, PassOverAllocator DEF AllocatorInv
  <2>3. mobility' = [i \in Indices |-> allocated[i]]
    BY <2>1, <2>2 DEF InstalledAt
  <2>4. FadingInv'
    BY <2>1 DEF FadingInv
  <2> QED BY <2>1, <2>2, <2>3, <2>4 DEF AllocatorInv, DeviceInv, PowersInv
<1>4. CASE CalculateTxPowers
  <2>1. /\ stage = "INSTALLED" /\ stage' = "POWERED"
        /\ UNCHANGED <<allocated, current, lookup, mobility, drawn>>
        /\ txPwrDbm' = [i \in Indices |-> [j \in Indices |-> LinkPower(i, j)]]
    BY <1>4 DEF CalculateTxPowers
  <2>2. FadingInv'
    BY <2>1 DEF FadingInv
  <2>3. PowersInv'
    BY <2>1 DEF PowersInv, LinkPower, PowerFor, RxPower
  <2> QED BY <2>1, <2>2, <2>3 DEF AllocatorInv, DeviceInv
<1>5. CASE UNCHANGED fieldVars
  BY <1>5 DEF fieldVars, AllocatorInv, FadingInv, DeviceInv, PowersInv,
              LinkPower, PowerFor, RxPower
<1>6. CASE CouldNotPlaceNode
  BY <1>6 DEF CouldNotPlaceNode, AllocatorInv, FadingInv, DeviceInv, PowersInv
<1> QED BY <1>1, <1>2, <1>3, <1>4, <1>5, <1>6 DEF Next

LEMMA FieldInvariance == FieldSpec => []FieldInv
BY FieldInit, FieldNext, PTL DEF FieldSpec

-----------------------------------------------------------------------------
(* Fading *)

\* Every link has a key in the table; if no other link has the same, its value is
\* the one drawn for its two nodes.
LEMMA LookedUpAsDrawn ==
  ASSUME FieldInv, stage \in {"INSTALLED", "POWERED"}
  PROVE  LinksFadeAsDrawn
<1> DEFINE places == [i \in Indices |-> allocated[i]]
           keys == [p \in Pairs |-> KeysOf(places[p[1]], places[p[2]])]
<1>1. mobility = places /\ lookup = RecordAll(places, drawn)
  BY DEF FieldInv, FadingInv, DeviceInv
<1>2. lookup = [key \in UNION {keys[p] : p \in Pairs} |->
                  drawn[LastPair({p \in Pairs : key \in keys[p]})]]
  BY <1>1 DEF RecordAll
<1>3. \A p \in Pairs : keys[p] = {Key(mobility[p[1]], mobility[p[2]]),
                                  Key(mobility[p[2]], mobility[p[1]])}
  BY <1>1 DEF KeysOf
<1> HIDE DEF keys
<1>4. \A l \in Links : <<l[1], l[2]>> \in Pairs \/ <<l[2], l[1]>> \in Pairs
  BY FieldTypes DEF Links, Pairs, Indices
<1>5. \A l \in Links : Key(mobility[l[1]], mobility[l[2]]) \in DOMAIN lookup
  <2> TAKE l \in Links
  <2>1. CASE <<l[1], l[2]>> \in Pairs
    BY <1>2, <1>3, <2>1
  <2>2. CASE <<l[2], l[1]>> \in Pairs
    BY <1>2, <1>3, <2>2
  <2> QED BY <1>4, <2>1, <2>2
<1>6. ASSUME KeysDistinct, NEW p \in Pairs
      PROVE  /\ lookup[Key(mobility[p[1]], mobility[p[2]])] = drawn[p]
             /\ lookup[Key(mobility[p[2]], mobility[p[1]])] = drawn[p]
  <2> DEFINE key(l) == Key(mobility[l[1]], mobility[l[2]])
             back(l) == <<l[2], l[1]>>
  <2>1. \A q \in Pairs : /\ q \in Links /\ back(q) \in Links
                         /\ back(q) # p /\ back(p) # q
                         /\ q # p => back(q) # back(p)
    BY FieldTypes DEF Pairs, Links, Indices
  <2>2. \A k, l \in Links : k # l => key(k) # key(l)
    BY <1>6 DEF KeysDistinct
  <2>3. \A q \in Pairs : keys[q] = {key(q), key(back(q))}
    BY <1>3
  <2> HIDE DEF key, back
  <2>4. ASSUME NEW k \in {key(p), key(back(p))}
        PROVE  {q \in Pairs : k \in keys[q]} = {p}
    BY <2>1, <2>2, <2>3, <2>4
  <2>5. LastPair({p}) = p
    <3>1. p[1] * NumNodes + p[2] <= p[1] * NumNodes + p[2]
      BY FieldTypes DEF Pairs, Indices
    <3> QED BY <3>1 DEF LastPair
  <2>6. \A k \in {key(p), key(back(p))} : lookup[k] = drawn[p]
    BY <1>2, <2>3, <2>4, <2>5
  <2> QED BY <2>6 DEF key, back
<1> QED BY <1>5, <1>6 DEF LinksFadeAsDrawn

\* A link between two devices fades as drawn for them: the devices are where the
\* fading was drawn for, and the key of a link is in the table (the two passes over
\* the position allocator, GenerateNewShadowingValues and DoCalcRxPower).
THEOREM FadingIsTheOneDrawn == FieldSpec => []LinksFadeAsDrawn
<1>1. FieldInv => LinksFadeAsDrawn
  BY LookedUpAsDrawn DEF LinksFadeAsDrawn
<1> QED BY <1>1, FieldInvariance, PTL

-----------------------------------------------------------------------------
(* Transmit powers *)

\* The distance of two places does not depend on the direction.
LEMMA DistanceIsSymmetric ==
  ASSUME NEW a \in Places, NEW b \in Places
  PROVE  SquaredDistance(a, b) \in Int /\ SquaredDistance(a, b) = SquaredDistance(b, a)
<1>1. \A u, v \in Int : (u - v) * (u - v) = (v - u) * (v - u) /\ (u - v) * (u - v) \in Int
  OBVIOUS
<1>2. a[1] \in Int /\ a[2] \in Int /\ b[1] \in Int /\ b[2] \in Int
  BY DEF Places
<1> QED BY <1>1, <1>2 DEF SquaredDistance

\* What is lost between two places is lost of any power.
LEMMA LossDoesNotDependOnPower ==
  ASSUME NEW a \in Places, NEW b \in Places, NEW tx \in Int, lookup[Key(a, b)] \in Int
  PROVE  RxPower(0, a, b) \in Int /\ RxPower(tx, a, b) = tx + RxPower(0, a, b)
BY FieldTypes, DistanceIsSymmetric DEF RxPower

\* The power found for a link reaches the sensitivity of either end
\* (Isa100Helper::CalculateTxPowers).
THEOREM PowersReach == FieldSpec => []PowersReachBothWays
<1>1. ASSUME FieldInv, stage = "POWERED", KeysDistinct, NEW l \in Links
      PROVE  RxPower(txPwrDbm[l[1]][l[2]], mobility[l[1]], mobility[l[2]]) = Sensitivity
  <2> DEFINE i == l[1]
             j == l[2]
             a == mobility[i]
             b == mobility[j]
  <2>1. i \in Indices /\ j \in Indices /\ i # j /\ i \in Int /\ j \in Int
    BY FieldTypes DEF Links, Indices
  <2>2. a \in Places /\ b \in Places
    <3>1. mobility = [k \in Indices |-> allocated[k]] /\ allocated \in Seq(Places)
          /\ Len(allocated) = NumNodes
      BY <1>1 DEF FieldInv, DeviceInv, AllocatorInv
    <3> QED BY <2>1, <3>1 DEF Indices
  <2>3. lookup[Key(a, b)] \in Int /\ lookup[Key(a, b)] = lookup[Key(b, a)]
    <3>1. \A p \in Pairs : /\ lookup[Key(mobility[p[1]], mobility[p[2]])] = drawn[p]
                           /\ lookup[Key(mobility[p[2]], mobility[p[1]])] = drawn[p]
      BY <1>1, LookedUpAsDrawn DEF LinksFadeAsDrawn
    <3>2. drawn \in [Pairs -> Shadowing]
      BY <1>1 DEF FieldInv, FadingInv
    <3>3. <<i, j>> \in Pairs \/ <<j, i>> \in Pairs
      BY <2>1 DEF Pairs
    <3> QED BY <3>1, <3>2, <3>3, FieldTypes
  <2>4. txPwrDbm[i][j] = IF i < j THEN PowerFor(i, j) ELSE PowerFor(j, i)
    BY <1>1, <2>1 DEF FieldInv, PowersInv, LinkPower
  <2>5. RxPower(0, a, b) \in Int /\ RxPower(0, b, a) = RxPower(0, a, b)
    BY <2>2, <2>3, FieldTypes, DistanceIsSymmetric DEF RxPower
  <2>6. txPwrDbm[i][j] = Sensitivity - RxPower(0, a, b)
    BY <2>4, <2>5 DEF PowerFor
  <2>7. Sensitivity \in Int
    BY FieldTypes
  <2> QED BY <2>2, <2>3, <2>5, <2>6, <2>7, LossDoesNotDependOnPower
<1>2. FieldInv => PowersReachBothWays
  BY <1>1 DEF PowersReachBothWays
<1> QED BY <1>2, FieldInvariance, PTL
=============================================================================
