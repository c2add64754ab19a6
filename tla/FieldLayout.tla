----------------------------- MODULE FieldLayout -----------------------------
(***************************************************************************)
(* Where the nodes of a field are and what their links lose: the random    *)
(* locations (helper/isa100-helper-locations.cc), the shadowing the path   *)
(* loss model draws for them (FishLogDistanceLossModel in                  *)
(* model/fish-propagation-loss-model.cc) and the transmit powers that      *)
(* follow (Isa100Helper::CalculateTxPowers), in the order of               *)
(* examples/isa100-random-net.cc.  Locations are in whole metres, to which *)
(* the loss model truncates them; z is 0.                                  *)
(***************************************************************************)
EXTENDS Integers, Sequences

CONSTANTS
  NumNodes,         \* the sink and the field nodes
  Xs, Ys,           \* coordinates the random variables return
  SinkLocation,     \* sinkLocation
  MinNodeSpacing,   \* minNodeSpacing
  ReferenceDistance, ReferenceLoss, Sensitivity,
  Shadowing         \* values the normal variable returns

ASSUME FieldAssumption ==
  /\ NumNodes \in Nat \ {0}
  /\ Xs \subseteq 0 .. 99 /\ Ys \subseteq 0 .. 99
  /\ SinkLocation \in (0 .. 99) \X (0 .. 99)
  /\ MinNodeSpacing \in Nat /\ ReferenceDistance \in Nat
  /\ {ReferenceLoss, Sensitivity} \cup Shadowing \subseteq Int

VARIABLES
  stage,     \* "PLACING", "ABORTED", "PLACED", "FADED", "INSTALLED" or "POWERED"
  allocated, \* the list of the position allocator
  current,   \* index in it of the next location GetNext returns
  lookup,    \* m_shadowingLookup
  mobility,  \* the location of every device
  txPwrDbm,  \* m_txPwrDbm
  drawn      \* history: the value drawn for each pair of nodes

fieldVars == <<stage, allocated, current, lookup, mobility, txPwrDbm, drawn>>

\* Node i of the code is element i + 1 of the lists.
Indices == 1 .. NumNodes
Pairs   == {p \in Indices \X Indices : p[1] < p[2]}
Links   == {l \in Indices \X Indices : l[1] # l[2]}

-----------------------------------------------------------------------------
(* Locations *)

SquaredDistance(a, b) == (a[1] - b[1]) * (a[1] - b[1]) + (a[2] - b[2]) * (a[2] - b[2])

\* The locations a new one is compared with: the corner of the field and the field
\* nodes, but not the sink.
CheckDist == {<<0, 0>>} \cup {allocated[i] : i \in 2 .. Len(allocated)}

Conflict(location) ==
  \E other \in CheckDist : SquaredDistance(other, location) < MinNodeSpacing * MinNodeSpacing

\* A field of the sink alone has no node left to place.
Init ==
  /\ stage = IF NumNodes = 1 THEN "PLACED" ELSE "PLACING"
  /\ allocated = <<SinkLocation>> /\ current = 1
  /\ lookup = <<>> /\ drawn = <<>>
  /\ mobility = <<>> /\ txPwrDbm = <<>>

\* The draws that conflict are repeated; Add returns the allocator to its start.
PlaceNode ==
  /\ stage = "PLACING"
  /\ \E location \in Xs \X Ys :
       /\ ~Conflict(location)
       /\ allocated' = Append(allocated, location)
  /\ current' = 1
  /\ stage' = IF Len(allocated') = NumNodes THEN "PLACED" ELSE stage
  /\ UNCHANGED <<lookup, mobility, txPwrDbm, drawn>>

\* Too many draws in a row have conflicted: the assertion on their count ends the
\* simulation.
CouldNotPlaceNode ==
  /\ stage = "PLACING"
  /\ \E location \in Xs \X Ys : Conflict(location)
  /\ stage' = "ABORTED"
  /\ UNCHANGED <<allocated, current, lookup, mobility, txPwrDbm, drawn>>

\* The locations n calls of GetNext return, and where the allocator is after
\* them: it starts again at the end of the list.
GetNext(n)   == [k \in 1 .. n |-> allocated[((current + k - 2) % Len(allocated)) + 1]]
NextAfter(n) == ((current + n - 1) % Len(allocated)) + 1

-----------------------------------------------------------------------------
(* Shadowing *)

Digits(n) == IF n < 10 THEN <<n>> ELSE <<n \div 10, n % 10>>

\* The coordinates are written one after the other, z among them.
Text(a) == Digits(a[1]) \o Digits(a[2]) \o <<0>>
Key(a, b) == Text(a) \o Text(b)

\* Mutant of KeysOf: one direction only.
KeysOneWay(a, b) == {Key(a, b)}

\* The keys the value of a link is recorded under: both directions.
KeysOf(a, b) == {Key(a, b), Key(b, a)}

\* The last of some pairs in the order of the two loops.
LastPair(S) ==
  CHOOSE p \in S : \A q \in S : q[1] * NumNodes + q[2] <= p[1] * NumNodes + p[2]

\* The table after both loops: a later pair has overwritten an earlier one's value.
RecordAll(positions, values) ==
  LET keys == [p \in Pairs |-> KeysOf(positions[p[1]], positions[p[2]])]
  IN  [key \in UNION {keys[p] : p \in Pairs} |->
         values[LastPair({p \in Pairs : key \in keys[p]})]]

GenerateNewShadowingValues ==
  /\ stage = "PLACED"
  /\ \E values \in [Pairs -> Shadowing] :
       /\ lookup' = RecordAll(GetNext(NumNodes), values)
       /\ drawn' = values
  /\ current' = NextAfter(NumNodes)
  /\ stage' = "FADED"
  /\ UNCHANGED <<allocated, mobility, txPwrDbm>>

\* The received power; the loss grows with the distance, by its square instead of
\* its logarithm.
RxPower(tx, a, b) ==
  IF SquaredDistance(a, b) <= ReferenceDistance * ReferenceDistance THEN tx
  ELSE tx - ReferenceLoss - SquaredDistance(a, b) + lookup[Key(a, b)]

-----------------------------------------------------------------------------
(* Devices *)

\* Device i takes the position the allocator returns for it.
InstalledAt(positions) == [i \in Indices |-> positions[i]]

SetDeviceConstantPosition ==
  /\ stage = "FADED"
  /\ mobility' = InstalledAt(GetNext(NumNodes))
  /\ current' = NextAfter(NumNodes)
  /\ stage' = "INSTALLED"
  /\ UNCHANGED <<allocated, lookup, txPwrDbm, drawn>>

\* The power that reaches the receiver's sensitivity.
PowerFor(i, j) == Sensitivity - RxPower(0, mobility[i], mobility[j])

\* Mutant of LinkPower: the lower triangle stays zero.
LinkPowerUnmirrored(i, j) ==
  IF i = j THEN Sensitivity ELSE IF i < j THEN PowerFor(i, j) ELSE 0

\* Computed for i < j and mirrored.
LinkPower(i, j) ==
  IF i = j THEN Sensitivity ELSE IF i < j THEN PowerFor(i, j) ELSE PowerFor(j, i)

CalculateTxPowers ==
  /\ stage = "INSTALLED"
  /\ txPwrDbm' = [i \in Indices |-> [j \in Indices |-> LinkPower(i, j)]]
  /\ stage' = "POWERED"
  /\ UNCHANGED <<allocated, current, lookup, mobility, drawn>>

Next ==
  \/ PlaceNode
  \/ CouldNotPlaceNode
  \/ GenerateNewShadowingValues
  \/ SetDeviceConstantPosition
  \/ CalculateTxPowers

FieldSpec == Init /\ [][Next]_fieldVars

-----------------------------------------------------------------------------
(* Properties *)

\* No two links of the devices, in either direction, share a key of the lookup.
KeysDistinct ==
  \A k, l \in Links :
    k # l => Key(mobility[k[1]], mobility[k[2]]) # Key(mobility[l[1]], mobility[l[2]])

\* The table is filled from one pass over the allocator and read with the positions
\* a second pass gave the devices: every link of two devices finds a value
\* (NS_ASSERT in DoCalcRxPower), and unless two links share a key it is the one
\* drawn for these two nodes, in both directions.
LinksFadeAsDrawn ==
  stage \in {"INSTALLED", "POWERED"} =>
    /\ \A l \in Links : Key(mobility[l[1]], mobility[l[2]]) \in DOMAIN lookup
    /\ KeysDistinct =>
         \A p \in Pairs :
           /\ lookup[Key(mobility[p[1]], mobility[p[2]])] = drawn[p]
           /\ lookup[Key(mobility[p[2]], mobility[p[1]])] = drawn[p]

\* A frame sent with the power CalculateTxPowers found for a link arrives with the
\* receiver's sensitivity, whichever of the two nodes sends it (the lower half of
\* m_txPwrDbm is a copy of the upper), unless two links share a key.
PowersReachBothWays ==
  (stage = "POWERED" /\ KeysDistinct) =>
    \A l \in Links :
      RxPower(txPwrDbm[l[1]][l[2]], mobility[l[1]], mobility[l[2]]) = Sensitivity
=============================================================================
