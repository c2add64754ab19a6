------------------------------ MODULE Delivery ------------------------------
(***************************************************************************)
(* What a network promises its applications, whatever its schedules,       *)
(* routes and medium: a packet submitted may be lost, but it reaches no    *)
(* other node than its destination, at most once, and nothing is delivered *)
(* that nobody submitted.                                                  *)
(***************************************************************************)
CONSTANTS
  Packets,       \* records with a field dst
  NoIndication   \* no packet is delivered in this step

VARIABLES
  inTransit,     \* packets that may still be delivered
  indication     \* the delivery of this step

deliveryVars == <<inTransit, indication>>

DeliveryInit == inTransit = {} /\ indication = NoIndication

Submit(S) ==
  /\ S \subseteq Packets \ inTransit
  /\ inTransit' = inTransit \cup S
  /\ indication' = NoIndication

Deliver(p) ==
  /\ inTransit' = inTransit \ {p}
  /\ indication' = [at |-> p.dst, packet |-> p]

Lose(S) ==
  /\ S \subseteq inTransit
  /\ inTransit' = inTransit \ S
  /\ indication' = NoIndication

\* The sets are named through the next state, so that no subset is enumerated.
DeliveryNext ==
  \/ Submit(inTransit' \ inTransit)
  \/ \E p \in inTransit : Deliver(p)
  \/ Lose(inTransit \ inTransit')

DeliverySpec == DeliveryInit /\ [][DeliveryNext]_deliveryVars
=============================================================================
