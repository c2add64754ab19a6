----------------------------- MODULE DlService -----------------------------
(***************************************************************************)
(* What the data link layer promises the layer above: the packets it       *)
(* accepts with DlDataRequest are confirmed with DlDataConfirm once each   *)
(* and in the order of submission, and received packets are indicated      *)
(* without disturbing them.  A flush forgets the accepted packets.         *)
(***************************************************************************)
EXTENDS Sequences, SequencesExt

CONSTANTS
  Packets,      \* packet objects
  FlushAllowed  \* whether the upper layer may flush the queue

VARIABLES
  accepted,  \* packets submitted and not yet confirmed, in order
  upcall     \* the call made to the upper layer by the last step

NoCall == [call |-> "none"]

Init == accepted = <<>> /\ upcall = NoCall

Submit(p) ==
  /\ p \notin Range(accepted)
  /\ accepted' = Append(accepted, p)
  /\ upcall' = NoCall

ConfirmFirst(status) ==
  /\ accepted # <<>>
  /\ upcall' = [call |-> "confirm", pkt |-> Head(accepted), status |-> status]
  /\ accepted' = Tail(accepted)

Indicate(p) ==
  /\ upcall' = [call |-> "indication", pkt |-> p]
  /\ UNCHANGED accepted

Internal == upcall' = NoCall /\ UNCHANGED accepted

Flush == FlushAllowed /\ accepted' = <<>> /\ upcall' = NoCall

Next ==
  \/ \E p \in Packets : Submit(p) \/ Indicate(p)
  \/ \E status \in {"SUCCESS", "FAILURE"} : ConfirmFirst(status)
  \/ Internal
  \/ Flush

SafetySpec == Init /\ [][Next]_<<accepted, upcall>>
=============================================================================
