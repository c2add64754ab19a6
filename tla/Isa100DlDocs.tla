---------------------------- MODULE Isa100DlDocs ----------------------------
(***************************************************************************)
(* What the manual of the repository says of the data link layer and the   *)
(* code does not do.  The formula is a reading of one sentence; the run    *)
(* that checks it finds a behaviour of Isa100Dl that contradicts it.       *)
(***************************************************************************)
EXTENDS Isa100Dl

\* isa-manual.tex:222, "This function checks to see if the packet is addressed to
\* the current node.  If so, it passes it up to the upper layers of the protocol
\* stack": with acknowledgements or without, the frame that is processed and
\* addressed to this node is indicated in the same step.
ReceivedIsPassedUp ==
  [][rxIndications # <<>> /\ Head(rxIndications).kind = "deliver"
       /\ rxIndications' = Tail(rxIndications)
     => upcall' = Indication(Head(rxIndications).pkt)]_vars
=============================================================================
