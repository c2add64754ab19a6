------------------------------ MODULE Isa100Dl ------------------------------
(***************************************************************************)
(* The data link layer of one ISA100.11a node (model/isa100-dl.cc) on top  *)
(* of its PHY (ZigbeePhy), between the upper layer above and the medium    *)
(* below.  Every action is one event of the simulator, or one call of the  *)
(* upper layer, with the whole chain of DL and PHY functions it runs.      *)
(*                                                                         *)
(* Time is counted in timeslots: slotsLeft slot boundaries remain until    *)
(* the next ProcessLink, and the events a slot schedules (the transmitter  *)
(* or CCA request at TxEarliest, EndCca, frame ends, the LIFS delay)       *)
(* happen between two boundaries, in any order the delays allow.           *)
(***************************************************************************)
EXTENDS Integers, Sequences, SequencesExt

CONSTANTS
  Packets,          \* packet objects; an address is reused once it is free
  NoFrame,          \* the null packet pointer
  AckEnabled,       \* m_ackEnabled, the same for every node of the network
  DlSleepEnabled,   \* m_dlSleepEnabled
  ImmediateTx,      \* m_xmitEarliest is zero
  LinkTypes,        \* m_dlLinkScheduleTypes
  LinkSlots,        \* m_dlLinkScheduleSlots
  SfPeriod,         \* m_sfPeriod
  HopPattern,       \* m_dlHoppingPattern
  InitChannel,      \* the channel of the PHY before the first hop
  MaxBackoff,       \* largest backoff drawn: 2^(BackoffExponent - 1) - 1
  MaxArqBackoff,    \* largest ARQ backoff drawn: 2^(ArqBackoffExponent - 1) - 1
  MaxFrameRetries,  \* m_maxFrameRetries
  Aligned,          \* neighbours share the slot boundaries and frames fit slots
  HeardIn,          \* if Aligned, the slots of this node in which others send
  LateAcks,         \* an acknowledgement may arrive after the slot of its frame
  OversizePossible, \* the upper layer may submit frames over 127 bytes
  FlushAllowed,     \* the upper layer may call FlushTxQueue
  MaxQueue,         \* bound: length of the queue when it may still grow
  MaxSignals,       \* bound: signals heard at the same time
  MaxHeard          \* bound: signals that start in one slot

SlotTypes == {"TRANSMIT", "RECEIVE", "SHARED"}

ASSUME DlAssumption ==
  /\ {AckEnabled, DlSleepEnabled, ImmediateTx, Aligned, LateAcks} \subseteq BOOLEAN
  /\ {OversizePossible, FlushAllowed} \subseteq BOOLEAN
  /\ LinkTypes \in Seq(SlotTypes) /\ LinkTypes # <<>>
  /\ LinkSlots \in Seq(Nat) /\ Len(LinkSlots) = Len(LinkTypes)
  /\ \A i \in 1 .. Len(LinkSlots) : LinkSlots[i] < SfPeriod
  /\ SfPeriod \in Nat
  /\ HopPattern \in Seq(Nat) /\ HopPattern # <<>>
  /\ InitChannel \in Nat
  /\ {MaxBackoff, MaxArqBackoff, MaxFrameRetries} \subseteq Nat
  /\ HeardIn \subseteq SlotTypes \cup {"IDLE"}
  /\ {MaxQueue, MaxSignals, MaxHeard} \subseteq Nat

\* An element of m_txQueue: a packet of this node ("oversize" if the PHY will
\* refuse its length), one forwarded for another node, or an acknowledgement
\* carrying the DMIC of the packet it acknowledges.
Kinds     == {"own", "oversize", "forward", "ack"}
Attempts  == 0 .. MaxFrameRetries + 1
TxElement == [pkt : Packets, kind : Kinds, attempts : Attempts]

\* A frame on the air as this node will classify it: data it is the final
\* destination of, data to forward, data for others, or an acknowledgement.
RxFrame == [pkt : Packets, kind : {"deliver", "relay", "overheard", "ack"}]

ASSUME NoFrameAssumption == NoFrame \notin TxElement \cup RxFrame

VARIABLES
  trxState, trxStatePending, currentTxPacket, currentRxPacket, rxIsCorrupt,
  rxTotalNum, signalEnds, endCca, phyCurrentChannel,   \* the PHY
  txQueue,            \* m_txQueue
  expBackoff,         \* m_expBackoffCounter
  expArqBackoff,      \* m_expArqBackoffCounter
  linkIndex,          \* m_dlLinkIndex % scheduleSize + 1
  hopIndex,           \* m_dlHopIndex % scheduleSize + 1
  slotsLeft,          \* slot boundaries until m_nextProcessLink
  slotType,           \* what the current slot is to this node
  xmitEvent,          \* the event scheduled m_xmitEarliest into the slot
  idleEvent,          \* turning the transceiver off is scheduled
  rxIndications,      \* frames in the LIFS delay before ProcessPdDataIndication
  processor,          \* state of m_processor
  upcall,             \* the call of the upper layer this step made
  acksOwed,           \* packets whose acknowledgement may still arrive
  heard,              \* signals that started in this slot
  fault               \* front() of an empty queue was dereferenced

Phy == INSTANCE ZigbeePhy WITH
  Frames <- TxElement \cup RxFrame,
  Channels <- Range(HopPattern) \cup {InitChannel},
  MaxCca <- 1

trxVars   == <<trxState, trxStatePending, currentTxPacket>>
rxVars    == <<currentRxPacket, rxIsCorrupt, rxTotalNum, signalEnds>>
queueVars == <<txQueue, expArqBackoff>>
slotVars  == <<linkIndex, hopIndex, slotsLeft, slotType, idleEvent>>
envVars   == <<acksOwed, heard>>
vars == <<trxVars, rxVars, endCca, phyCurrentChannel, queueVars, expBackoff,
          slotVars, xmitEvent, rxIndications, processor, upcall, envVars, fault>>

NoCall == [call |-> "none"]
Confirm(p, s) == [call |-> "confirm", pkt |-> p, status |-> s]
Indication(p) == [call |-> "indication", pkt |-> p]
Upcalls == {NoCall}
           \cup [call : {"confirm"}, pkt : Packets, status : {"SUCCESS", "FAILURE"}]
           \cup [call : {"indication"}, pkt : Packets]

TypeOK ==
  /\ Phy!PhyTypeOK
  /\ currentTxPacket \in TxElement \cup {NoFrame}
  /\ currentRxPacket \in RxFrame \cup {NoFrame}
  /\ txQueue \in Seq(TxElement)
  /\ expBackoff \in 0 .. MaxBackoff
  /\ expArqBackoff \in 0 .. MaxArqBackoff
  /\ linkIndex \in 1 .. Len(LinkTypes)
  /\ hopIndex \in 1 .. Len(HopPattern)
  /\ slotsLeft \in 1 .. SfPeriod
  /\ slotType \in SlotTypes \cup {"IDLE"}
  /\ xmitEvent \in {"none", "TX_ON", "CCA"}
  /\ idleEvent \in BOOLEAN
  /\ rxIndications \in Seq(RxFrame)
  /\ processor \in {"ACTIVE", "SLEEP"}
  /\ upcall \in Upcalls
  /\ acksOwed \subseteq Packets
  /\ heard \in Nat
  /\ fault \in BOOLEAN

\* Start has scheduled the first ProcessLink LinkSlots[1] slots from time zero.
Init ==
  /\ Phy!PhyInit
  /\ txQueue = <<>>
  /\ expBackoff = 0
  /\ expArqBackoff = 0
  /\ linkIndex = 1
  /\ hopIndex = 1
  /\ slotsLeft = LinkSlots[1] + 1
  /\ slotType = "IDLE"
  /\ xmitEvent = "none"
  /\ idleEvent = FALSE
  /\ rxIndications = <<>>
  /\ processor = "SLEEP"
  /\ upcall = NoCall
  /\ acksOwed = {}
  /\ heard = 0
  /\ fault = FALSE

-----------------------------------------------------------------------------
(* Requests to the transceiver and what their confirms make the DL do *)

\* Mutant of Attempted: the attempt is not counted.
NotCounted(e) == e

\* The front element with one attempt fewer, as PlmeSetTrxStateConfirm
\* hands it to the PHY; without ACKs the counter is neither set nor read.
Attempted(e) == IF AckEnabled THEN [e EXCEPT !.attempts = @ - 1] ELSE e

\* PlmeSetTrxStateConfirm(TX_ON) of an idle transceiver with queue q.
NothingToSend(q) ==
  /\ q = <<>>
  /\ Phy!PlmeSetTRXStateRequest("TRX_OFF")
  /\ txQueue' = q
  /\ upcall' = NoCall
  /\ UNCHANGED expArqBackoff

\* Mutant of InArqBackoff: the counter is not decremented.
StaysInArqBackoff(q) ==
  /\ q # <<>> /\ expArqBackoff > 0 /\ Head(q).kind # "ack"
  /\ Phy!PlmeSetTRXStateRequest("TX_ON")
  /\ txQueue' = q
  /\ upcall' = NoCall
  /\ UNCHANGED expArqBackoff

InArqBackoff(q) ==
  /\ q # <<>> /\ expArqBackoff > 0 /\ Head(q).kind # "ack"
  /\ Phy!PlmeSetTRXStateRequest("TX_ON")
  /\ expArqBackoff' = expArqBackoff - 1
  /\ txQueue' = q
  /\ upcall' = NoCall

AttemptsExhausted(q) ==
  /\ q # <<>> /\ (expArqBackoff = 0 \/ Head(q).kind = "ack")
  /\ AckEnabled /\ Head(q).attempts = 0
  /\ Phy!PlmeSetTRXStateRequest("TX_ON")
  /\ txQueue' = Tail(q)
  /\ upcall' = Confirm(Head(q).pkt, "FAILURE")
  /\ UNCHANGED expArqBackoff

\* The PHY refuses a frame over aMaxPhyPacketSize with UNSPECIFIED, and
\* PdDataConfirm drops it; the transmitter stays on.
Refused(q) ==
  /\ q # <<>> /\ expArqBackoff = 0 /\ Head(q).kind = "oversize"
  /\ AckEnabled => Head(q).attempts > 0
  /\ Phy!PlmeSetTRXStateRequest("TX_ON")
  /\ txQueue' = Tail(q)
  /\ expArqBackoff' = 0
  /\ upcall' = Confirm(Head(q).pkt, "FAILURE")

Transmitted(q) ==
  /\ q # <<>> /\ (expArqBackoff = 0 \/ Head(q).kind = "ack")
  /\ Head(q).kind # "oversize"
  /\ AckEnabled => Head(q).attempts > 0
  /\ Phy!TurnOnAndSend(Attempted(Head(q)))
  /\ txQueue' = <<Attempted(Head(q))>> \o Tail(q)
  /\ IF AckEnabled /\ Head(q).kind # "ack"
       THEN expArqBackoff' \in 0 .. MaxArqBackoff
       ELSE UNCHANGED expArqBackoff
  /\ upcall' = NoCall

\* Mutant of ProcessTrxStateRequest: only TX_ON wakes the processor.
RequestWakesForTxOnly(s, q) ==
  /\ processor' = CASE s = "SLEEP" -> "SLEEP"
                    [] s = "TX_ON" -> "ACTIVE"
                    [] OTHER -> processor
  /\ IF s = "TX_ON" /\ ~Phy!PhyIsBusy
       THEN NothingToSend(q) \/ InArqBackoff(q) \/ Refused(q) \/ Transmitted(q)
       ELSE /\ Phy!PlmeSetTRXStateRequest(s)
            /\ txQueue' = q
            /\ upcall' = NoCall
            /\ UNCHANGED expArqBackoff

\* ProcessTrxStateRequest(s) when the queue holds q.
ProcessTrxStateRequest(s, q) ==
  /\ processor' = IF s = "SLEEP" THEN "SLEEP" ELSE "ACTIVE"
  /\ IF s = "TX_ON" /\ ~Phy!PhyIsBusy
       THEN \/ NothingToSend(q) \/ InArqBackoff(q) \/ AttemptsExhausted(q)
            \/ Refused(q) \/ Transmitted(q)
       ELSE /\ Phy!PlmeSetTRXStateRequest(s)
            /\ txQueue' = q
            /\ upcall' = NoCall
            /\ UNCHANGED expArqBackoff

\* No transceiver request in this step, and queue q at its end.
NoTrxRequest(q) ==
  /\ txQueue' = q
  /\ upcall' = NoCall
  /\ UNCHANGED <<trxVars, expArqBackoff, processor>>

-----------------------------------------------------------------------------
(* Slot boundaries *)

\* The events of a slot are over.  Aligned assumes of the network that this includes
\* every frame on the air and the LIFS delay: no hop of such a node meets a frame.
SlotOver ==
  /\ xmitEvent = "none"
  /\ endCca = 0
  /\ Aligned => /\ currentRxPacket = NoFrame
                /\ currentTxPacket = NoFrame
                /\ signalEnds = 0
                /\ rxIndications = <<>>

NewSlot ==
  /\ heard' = 0
  /\ acksOwed' = IF LateAcks THEN acksOwed ELSE {}

\* What ProcessLink asks of the transceiver at the start of a slot.
LinkRequest(type) ==
  CASE type = "RECEIVE" \/ (type = "SHARED" /\ txQueue = <<>>) -> "RX_ON"
    [] type = "TRANSMIT" /\ ImmediateTx -> "TX_ON"
    [] OTHER -> "none"

\* What it schedules for m_xmitEarliest into the slot.
XmitEvent(type) ==
  CASE type = "TRANSMIT" /\ ~ImmediateTx -> "TX_ON"
    [] type = "SHARED" /\ txQueue # <<>> /\ expBackoff = 0 -> "CCA"
    [] OTHER -> "none"

\* Mutant of NextLink: m_dlLinkIndex is not incremented.
SameLink == linkIndex

NextLink == (linkIndex % Len(LinkTypes)) + 1

SlotJump ==
  LET cur == LinkSlots[linkIndex]  next == LinkSlots[NextLink]
  IN  IF next <= cur THEN next + SfPeriod - cur ELSE next - cur

\* Mutant of BackoffAfter: the counter is never decremented.
BackoffKept(type) == IF type = "TRANSMIT" THEN 0 ELSE expBackoff

\* The backoff counter after a link: zeroed by a dedicated transmit slot.
BackoffAfter(type) ==
  IF type = "TRANSMIT" \/ expBackoff = 0 THEN 0 ELSE expBackoff - 1

\* Mutant of TurnsOffNext: slotJump > 2.
TurnsOffAfterTwo == SlotJump > 2

\* An idle slot follows the link: the transceiver is turned off for it.
TurnsOffNext == SlotJump > 1

\* ChannelHop, then the request.  A hop in the middle of a frame makes
\* PdDataConfirm(TRX_OFF) request TX_ON; the PHY wipes that request, but
\* it has woken the processor.
HopAndRequest(channel, request) ==
  \/ /\ Phy!Retune(channel)
     /\ IF request = "none"
          THEN NoTrxRequest(txQueue)
          ELSE ProcessTrxStateRequest(request, txQueue)
     /\ UNCHANGED rxVars
  \/ /\ Phy!AbortAndRetune(channel, IF request = "none" THEN "IDLE" ELSE request)
     /\ processor' = "ACTIVE"
     /\ upcall' = NoCall
     /\ UNCHANGED queueVars

ProcessLink ==
  /\ slotsLeft = 1 /\ SlotOver
  /\ LET type == LinkTypes[linkIndex]
     IN  /\ HopAndRequest(HopPattern[hopIndex], LinkRequest(type))
         /\ slotType' = type
         /\ xmitEvent' = XmitEvent(type)
         /\ expBackoff' = BackoffAfter(type)
  /\ hopIndex' = (hopIndex % Len(HopPattern)) + 1
  /\ linkIndex' = NextLink
  /\ slotsLeft' = SlotJump
  /\ idleEvent' = TurnsOffNext
  /\ NewSlot
  /\ UNCHANGED <<endCca, rxIndications, fault>>

\* A slot without link activity begins.  The first one after a link turns the
\* transceiver off.
IdleSlot ==
  /\ slotsLeft > 1 /\ SlotOver
  /\ slotsLeft' = slotsLeft - 1
  /\ slotType' = "IDLE"
  /\ IF idleEvent
       THEN ProcessTrxStateRequest(IF DlSleepEnabled THEN "SLEEP" ELSE "TRX_OFF",
                                   txQueue)
       ELSE NoTrxRequest(txQueue)
  /\ idleEvent' = FALSE
  /\ NewSlot
  /\ UNCHANGED <<rxVars, endCca, phyCurrentChannel, expBackoff, linkIndex,
                 hopIndex, xmitEvent, rxIndications, fault>>

-----------------------------------------------------------------------------
(* The events of a slot *)

\* TRANSMIT slot, m_xmitEarliest after its start.
TurnTransmitterOn ==
  /\ xmitEvent = "TX_ON"
  /\ xmitEvent' = "none"
  /\ ProcessTrxStateRequest("TX_ON", txQueue)
  /\ UNCHANGED <<rxVars, endCca, phyCurrentChannel, expBackoff, slotVars,
                 rxIndications, envVars, fault>>

\* Mutant of Backoff: the largest value drawn is 2^(BackoffExponent - 1).
BackoffInclusive ==
  /\ expBackoff' \in 0 .. MaxBackoff + 1
  /\ ProcessTrxStateRequest("RX_ON", txQueue)

\* PlmeCcaConfirm with any status but IDLE: back off, and listen meanwhile.
Backoff ==
  /\ expBackoff' \in 0 .. MaxBackoff
  /\ ProcessTrxStateRequest("RX_ON", txQueue)

\* SHARED slot, m_xmitEarliest after its start.  A sleeping PHY confirms at
\* once, is woken by the backoff and then starts the assessment after all.
CallPlmeCcaRequest ==
  /\ xmitEvent = "CCA"
  /\ xmitEvent' = "none"
  /\ CASE trxState = "SLEEP" ->
            /\ expBackoff' \in 0 .. MaxBackoff
            /\ processor' = "ACTIVE"
            /\ Phy!PlmeCcaRequest("RX_ON")
            /\ upcall' = NoCall
            /\ UNCHANGED queueVars
       [] Phy!PhyIsBusy -> Backoff /\ UNCHANGED endCca
       [] OTHER -> /\ Phy!PlmeCcaRequest(trxState)
                   /\ upcall' = NoCall
                   /\ UNCHANGED <<queueVars, expBackoff, processor>>
  /\ UNCHANGED <<rxVars, phyCurrentChannel, slotVars, rxIndications, envVars, fault>>

\* EndCca and the PlmeCcaConfirm it calls.
EndCca ==
  /\ Phy!EndCca
  /\ IF Phy!ChannelSensedIdle
       THEN /\ IF txQueue # <<>>
                 THEN ProcessTrxStateRequest("TX_ON", txQueue)
                 ELSE NoTrxRequest(txQueue)
            /\ UNCHANGED expBackoff
       ELSE Backoff
  /\ UNCHANGED <<rxVars, phyCurrentChannel, slotVars, xmitEvent, rxIndications,
                 envVars, fault>>

\* EndTx and the PdDataConfirm(SUCCESS) it calls, which acts on the front of
\* the queue.  Only acknowledgements and frames awaiting one request RX_ON.
TxDone ==
  LET front == Head(txQueue)
  IN  IF AckEnabled
        THEN /\ txQueue' = IF front.kind = "ack" THEN Tail(txQueue) ELSE txQueue
             /\ Phy!EndTx("RX_ON")
             /\ processor' = "ACTIVE"
             /\ upcall' = NoCall
        ELSE /\ txQueue' = Tail(txQueue)
             /\ Phy!EndTx(trxStatePending)
             /\ upcall' = IF front.kind \in {"own", "oversize"}
                            THEN Confirm(front.pkt, "SUCCESS") ELSE NoCall
             /\ UNCHANGED processor

EndTx ==
  /\ txQueue # <<>>
  /\ TxDone
  /\ acksOwed' = IF AckEnabled /\ currentTxPacket # NoFrame
                      /\ currentTxPacket.kind # "ack"
                   THEN acksOwed \cup {currentTxPacket.pkt} ELSE acksOwed
  /\ UNCHANGED <<rxVars, endCca, phyCurrentChannel, expArqBackoff, expBackoff,
                 slotVars, xmitEvent, rxIndications, heard, fault>>

\* PdDataConfirm dereferences the front of an empty queue.
EndTxWithoutElement ==
  /\ currentTxPacket # NoFrame /\ txQueue = <<>>
  /\ fault' = TRUE
  /\ upcall' = NoCall
  /\ UNCHANGED <<trxVars, rxVars, endCca, phyCurrentChannel, queueVars, expBackoff,
                 slotVars, xmitEvent, rxIndications, processor, envVars>>

-----------------------------------------------------------------------------
(* Reception *)

\* A packet object that something of this node still points to.
InUse(p) ==
  \/ \E i \in 1 .. Len(txQueue) : txQueue[i].pkt = p /\ txQueue[i].kind # "ack"
  \/ \E i \in 1 .. Len(rxIndications) :
        rxIndications[i].pkt = p /\ rxIndications[i].kind = "relay"
  \/ /\ currentRxPacket # NoFrame
     /\ currentRxPacket.pkt = p /\ currentRxPacket.kind = "relay"
  \/ currentTxPacket # NoFrame /\ currentTxPacket.pkt = p

\* The frames the medium can bring: acknowledgements of what this node sent,
\* and packets of other nodes.
Arriving(f) ==
  CASE f.kind = "ack"   -> AckEnabled /\ f.pkt \in acksOwed
    [] f.kind = "relay" -> ~AckEnabled /\ ~InUse(f.pkt)
    [] OTHER            -> TRUE

StartRx(f) ==
  /\ heard < MaxHeard
  /\ Aligned => slotType \in HeardIn
  /\ Arriving(f)
  /\ Len(txQueue) <= MaxQueue
  /\ Phy!StartRx(f)
  /\ heard' = heard + 1
  /\ acksOwed' = IF f.kind = "ack" THEN acksOwed \ {f.pkt} ELSE acksOwed
  /\ upcall' = NoCall
  /\ UNCHANGED <<endCca, phyCurrentChannel, queueVars, expBackoff, slotVars,
                 xmitEvent, rxIndications, processor, fault>>

\* Frames of aligned neighbours start no earlier than TxEarliest, within the
\* clock error, and outlast the assessment, which takes 8 symbols.
FrameOutlastsCca == Aligned => xmitEvent = "none" /\ endCca = 0

\* A data frame takes longer than the LIFS delay (29 bytes of header alone are
\* 928 us at 250 kbit/s, against 640 us), an acknowledgement does not, and
\* with ACKs an overheard frame may be one.
DataOutlastsLifs ==
  rxIndications # <<>> /\ currentRxPacket # NoFrame =>
    (AckEnabled /\ currentRxPacket.kind \in {"overheard", "ack"})

DecrementChannelRxSignals ==
  /\ FrameOutlastsCca
  /\ Phy!DecrementChannelRxSignals
  /\ upcall' = NoCall
  /\ UNCHANGED <<trxVars, endCca, phyCurrentChannel, queueVars, expBackoff, slotVars,
                 xmitEvent, rxIndications, processor, envVars, fault>>

\* EndRx and PdDataIndication, which only schedules ProcessPdDataIndication.
EndRx ==
  /\ FrameOutlastsCca /\ DataOutlastsLifs
  /\ Phy!EndRx
  /\ \/ Phy!Deliverable /\ rxIndications' = Append(rxIndications, currentRxPacket)
     \/ UNCHANGED rxIndications
  /\ upcall' = NoCall
  /\ UNCHANGED <<endCca, phyCurrentChannel, queueVars, expBackoff, slotVars,
                 xmitEvent, processor, envVars, fault>>

\* The positions of the queued packet an acknowledgement names.
AckedPositions(p) ==
  {i \in 1 .. Len(txQueue) : txQueue[i].kind # "ack" /\ txQueue[i].pkt = p}

\* Mutant of ProcessAck: the acknowledged packet stays in the queue.
ProcessAckKeeps(f) ==
  /\ AckEnabled /\ f.kind = "ack"
  /\ UNCHANGED <<trxVars, processor, txQueue>>
  /\ expArqBackoff' = 0
  /\ upcall' = IF AckedPositions(f.pkt) = {} THEN NoCall
                                            ELSE Confirm(f.pkt, "SUCCESS")

ProcessAck(f) ==
  /\ AckEnabled /\ f.kind = "ack"
  /\ UNCHANGED <<trxVars, processor>>
  /\ \/ /\ AckedPositions(f.pkt) = {}
        /\ upcall' = NoCall
        /\ UNCHANGED queueVars
     \/ \E i \in AckedPositions(f.pkt) :
          /\ \A j \in AckedPositions(f.pkt) : i <= j
          /\ txQueue' = RemoveAt(txQueue, i)
          /\ expArqBackoff' = 0
          /\ upcall' = Confirm(f.pkt, "SUCCESS")

\* Mutant of AnswerWithAck: the acknowledgement joins the back of the queue.
AckAtBack(f) ==
  /\ f.kind \in {"deliver", "relay"} /\ AckEnabled
  /\ ProcessTrxStateRequest("TX_ON",
        Append(txQueue, [pkt |-> f.pkt, kind |-> "ack", attempts |-> 1]))

\* With ACKs a frame addressed to this node is answered, and that is all.
AnswerWithAck(f) ==
  /\ f.kind \in {"deliver", "relay"} /\ AckEnabled
  /\ ProcessTrxStateRequest("TX_ON",
        <<[pkt |-> f.pkt, kind |-> "ack", attempts |-> 1]>> \o txQueue)

ForwardOn(f) ==
  /\ f.kind = "relay" /\ ~AckEnabled
  /\ NoTrxRequest(Append(txQueue,
        [pkt |-> f.pkt, kind |-> "forward", attempts |-> MaxFrameRetries + 1]))

DeliverUp(f) ==
  /\ f.kind = "deliver" /\ ~AckEnabled
  /\ upcall' = Indication(f.pkt)
  /\ UNCHANGED <<trxVars, queueVars, processor>>

DropOverheard(f) == f.kind = "overheard" /\ NoTrxRequest(txQueue)

ProcessPdDataIndication ==
  /\ rxIndications # <<>>
  /\ LET f == Head(rxIndications)
     IN  ProcessAck(f) \/ AnswerWithAck(f) \/ ForwardOn(f) \/ DeliverUp(f)
         \/ DropOverheard(f)
  /\ rxIndications' = Tail(rxIndications)
  /\ UNCHANGED <<rxVars, endCca, phyCurrentChannel, expBackoff, slotVars, xmitEvent,
                 envVars, fault>>

-----------------------------------------------------------------------------
(* Calls of the upper layer *)

\* Mutant of DlDataRequest: the packet is pushed to the front of the queue.
DlDataRequestAtFront(p, kind) ==
  /\ Len(txQueue) < MaxQueue
  /\ kind = "own" /\ ~InUse(p)
  /\ txQueue' = <<[pkt |-> p, kind |-> kind,
                   attempts |-> IF AckEnabled THEN MaxFrameRetries + 1 ELSE 0]>>
                \o txQueue
  /\ upcall' = NoCall
  /\ UNCHANGED <<trxVars, rxVars, endCca, phyCurrentChannel, expArqBackoff, expBackoff,
                 slotVars, xmitEvent, rxIndications, processor, envVars, fault>>

DlDataRequest(p, kind) ==
  /\ Len(txQueue) < MaxQueue
  /\ kind = "own" \/ (kind = "oversize" /\ OversizePossible)
  /\ ~InUse(p)
  /\ txQueue' = Append(txQueue, [pkt |-> p, kind |-> kind,
                       attempts |-> IF AckEnabled THEN MaxFrameRetries + 1 ELSE 0])
  /\ upcall' = NoCall
  /\ UNCHANGED <<trxVars, rxVars, endCca, phyCurrentChannel, expArqBackoff, expBackoff,
                 slotVars, xmitEvent, rxIndications, processor, envVars, fault>>

\* Mutant of FlushTxQueue: the front element, perhaps in flight, is kept.
FlushKeepsFront ==
  /\ FlushAllowed
  /\ txQueue # <<>>
  /\ txQueue' = <<Head(txQueue)>>
  /\ upcall' = NoCall
  /\ UNCHANGED <<trxVars, rxVars, endCca, phyCurrentChannel, expArqBackoff, expBackoff,
                 slotVars, xmitEvent, rxIndications, processor, envVars, fault>>

FlushTxQueue ==
  /\ FlushAllowed
  /\ txQueue' = <<>>
  /\ upcall' = NoCall
  /\ UNCHANGED <<trxVars, rxVars, endCca, phyCurrentChannel, expArqBackoff, expBackoff,
                 slotVars, xmitEvent, rxIndications, processor, envVars, fault>>

-----------------------------------------------------------------------------
SlotBoundary == ProcessLink \/ IdleSlot

RadioEvent ==
  TurnTransmitterOn \/ CallPlmeCcaRequest \/ EndCca \/ EndTx \/ EndTxWithoutElement

Reception == DecrementChannelRxSignals \/ EndRx \/ ProcessPdDataIndication

UpperLayer ==
  \/ \E p \in Packets, kind \in {"own", "oversize"} : DlDataRequest(p, kind)
  \/ FlushTxQueue

Next ==
  /\ ~fault
  /\ \/ SlotBoundary \/ RadioEvent \/ Reception \/ UpperLayer
     \/ \E f \in RxFrame : StartRx(f)

\* The simulator executes every scheduled event, each in its turn.
Fairness ==
  /\ WF_vars(~fault /\ SlotBoundary)
  /\ WF_vars(~fault /\ (TurnTransmitterOn \/ CallPlmeCcaRequest))
  /\ WF_vars(~fault /\ EndCca)
  /\ WF_vars(~fault /\ EndTx)
  /\ WF_vars(~fault /\ EndRx)
  /\ WF_vars(~fault /\ DecrementChannelRxSignals)
  /\ WF_vars(~fault /\ ProcessPdDataIndication)

Spec == Init /\ [][Next]_vars /\ Fairness

-----------------------------------------------------------------------------
(* Properties *)

\* PdDataConfirm removes, keeps or confirms the element at the front of the
\* queue without looking which packet the PHY sent: the packet on the air must
\* be the front element until EndTx.
InFlightIsFront ==
  currentTxPacket # NoFrame =>
    txQueue # <<>> /\ Head(txQueue) = currentTxPacket

\* The request ProcessLink schedules for the first idle slot leaves the radio
\* off, or asleep, for every idle slot, whatever CCA, backoff and
\* acknowledgements did before; aligned slots only.
IdleSlotsAreSilent == slotType = "IDLE" => trxState \in {"TRX_OFF", "SLEEP"}

\* Only a slot scheduled for it puts a frame on the air: data in TRANSMIT and
\* SHARED slots, in a RECEIVE slot nothing but an acknowledgement.
TransmitsInOwnSlots ==
  [][currentTxPacket = NoFrame /\ currentTxPacket' # NoFrame =>
       \/ slotType' \in {"TRANSMIT", "SHARED"}
       \/ slotType' = "RECEIVE" /\ currentTxPacket'.kind = "ack"]_vars

\* The DL puts the processor to sleep together with the PHY and wakes it for
\* everything else: while it sleeps the radio is off or asleep and no received
\* frame waits to be processed, and the radio never sleeps alone or during an
\* assessment.
ProcessorSleepsWithRadio ==
  /\ processor = "SLEEP" => trxState \in {"SLEEP", "TRX_OFF"} /\ rxIndications = <<>>
  /\ trxState = "SLEEP" => processor = "SLEEP" /\ endCca = 0

\* A packet confirmed with SUCCESS was really sent: without ACKs it is the one
\* whose transmission ends, with ACKs at least one attempt was used on it.
SuccessMeansSent ==
  [][\A p \in Packets : upcall' = Confirm(p, "SUCCESS") =>
       \E i \in 1 .. Len(txQueue) :
         /\ txQueue[i].pkt = p
         /\ IF AckEnabled THEN txQueue[i].attempts <= MaxFrameRetries
                          ELSE txQueue[i] = currentTxPacket]_vars

\* The packets of the upper layer among the first 0 .. Len(q) elements of
\* queue q, in order.
OwnUpTo(q) ==
  LET own[n \in 0 .. Len(q)] ==
        IF n = 0 THEN <<>>
        ELSE IF q[n].kind \in {"own", "oversize"} THEN Append(own[n - 1], q[n].pkt)
        ELSE own[n - 1]
  IN  own

OwnPackets(q) == OwnUpTo(q)[Len(q)]

\* The packets submitted by the upper layer and not yet confirmed.
Accepted == OwnPackets(txQueue)

\* What the upper layer sees is the DL service: every packet it submits is
\* confirmed once, in order, and nothing else is ever confirmed.
Service == INSTANCE DlService WITH accepted <- Accepted

ServiceSafety == Service!SafetySpec

\* Every packet accepted from the upper layer leaves the queue, by a confirm
\* unless it is flushed.
AcceptedLeaves ==
  \A p \in Packets : p \in Range(Accepted) ~> p \notin Range(Accepted)

\* ... once the medium stays quiet.
AcceptedLeavesWhenQuiet == <>[](heard = 0) => AcceptedLeaves
=============================================================================
