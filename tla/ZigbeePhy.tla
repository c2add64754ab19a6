----------------------------- MODULE ZigbeePhy -----------------------------
(***************************************************************************)
(* The IEEE 802.15.4 physical layer of one node (model/zigbee-phy.cc): the *)
(* transceiver state machine, the frame being received, the frame being    *)
(* transmitted, the clear channel assessment and the channel.              *)
(*                                                                         *)
(* The simulator runs one event at a time and every callback is a plain    *)
(* function call, so the MAC can call back into the PHY before a PHY       *)
(* function returns.  An operator whose callback can do so takes what the  *)
(* MAC leaves behind as a parameter.  Each operator constrains only the    *)
(* variables its function can touch: the actions of PhyNext and the        *)
(* handlers of Isa100Dl add the UNCHANGED of the rest.                     *)
(***************************************************************************)
EXTENDS Integers

CONSTANTS
  Frames,       \* the frames the medium and the MAC can hand to the PHY
  NoFrame,      \* the null packet pointer
  Channels,     \* the channels the MAC may tune to
  InitChannel,  \* phyCurrentChannel after construction
  MaxSignals,   \* bound: signals heard at the same time
  MaxCca        \* bound: assessments under way at the same time

ASSUME PhyAssumption ==
  /\ NoFrame \notin Frames
  /\ InitChannel \in Channels
  /\ MaxSignals \in Nat
  /\ MaxCca \in Nat

VARIABLES
  trxState,           \* m_trxState
  trxStatePending,    \* m_trxStatePending
  currentTxPacket,    \* m_currentTxPacket.m_packet; EndTx is scheduled iff set
  currentRxPacket,    \* m_currentRxPacket.m_packet; EndRx is scheduled iff set
  rxIsCorrupt,        \* m_currentRxPacket.m_isCorrupt
  rxTotalNum,         \* m_rxTotalNum: signals in the channel
  signalEnds,         \* number of DecrementChannelRxSignals events scheduled
  endCca,             \* number of EndCca events scheduled
  phyCurrentChannel   \* m_phyPIBAttributes.phyCurrentChannel

trxVars == <<trxState, trxStatePending, currentTxPacket>>
rxVars  == <<currentRxPacket, rxIsCorrupt, rxTotalNum, signalEnds>>
phyVars == <<trxVars, rxVars, endCca, phyCurrentChannel>>

\* The states the MAC may request (the NS_ABORT_IF of PlmeSetTRXStateRequest).
RequestStates == {"RX_ON", "TRX_OFF", "TX_ON", "SLEEP"}
BusyStates    == {"BUSY_RX", "BUSY_TX"}
\* The states in which PlmeCcaRequest starts an assessment.
CcaStates     == {"RX_ON", "TX_ON", "TRX_OFF"}

PhyIsBusy == trxState \in BusyStates

TrxTypeOK ==
  /\ trxState \in RequestStates \cup BusyStates
  /\ trxStatePending \in RequestStates \cup {"IDLE"}
  /\ currentTxPacket \in Frames \cup {NoFrame}

RxTypeOK ==
  /\ currentRxPacket \in Frames \cup {NoFrame}
  /\ rxTotalNum \in Nat
  /\ signalEnds \in Nat

PhyTypeOK ==
  /\ TrxTypeOK /\ RxTypeOK
  /\ rxIsCorrupt \in BOOLEAN
  /\ endCca \in Nat
  /\ phyCurrentChannel \in Channels

PhyInit ==
  /\ trxState = "TRX_OFF"
  /\ trxStatePending = "TRX_OFF"
  /\ currentTxPacket = NoFrame
  /\ currentRxPacket = NoFrame
  /\ rxIsCorrupt = FALSE
  /\ rxTotalNum = 0
  /\ signalEnds = 0
  /\ endCca = 0
  /\ phyCurrentChannel = InitChannel

-----------------------------------------------------------------------------
(* Receiving *)

\* A signal above the noise floor reaches the node.  A sleeping node, and a
\* signal of another channel, return before anything changes.
StartRx(f) ==
  /\ trxState # "SLEEP"
  /\ signalEnds < MaxSignals
  /\ rxTotalNum' = rxTotalNum + 1
  /\ signalEnds' = signalEnds + 1
  /\ \/ /\ trxState = "RX_ON"
        /\ trxState' = "BUSY_RX"
        /\ trxStatePending' = "IDLE"
        /\ currentRxPacket' = f
        /\ rxIsCorrupt' = FALSE
     \/ /\ trxState = "BUSY_RX"               \* a collision
        /\ rxIsCorrupt' = TRUE
        /\ UNCHANGED <<trxState, trxStatePending, currentRxPacket>>
     \/ /\ trxState \notin {"RX_ON", "BUSY_RX"}
        /\ UNCHANGED <<trxState, trxStatePending, currentRxPacket, rxIsCorrupt>>
  /\ UNCHANGED currentTxPacket

\* The scheduled end of a signal that is not being received; EndRx runs the one
\* of the signal that is.
DecrementChannelRxSignals ==
  /\ signalEnds > (IF currentRxPacket = NoFrame THEN 0 ELSE 1)
  /\ signalEnds' = signalEnds - 1
  /\ rxTotalNum' = rxTotalNum - 1
  /\ UNCHANGED <<currentRxPacket, rxIsCorrupt>>

\* The received frame can be handed up: a corrupted one never is, an intact
\* one is unless the error model draws a bit error.
Deliverable == ~rxIsCorrupt

\* Mutant of EndRx: the receiver stays on whatever was requested.
EndRxForgetsPending ==
  /\ currentRxPacket # NoFrame
  /\ rxTotalNum' = rxTotalNum - 1
  /\ signalEnds' = signalEnds - 1
  /\ currentRxPacket' = NoFrame
  /\ rxIsCorrupt' = FALSE
  /\ trxState' = "RX_ON"
  /\ trxStatePending' = "IDLE"
  /\ UNCHANGED currentTxPacket

\* The received frame ends.  Its DecrementChannelRxSignals was scheduled for
\* the same instant, just before EndRx.  A pending request is applied and
\* confirmed with SUCCESS, which no MAC handler of the repository reacts to.
EndRx ==
  /\ currentRxPacket # NoFrame
  /\ rxTotalNum' = rxTotalNum - 1
  /\ signalEnds' = signalEnds - 1
  /\ currentRxPacket' = NoFrame
  /\ rxIsCorrupt' = FALSE
  /\ trxState' = IF trxStatePending # "IDLE" THEN trxStatePending ELSE "RX_ON"
  /\ trxStatePending' = "IDLE"
  /\ UNCHANGED currentTxPacket

-----------------------------------------------------------------------------
(* Transceiver state and transmission *)

\* Mutant of PlmeSetTRXStateRequest: a busy transceiver changes state at once.
ForcedTRXState(s) ==
  /\ s \in RequestStates
  /\ trxState' = s
  /\ trxStatePending' = "IDLE"
  /\ UNCHANGED currentTxPacket

\* A busy transceiver keeps the request for EndTx or EndRx; any other one
\* changes state at once.  Either way an earlier pending request is forgotten.
PlmeSetTRXStateRequest(s) ==
  /\ s \in RequestStates
  /\ \/ /\ PhyIsBusy
        /\ trxStatePending' = s
        /\ UNCHANGED trxState
     \/ /\ ~PhyIsBusy
        /\ trxState' = s
        /\ trxStatePending' = "IDLE"
  /\ UNCHANGED currentTxPacket

\* PdDataRequest in TX_ON: the frame goes on the air and EndTx is scheduled.
\* In any other state the request only produces a PdDataConfirm.
PdDataRequest(f) ==
  /\ trxState = "TX_ON"
  /\ trxState' = "BUSY_TX"
  /\ currentTxPacket' = f
  /\ UNCHANGED trxStatePending

\* PlmeSetTRXStateRequest(TX_ON) whose confirm makes the MAC call
\* PdDataRequest(f) before the request returns.
TurnOnAndSend(f) ==
  /\ ~PhyIsBusy
  /\ trxState' = "BUSY_TX"
  /\ trxStatePending' = "IDLE"
  /\ currentTxPacket' = f

\* Mutant of EndTx: the pending state is applied without a check for IDLE.
EndTxAppliesIdle(pending) ==
  /\ currentTxPacket # NoFrame
  /\ currentTxPacket' = NoFrame
  /\ trxState' = pending
  /\ trxStatePending' = "IDLE"

\* Mutant of EndTx: with nothing pending the transceiver keeps its state.
EndTxStaysBusy(pending) ==
  /\ currentTxPacket # NoFrame
  /\ currentTxPacket' = NoFrame
  /\ trxState' = IF pending # "IDLE" THEN pending ELSE trxState
  /\ trxStatePending' = "IDLE"

\* The transmitted frame ends.  The PdDataConfirm callback comes first and may
\* request a state: pending is the pending state when it returns.
EndTx(pending) ==
  /\ currentTxPacket # NoFrame
  /\ currentTxPacket' = NoFrame
  /\ trxState' = IF pending # "IDLE" THEN pending ELSE "TRX_OFF"
  /\ trxStatePending' = "IDLE"

-----------------------------------------------------------------------------
(* Clear channel assessment *)

\* A sleeping PHY confirms SLEEP and, without returning, goes on to look at
\* the state the callback left it in: woken.
PlmeCcaRequest(woken) ==
  /\ endCca < MaxCca
  /\ IF trxState = "SLEEP"
       THEN /\ woken \in RequestStates
            /\ trxState' = woken
            /\ trxStatePending' = "IDLE"
       ELSE /\ woken = trxState
            /\ UNCHANGED <<trxState, trxStatePending>>
  /\ endCca' = IF woken \in CcaStates THEN endCca + 1 ELSE endCca
  /\ UNCHANGED currentTxPacket

\* The verdict of EndCca in CCA mode 2, the constructor's default.
ChannelSensedIdle == ~PhyIsBusy /\ rxTotalNum = 0

EndCca ==
  /\ endCca > 0
  /\ endCca' = endCca - 1

-----------------------------------------------------------------------------
(* PlmeSetAttributeRequest (phyCurrentChannel) *)

\* Tuning while neither sending nor receiving, or to the channel in use.
Retune(c) ==
  /\ PhyIsBusy => c = phyCurrentChannel
  /\ phyCurrentChannel' = c

\* Mutant of AbortAndRetune: the signals of the channel left are forgotten.
AbortForgetsSignals(c, after) ==
  /\ PhyIsBusy
  /\ c # phyCurrentChannel
  /\ phyCurrentChannel' = c
  /\ currentTxPacket' = NoFrame
  /\ rxTotalNum' = 0
  /\ trxStatePending' = after
  /\ UNCHANGED <<trxState, currentRxPacket, rxIsCorrupt, signalEnds>>

\* Tuning away in the middle of a frame: a frame being received is corrupted;
\* EndTx is cancelled and the transmitted packet forgotten, but trxState keeps
\* its value.  The state the MAC requests from PdDataConfirm is wiped
\* before the handler returns; after is what the MAC requests next, or IDLE.
AbortAndRetune(c, after) ==
  /\ PhyIsBusy
  /\ c # phyCurrentChannel
  /\ phyCurrentChannel' = c
  /\ currentTxPacket' = NoFrame
  /\ rxIsCorrupt' = (rxIsCorrupt \/ currentRxPacket # NoFrame)
  /\ trxStatePending' = after
  /\ UNCHANGED <<trxState, currentRxPacket, rxTotalNum, signalEnds>>

-----------------------------------------------------------------------------
(* The PHY under a MAC that may make any call at any time. *)

SignalStarts ==
  \E f \in Frames : StartRx(f) /\ UNCHANGED <<endCca, phyCurrentChannel>>

SignalStops == DecrementChannelRxSignals /\ UNCHANGED <<trxVars, endCca, phyCurrentChannel>>

Medium == SignalStarts \/ SignalStops

ReceptionEnds == EndRx /\ UNCHANGED <<endCca, phyCurrentChannel>>

TransmissionEnds ==
  \E pending \in {trxStatePending} \cup RequestStates :
    EndTx(pending) /\ UNCHANGED <<rxVars, endCca, phyCurrentChannel>>

FrameEnds == ReceptionEnds \/ TransmissionEnds

CcaEnds == EndCca /\ UNCHANGED <<trxVars, rxVars, phyCurrentChannel>>

MacRequest ==
  \/ \E s \in RequestStates :
        PlmeSetTRXStateRequest(s) /\ UNCHANGED <<rxVars, endCca, phyCurrentChannel>>
  \/ \E f \in Frames :
        /\ PdDataRequest(f) \/ TurnOnAndSend(f)
        /\ UNCHANGED <<rxVars, endCca, phyCurrentChannel>>
  \/ \E woken \in RequestStates \cup BusyStates :
        PlmeCcaRequest(woken) /\ UNCHANGED <<rxVars, phyCurrentChannel>>
  \/ \E c \in Channels : Retune(c) /\ UNCHANGED <<trxVars, rxVars, endCca>>
  \/ \E c \in Channels : AbortAndRetune(c, "IDLE") /\ UNCHANGED endCca

PhyNext == Medium \/ FrameEnds \/ CcaEnds \/ MacRequest

\* The simulator executes every scheduled event.
PhyFairness == WF_phyVars(FrameEnds) /\ WF_phyVars(CcaEnds)

PhySpec == PhyInit /\ [][PhyNext]_phyVars /\ PhyFairness

-----------------------------------------------------------------------------
(* Properties *)

\* The transceiver is in BUSY_RX exactly while a frame is being received, so
\* an EndRx is scheduled to take it out of BUSY_RX (StartRx, EndRx).
ReceivingUntilEndRx == trxState = "BUSY_RX" <=> currentRxPacket # NoFrame

\* The transceiver is in BUSY_TX exactly while a frame is being transmitted, so
\* an EndTx is scheduled to take it out of BUSY_TX (PdDataRequest, EndTx).
TransmittingUntilEndTx == trxState = "BUSY_TX" <=> currentTxPacket # NoFrame

\* m_rxTotalNum is the number of DecrementChannelRxSignals still scheduled, the
\* one of the frame being received among them: over collisions, channel changes,
\* sleep and signals that end in any order no decrement wraps the unsigned counter,
\* and the channel is sensed idle by it only when it is.
SignalsAreCounted ==
  /\ rxTotalNum = signalEnds
  /\ currentRxPacket # NoFrame => signalEnds > 0

\* BUSY_TX without an EndTx: the event was cancelled.
Stranded == trxState = "BUSY_TX" /\ currentTxPacket = NoFrame

\* Changing the channel in mid-transmission, and nothing else, strands the
\* transceiver, and nothing frees it again, no request, no hop and no frame:
\* PlmeSetTRXStateRequest leaves the change of state to the EndTx that
\* PlmeSetAttributeRequest has cancelled.
OnlyHopsStrand ==
  [][Stranded' <=>
       \/ Stranded
       \/ currentTxPacket # NoFrame /\ phyCurrentChannel' # phyCurrentChannel]_phyVars

\* The constructor leaves a transceiver that is off with TRX_OFF pending.
AsConstructed == trxState = "TRX_OFF" /\ trxStatePending = "TRX_OFF"

\* A pending request waits for a scheduled EndTx or EndRx, which applies it; so it
\* does on one channel (OnlyHopsStrand).
PendingMeetsFrameEnd ==
  trxStatePending # "IDLE" =>
    AsConstructed \/ currentTxPacket # NoFrame \/ currentRxPacket # NoFrame

\* A request made during a reception takes effect, unless another one overtakes it
\* or a hop wipes it; one made during a transmission, or by its PdDataConfirm,
\* finds the transmission over, unless a hop strands the transceiver (EndRx, EndTx).
PendingIsApplied ==
  \A s \in RequestStates :
    /\ trxState = "BUSY_RX" /\ trxStatePending = s
         ~> trxState = s \/ (trxState = "BUSY_RX" /\ trxStatePending # s)
    /\ trxState = "BUSY_TX" /\ trxStatePending = s
         ~> trxState \in RequestStates \/ Stranded
=============================================================================
