--------------------------- MODULE ZigbeePhyProofs ---------------------------
(***************************************************************************)
(* Proofs about the PHY under an arbitrary MAC.  Not even the types are    *)
(* inductive: that the unsigned m_rxTotalNum survives the end of a frame   *)
(* rests on the frame having been counted, that the counted frame is the   *)
(* one EndRx ends on BUSY_RX meaning that a frame is being received, and   *)
(* that no EndTx takes the transceiver out of BUSY_RX on a frame being     *)
(* transmitted meaning BUSY_TX.  PhyInv is their conjunction.  The         *)
(* management requests never take the transceiver where its data service   *)
(* does not, so that PhyInv holds with them too.                           *)
(***************************************************************************)
EXTENDS PhyManagement, TLAPS

\* While a frame is being transmitted the transceiver is in BUSY_TX.  Unlike
\* the converse this survives a channel change, which forgets the frame.
SendingIsBusy == currentTxPacket # NoFrame => trxState = "BUSY_TX"

\* A request is pending only in a busy state.  This is less than a frame's end that
\* applies it: a hop leaves BUSY_TX without one.
PendingOnlyWhileBusy == trxStatePending # "IDLE" => PhyIsBusy \/ AsConstructed

\* The invariant without the type of the Boolean variable, which needs another
\* prover than the rest.
CoreInv ==
  /\ TrxTypeOK /\ RxTypeOK /\ endCca \in Nat /\ phyCurrentChannel \in Channels
  /\ ReceivingUntilEndRx
  /\ SignalsAreCounted
  /\ PendingOnlyWhileBusy
  /\ SendingIsBusy

PhyInv == CoreInv /\ rxIsCorrupt \in BOOLEAN

-----------------------------------------------------------------------------
(* The invariant is inductive. *)

\* The constructor establishes the invariant.
LEMMA InitInv == PhyInit => PhyInv
<1> SUFFICES ASSUME PhyInit PROVE PhyInv
  OBVIOUS
<1>1. CoreInv
  BY PhyAssumption DEF PhyInit, CoreInv, TrxTypeOK, RxTypeOK, RequestStates,
     ReceivingUntilEndRx, SignalsAreCounted, PendingOnlyWhileBusy, SendingIsBusy, AsConstructed
<1>2. rxIsCorrupt \in BOOLEAN
  BY Zenon DEF PhyInit
<1> QED BY <1>1, <1>2 DEF PhyInv

\* No handler leaves m_isCorrupt without a Boolean value.
LEMMA CorruptFlagIsBoolean ==
  rxIsCorrupt \in BOOLEAN /\ [PhyNext]_phyVars => rxIsCorrupt' \in BOOLEAN
<1> SUFFICES ASSUME rxIsCorrupt \in BOOLEAN, [PhyNext]_phyVars
             PROVE  rxIsCorrupt' \in BOOLEAN
  OBVIOUS
<1>1. CASE Medium
  BY <1>1, Zenon DEF Medium, SignalStarts, SignalStops, StartRx, DecrementChannelRxSignals
<1>2. CASE FrameEnds
  BY <1>2, Zenon DEF FrameEnds, ReceptionEnds, TransmissionEnds, EndRx, rxVars
<1>3. CASE CcaEnds
  BY <1>3, Zenon DEF CcaEnds, rxVars
<1>4. CASE MacRequest
  BY <1>4, Zenon DEF MacRequest, AbortAndRetune, rxVars
<1>5. CASE UNCHANGED phyVars
  BY <1>5, Zenon DEF phyVars, rxVars
<1> QED BY <1>1, <1>2, <1>3, <1>4, <1>5 DEF PhyNext

\* The medium: a signal starts or one that is not being received ends.
LEMMA MediumInv == CoreInv /\ Medium => CoreInv'
<1> SUFFICES ASSUME CoreInv, Medium PROVE CoreInv'
  OBVIOUS
<1> USE PhyAssumption DEF CoreInv, TrxTypeOK, RxTypeOK, RequestStates, BusyStates,
        ReceivingUntilEndRx, SignalsAreCounted, PendingOnlyWhileBusy,
        SendingIsBusy, PhyIsBusy, AsConstructed
<1>1. ASSUME NEW f \in Frames, StartRx(f), UNCHANGED <<endCca, phyCurrentChannel>>
      PROVE  CoreInv'
  BY <1>1 DEF StartRx
<1>2. CASE DecrementChannelRxSignals /\ UNCHANGED <<trxVars, endCca, phyCurrentChannel>>
  BY <1>2 DEF DecrementChannelRxSignals, trxVars
<1> QED BY <1>1, <1>2 DEF Medium, SignalStarts, SignalStops

\* The end of the frame being received or transmitted.
LEMMA FrameEndsInv == CoreInv /\ FrameEnds => CoreInv'
<1> SUFFICES ASSUME CoreInv, FrameEnds PROVE CoreInv'
  OBVIOUS
<1> USE PhyAssumption DEF CoreInv, TrxTypeOK, RxTypeOK, RequestStates, BusyStates,
        ReceivingUntilEndRx, SignalsAreCounted, PendingOnlyWhileBusy,
        SendingIsBusy, PhyIsBusy, AsConstructed
<1>1. CASE EndRx /\ UNCHANGED <<endCca, phyCurrentChannel>>
  BY <1>1 DEF EndRx
<1>2. ASSUME NEW pending \in {trxStatePending} \cup RequestStates,
             EndTx(pending), UNCHANGED <<rxVars, endCca, phyCurrentChannel>>
      PROVE  CoreInv'
  BY <1>2 DEF EndTx, rxVars
<1> QED BY <1>1, <1>2 DEF FrameEnds, ReceptionEnds, TransmissionEnds

\* The calls of the MAC.
LEMMA MacRequestInv == CoreInv /\ MacRequest => CoreInv'
<1> SUFFICES ASSUME CoreInv, MacRequest PROVE CoreInv'
  OBVIOUS
<1> USE PhyAssumption DEF CoreInv, TrxTypeOK, RxTypeOK, RequestStates, BusyStates,
        ReceivingUntilEndRx, SignalsAreCounted, PendingOnlyWhileBusy,
        SendingIsBusy, PhyIsBusy, AsConstructed, trxVars, rxVars
<1>1. ASSUME NEW s \in RequestStates, PlmeSetTRXStateRequest(s),
             UNCHANGED <<rxVars, endCca, phyCurrentChannel>>
      PROVE  CoreInv'
  BY <1>1 DEF PlmeSetTRXStateRequest
<1>2. ASSUME NEW f \in Frames, PdDataRequest(f) \/ TurnOnAndSend(f),
             UNCHANGED <<rxVars, endCca, phyCurrentChannel>>
      PROVE  CoreInv'
  BY <1>2 DEF PdDataRequest, TurnOnAndSend
<1>3. ASSUME NEW woken \in RequestStates \cup BusyStates, PlmeCcaRequest(woken),
             UNCHANGED <<rxVars, phyCurrentChannel>>
      PROVE  CoreInv'
  BY <1>3 DEF PlmeCcaRequest
<1>4. ASSUME NEW c \in Channels, Retune(c), UNCHANGED <<trxVars, rxVars, endCca>>
      PROVE  CoreInv'
  BY <1>4 DEF Retune
<1>5. ASSUME NEW c \in Channels, AbortAndRetune(c, "IDLE"), UNCHANGED endCca
      PROVE  CoreInv'
  BY <1>5 DEF AbortAndRetune
<1> QED BY <1>1, <1>2, <1>3, <1>4, <1>5 DEF MacRequest

\* Every step preserves the invariant.
LEMMA NextInv == PhyInv /\ [PhyNext]_phyVars => PhyInv'
<1> SUFFICES ASSUME PhyInv, [PhyNext]_phyVars PROVE PhyInv'
  OBVIOUS
<1>1. rxIsCorrupt' \in BOOLEAN
  BY CorruptFlagIsBoolean, Zenon DEF PhyInv
<1>2. CoreInv'
  <2>1. CoreInv
    BY DEF PhyInv
  <2>2. CASE CcaEnds
    BY <2>1, <2>2 DEF CcaEnds, EndCca, CoreInv, TrxTypeOK, RxTypeOK, ReceivingUntilEndRx,
       SignalsAreCounted, PendingOnlyWhileBusy, SendingIsBusy, PhyIsBusy, AsConstructed,
       trxVars, rxVars
  <2>3. CASE UNCHANGED phyVars
    BY <2>1, <2>3 DEF CoreInv, TrxTypeOK, RxTypeOK, ReceivingUntilEndRx,
       SignalsAreCounted, PendingOnlyWhileBusy, SendingIsBusy, PhyIsBusy, AsConstructed,
       phyVars, trxVars, rxVars
  <2> QED BY <2>1, <2>2, <2>3, MediumInv, FrameEndsInv, MacRequestInv DEF PhyNext
<1> QED BY <1>1, <1>2 DEF PhyInv

\* PhyInv holds in every behaviour of the PHY.
LEMMA InvCorrect == PhySpec => []PhyInv
BY InitInv, NextInv, PTL DEF PhySpec

-----------------------------------------------------------------------------
(* What follows *)

\* The members of the PHY always have their types (zigbee-phy.h); for
\* m_rxTotalNum: it never wraps below zero.
THEOREM PhyTypeCorrect == PhySpec => []PhyTypeOK
<1>1. PhyInv => PhyTypeOK
  BY Zenon DEF PhyInv, CoreInv, PhyTypeOK
<1> QED BY <1>1, InvCorrect, PTL

\* The transceiver is in BUSY_RX exactly while an EndRx is scheduled (StartRx,
\* EndRx), whatever the MAC requests and to whatever channel it tunes.
THEOREM ReceptionAlwaysEnds == PhySpec => []ReceivingUntilEndRx
<1>1. PhyInv => ReceivingUntilEndRx
  BY DEF PhyInv, CoreInv
<1> QED BY <1>1, InvCorrect, PTL

\* m_rxTotalNum is the number of signals whose end is scheduled, the one of the frame
\* being received among them: no decrement ever wraps it.
THEOREM SignalsAlwaysCounted == PhySpec => []SignalsAreCounted
<1>1. PhyInv => SignalsAreCounted
  BY DEF PhyInv, CoreInv
<1> QED BY <1>1, InvCorrect, PTL

-----------------------------------------------------------------------------
(* One channel *)

\* A MAC that stays on one channel never aborts a frame.
LEMMA OneChannelNext ==
  ASSUME Channels = {InitChannel}, PhyInv, TransmittingUntilEndTx, [PhyNext]_phyVars
  PROVE  TransmittingUntilEndTx'
<1> USE PhyAssumption DEF PhyInv, CoreInv, TrxTypeOK, RequestStates, BusyStates,
        ReceivingUntilEndRx, TransmittingUntilEndTx
<1>1. CASE Medium
  BY <1>1 DEF Medium, SignalStarts, SignalStops, StartRx, DecrementChannelRxSignals, trxVars
<1>2. CASE FrameEnds
  BY <1>2 DEF FrameEnds, ReceptionEnds, TransmissionEnds, EndRx, EndTx
<1>3. CASE CcaEnds
  BY <1>3 DEF CcaEnds, trxVars
<1>4. CASE MacRequest
  <2>1. ASSUME NEW s \in RequestStates, PlmeSetTRXStateRequest(s)
        PROVE  TransmittingUntilEndTx'
    BY <2>1 DEF PlmeSetTRXStateRequest, PhyIsBusy
  <2>2. ASSUME NEW f \in Frames, PdDataRequest(f) \/ TurnOnAndSend(f)
        PROVE  TransmittingUntilEndTx'
    BY <2>2 DEF PdDataRequest, TurnOnAndSend
  <2>3. ASSUME NEW woken \in RequestStates \cup BusyStates, PlmeCcaRequest(woken)
        PROVE  TransmittingUntilEndTx'
    BY <2>3 DEF PlmeCcaRequest
  <2>4. ASSUME NEW c \in Channels, AbortAndRetune(c, "IDLE") PROVE FALSE
    BY <2>4 DEF AbortAndRetune
  <2> QED BY <1>4, <2>1, <2>2, <2>3, <2>4 DEF MacRequest, trxVars
<1>5. CASE UNCHANGED phyVars
  BY <1>5 DEF phyVars, trxVars
<1> QED BY <1>1, <1>2, <1>3, <1>4, <1>5 DEF PhyNext

\* On one channel the transceiver is in BUSY_TX exactly while an EndTx is
\* scheduled (PdDataRequest, EndTx): only the change to another channel, which
\* AbortAndRetune makes, separates the two.
THEOREM TransmissionAlwaysEnds ==
  ASSUME Channels = {InitChannel}
  PROVE  PhySpec => []TransmittingUntilEndTx
<1>1. PhyInit => TransmittingUntilEndTx
  BY DEF PhyInit, TransmittingUntilEndTx
<1>2. PhyInv /\ TransmittingUntilEndTx /\ [PhyNext]_phyVars => TransmittingUntilEndTx'
  BY OneChannelNext
<1> QED BY <1>1, <1>2, InvCorrect, PTL DEF PhySpec

\* On one channel a pending request waits for a scheduled EndTx or EndRx, which
\* applies it (PlmeSetTRXStateRequest, EndTx, EndRx), and never for an EndTx that was
\* cancelled.
THEOREM PendingMeetsItsFrameEnd ==
  ASSUME Channels = {InitChannel}
  PROVE  PhySpec => []PendingMeetsFrameEnd
<1>1. PhyInv /\ TransmittingUntilEndTx => PendingMeetsFrameEnd
  BY DEF PhyInv, CoreInv, PendingOnlyWhileBusy, PendingMeetsFrameEnd, PhyIsBusy, BusyStates,
         ReceivingUntilEndRx, TransmittingUntilEndTx
<1> QED BY <1>1, TransmissionAlwaysEnds, InvCorrect, PTL

-----------------------------------------------------------------------------
(* Several channels *)

\* The transceiver is stranded by a hop in mid-transmission and by nothing else, and
\* then for good.
LEMMA OnlyHopsStrandNext ==
  ASSUME PhyInv, [PhyNext]_phyVars
  PROVE  Stranded' <=>
           \/ Stranded
           \/ currentTxPacket # NoFrame /\ phyCurrentChannel' # phyCurrentChannel
<1> DEFINE Goal == Stranded' <=>
                     \/ Stranded
                     \/ currentTxPacket # NoFrame /\ phyCurrentChannel' # phyCurrentChannel
<1> USE PhyAssumption DEF Stranded, PhyInv, CoreInv, TrxTypeOK, RequestStates, BusyStates,
        ReceivingUntilEndRx, SendingIsBusy
<1>1. CASE Medium
  BY <1>1 DEF Medium, SignalStarts, SignalStops, StartRx, DecrementChannelRxSignals, trxVars
<1>2. CASE FrameEnds
  BY <1>2 DEF FrameEnds, ReceptionEnds, TransmissionEnds, EndRx, EndTx, PendingOnlyWhileBusy,
     PhyIsBusy
<1>3. CASE CcaEnds
  BY <1>3 DEF CcaEnds, trxVars
<1>4. CASE MacRequest
  <2>1. ASSUME NEW s \in RequestStates, PlmeSetTRXStateRequest(s), UNCHANGED phyCurrentChannel
        PROVE  Goal
    BY <2>1 DEF PlmeSetTRXStateRequest, PhyIsBusy
  <2>2. ASSUME NEW f \in Frames, PdDataRequest(f) \/ TurnOnAndSend(f),
               UNCHANGED phyCurrentChannel
        PROVE  Goal
    BY <2>2 DEF PdDataRequest, TurnOnAndSend, PhyIsBusy
  <2>3. ASSUME NEW woken \in RequestStates \cup BusyStates, PlmeCcaRequest(woken),
               UNCHANGED phyCurrentChannel
        PROVE  Goal
    BY <2>3 DEF PlmeCcaRequest
  <2>4. ASSUME NEW c \in Channels, Retune(c), UNCHANGED trxVars PROVE Goal
    BY <2>4 DEF Retune, PhyIsBusy, trxVars
  <2>5. ASSUME NEW c \in Channels, AbortAndRetune(c, "IDLE") PROVE Goal
    BY <2>5 DEF AbortAndRetune, PhyIsBusy
  <2> QED BY <1>4, <2>1, <2>2, <2>3, <2>4, <2>5 DEF MacRequest
<1>5. CASE UNCHANGED phyVars
  BY <1>5 DEF phyVars, trxVars
<1> QED BY <1>1, <1>2, <1>3, <1>4, <1>5 DEF PhyNext

-----------------------------------------------------------------------------
(* The management requests: PhyInv is what makes the power of a signal end   *)
(* with the reception it belongs to.                                         *)

\* A step of the data and transceiver services, or none.
LEMMA ManagedStep == [ManagedNext]_managedVars => [PhyNext]_phyVars
<1> SUFFICES ASSUME [ManagedNext]_managedVars PROVE [PhyNext]_phyVars
  OBVIOUS
<1>1. CASE StartRxMeasured \/ EndRxMeasured
  BY <1>1 DEF StartRxMeasured, EndRxMeasured, PhyNext, Medium, FrameEnds
<1>2. CASE SignalStops \/ TransmissionEnds \/ CcaEnds \/ MacRequest
  BY <1>2 DEF PhyNext, Medium, FrameEnds
<1>3. ASSUME NEW woken \in RequestStates \cup BusyStates, PlmeEdRequest(woken)
      PROVE  [PhyNext]_phyVars
  <2>1. CASE trxState = "SLEEP"
    <3>1. PlmeSetTRXStateRequest(woken) /\ UNCHANGED <<rxVars, endCca, phyCurrentChannel>>
      BY <1>3, <2>1 DEF PlmeEdRequest, PlmeSetTRXStateRequest, PhyIsBusy, BusyStates, rxVars
    <3>2. woken \in RequestStates
      BY <1>3, <2>1 DEF PlmeEdRequest
    <3> QED BY <3>1, <3>2 DEF PhyNext, MacRequest
  <2>2. CASE trxState # "SLEEP"
    BY <1>3, <2>2 DEF PlmeEdRequest, phyVars, trxVars, rxVars
  <2> QED BY <2>1, <2>2
<1>4. CASE EndEd \/ PlmeSetAttributeRequest \/ PlmeGetAttributeRequest
  BY <1>4 DEF EndEd, PlmeSetAttributeRequest, PlmeGetAttributeRequest
<1>5. CASE UNCHANGED managedVars
  BY <1>5 DEF managedVars
<1> QED BY <1>1, <1>2, <1>3, <1>4, <1>5 DEF ManagedNext

\* With the management requests the PHY is still the PHY: every step of it is one
\* of ZigbeePhy, or changes nothing of it (PlmeEdRequest of a sleeping PHY is the
\* request its callback makes).
THEOREM ManagedImplementsPhy == ManagedSpec => PhyInit /\ [][PhyNext]_phyVars
<1>1. ManagedInit => PhyInit
  BY DEF ManagedInit
<1> QED BY <1>1, ManagedStep, PTL DEF ManagedSpec

\* PhyInv holds in every behaviour of it.
LEMMA ManagedInvCorrect == ManagedSpec => []PhyInv
<1>1. ManagedInit => PhyInit
  BY DEF ManagedInit
<1> QED BY <1>1, ManagedStep, InitInv, NextInv, PTL DEF ManagedSpec

\* Only a change of channel during a transmission leaves BUSY_TX without the EndTx
\* that PlmeSetTRXStateRequest relies on, and nothing mends it: whatever the MAC
\* requests, the management requests included, and to however many channels it tunes.
THEOREM HopsStrand == ManagedSpec => OnlyHopsStrand
<1>1. PhyInv /\ [ManagedNext]_managedVars =>
        [Stranded' <=>
           \/ Stranded
           \/ currentTxPacket # NoFrame /\ phyCurrentChannel' # phyCurrentChannel]_phyVars
  BY ManagedStep, OnlyHopsStrandNext
<1> QED BY <1>1, ManagedInvCorrect, PTL DEF ManagedSpec, OnlyHopsStrand

\* A step of the MAC neither begins nor ends a reception.
LEMMA MacKeepsReception ==
  ASSUME PhyInv, MacRequest \/ SignalStops \/ TransmissionEnds \/ CcaEnds
  PROVE  UNCHANGED currentRxPacket
BY DEF MacRequest, SignalStops, TransmissionEnds, CcaEnds, DecrementChannelRxSignals,
   AbortAndRetune, rxVars

\* The invariant is inductive together with PhyInv.
LEMMA EnergyNext ==
  ASSUME PhyInv, PhyInv', EnergyOnlyWhileReceiving, [ManagedNext]_managedVars
  PROVE  EnergyOnlyWhileReceiving'
<1> DEFINE Counted == rxTotalPower = "SIGNAL" <=> currentRxPacket # NoFrame
<1>1. Counted /\ rxEdPeakPower # "SIGNAL"
  BY DEF EnergyOnlyWhileReceiving
<1>2. ReceivingUntilEndRx /\ ReceivingUntilEndRx'
  BY DEF PhyInv, CoreInv
<1>3. Counted' /\ rxEdPeakPower' # "SIGNAL"
  <2>1. CASE StartRxMeasured
    BY <1>1, <1>2, <2>1, PhyAssumption
       DEF StartRxMeasured, SignalStarts, StartRx, ReceivingUntilEndRx
  <2>2. CASE EndRxMeasured
    BY <1>1, <2>2 DEF EndRxMeasured, ReceptionEnds, EndRx
  <2>3. CASE (SignalStops \/ TransmissionEnds \/ CcaEnds \/ MacRequest)
               /\ UNCHANGED energyVars
    BY <1>1, <2>3, MacKeepsReception DEF energyVars
  <2>4. ASSUME NEW woken \in RequestStates \cup BusyStates, PlmeEdRequest(woken)
        PROVE  Counted' /\ rxEdPeakPower' # "SIGNAL"
    <3>1. UNCHANGED <<rxTotalPower, currentRxPacket>>
      BY <2>4 DEF PlmeEdRequest, rxVars
    <3>2. woken = "RX_ON" => rxTotalPower # "SIGNAL"
      BY <1>1, <1>2, <2>4 DEF PlmeEdRequest, ReceivingUntilEndRx
    <3> QED BY <1>1, <2>4, <3>1, <3>2 DEF PlmeEdRequest
  <2>5. CASE EndEd \/ PlmeSetAttributeRequest \/ PlmeGetAttributeRequest
               \/ UNCHANGED managedVars
    BY <1>1, <2>5 DEF EndEd, PlmeSetAttributeRequest, PlmeGetAttributeRequest, managedVars,
       energyVars, phyVars, rxVars
  <2> QED BY <2>1, <2>2, <2>3, <2>4, <2>5 DEF ManagedNext
<1> QED BY <1>2, <1>3 DEF EnergyOnlyWhileReceiving, ReceivingUntilEndRx, PhyIsBusy, BusyStates

\* Energy counts as a signal exactly while a frame is received, and neither
\* energy detection nor an assessment by energy ever comes upon it (StartRx, EndRx,
\* PlmeEdRequest).
THEOREM EnergyWhileReceiving == ManagedSpec => []EnergyOnlyWhileReceiving
<1>1. ManagedInit => EnergyOnlyWhileReceiving
  BY DEF ManagedInit, PhyInit, EnergyOnlyWhileReceiving
<1>2. PhyInv /\ PhyInv' /\ EnergyOnlyWhileReceiving /\ [ManagedNext]_managedVars
        => EnergyOnlyWhileReceiving'
  BY EnergyNext
<1> QED BY <1>1, <1>2, ManagedInvCorrect, PTL DEF ManagedSpec
=============================================================================
