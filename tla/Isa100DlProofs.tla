--------------------------- MODULE Isa100DlProofs ---------------------------
(***************************************************************************)
(* Proofs about the data link layer of one node.                           *)
(***************************************************************************)
EXTENDS Isa100Dl, LoopProofs, TLAPS

\* TypeOK of the transceiver, of the queue and of the calls, the variables a
\* request of the transceiver can touch.
TrxTypes ==
  /\ trxState \in Phy!RequestStates \cup Phy!BusyStates
  /\ trxStatePending \in Phy!RequestStates \cup {"IDLE"}
  /\ currentTxPacket \in TxElement \cup {NoFrame}

QueueTypes ==
  /\ txQueue \in Seq(TxElement)
  /\ expArqBackoff \in 0 .. MaxArqBackoff

CallTypes ==
  /\ processor \in {"ACTIVE", "SLEEP"}
  /\ upcall \in Upcalls

\* Counting an attempt keeps an element of the queue one, as long as it has an
\* attempt left (PlmeSetTrxStateConfirm checks m_txAttemptsRem first).
LEMMA AttemptedType ==
  ASSUME NEW e \in TxElement, AckEnabled => e.attempts > 0
  PROVE  Attempted(e) \in TxElement
<1>1. MaxFrameRetries \in Nat
  BY DlAssumption
<1>2. CASE AckEnabled
  <2>1. e.attempts \in Attempts /\ e.attempts - 1 \in Attempts
    BY <1>1, <1>2 DEF TxElement, Attempts
  <2>2. Attempted(e) = [e EXCEPT !.attempts = e.attempts - 1]
    BY <1>2 DEF Attempted
  <2> QED BY <2>1, <2>2 DEF TxElement
<1>3. CASE ~AckEnabled
  BY <1>3 DEF Attempted
<1> QED BY <1>2, <1>3

\* A request of the transceiver, with whatever its confirm makes the DL send,
\* drop or confirm, keeps the types.
LEMMA RequestTypes ==
  ASSUME NEW s \in Phy!RequestStates, NEW q \in Seq(TxElement),
         TrxTypes, QueueTypes, CallTypes, ProcessTrxStateRequest(s, q)
  PROVE  TrxTypes' /\ QueueTypes' /\ CallTypes'
<1> USE DEF TrxTypes, QueueTypes, CallTypes
<1>c. q # <<>> => Head(q) \in TxElement /\ Tail(q) \in Seq(TxElement)
  OBVIOUS
<1>u. /\ NoCall \in Upcalls
      /\ \A e \in TxElement, st \in {"SUCCESS", "FAILURE"} : Confirm(e.pkt, st) \in Upcalls
  BY DEF Upcalls, NoCall, Confirm, TxElement
<1>p. processor' \in {"ACTIVE", "SLEEP"}
  BY DEF ProcessTrxStateRequest
<1>1. CASE s = "TX_ON" /\ ~Phy!PhyIsBusy
  <2>1. CASE NothingToSend(q)
    BY <2>1, <1>u, <1>p DEF NothingToSend, Phy!PlmeSetTRXStateRequest, Phy!RequestStates, Phy!BusyStates
  <2>2. CASE InArqBackoff(q)
    <3>1. MaxArqBackoff \in Nat
      BY DlAssumption
    <3>2. expArqBackoff' \in 0 .. MaxArqBackoff /\ txQueue' = q /\ upcall' = NoCall
      BY <2>2, <3>1 DEF InArqBackoff
    <3>3. TrxTypes'
      BY <2>2 DEF InArqBackoff, Phy!PlmeSetTRXStateRequest, Phy!RequestStates, Phy!BusyStates
    <3> QED BY <3>2, <3>3, <1>u, <1>p
  <2>3. CASE AttemptsExhausted(q)
    <3>1. Head(q) \in TxElement /\ Tail(q) \in Seq(TxElement)
      BY <2>3, <1>c DEF AttemptsExhausted
    <3> QED BY <2>3, <3>1, <1>c, <1>u, <1>p DEF AttemptsExhausted, Phy!PlmeSetTRXStateRequest, Phy!RequestStates, Phy!BusyStates
  <2>4. CASE Refused(q)
    BY <2>4, <1>c, <1>u, <1>p, DlAssumption DEF Refused, Phy!PlmeSetTRXStateRequest, Phy!RequestStates, Phy!BusyStates
  <2>5. CASE Transmitted(q)
    BY <2>5, <1>c, <1>u, <1>p, AttemptedType DEF Transmitted, Phy!TurnOnAndSend, Phy!RequestStates, Phy!BusyStates
  <2> QED BY <1>1, <2>1, <2>2, <2>3, <2>4, <2>5 DEF ProcessTrxStateRequest
<1>2. CASE ~(s = "TX_ON" /\ ~Phy!PhyIsBusy)
  BY <1>2, <1>u, <1>p DEF ProcessTrxStateRequest, Phy!PlmeSetTRXStateRequest, Phy!RequestStates, Phy!BusyStates
<1> QED BY <1>1, <1>2

\* A step without a request that leaves a well-typed queue keeps the types.
LEMMA NoRequestTypes ==
  ASSUME NEW q \in Seq(TxElement), TrxTypes, QueueTypes, CallTypes, NoTrxRequest(q)
  PROVE  TrxTypes' /\ QueueTypes' /\ CallTypes'
BY DEF TrxTypes, QueueTypes, CallTypes, NoTrxRequest, trxVars, Upcalls, NoCall

\* The states the DL asks for are those the PHY accepts without aborting.
LEMMA RequestValues ==
  /\ {"RX_ON", "TX_ON", "TRX_OFF", "SLEEP"} = Phy!RequestStates
  /\ \A t : LinkRequest(t) # "none" => LinkRequest(t) \in {"RX_ON", "TX_ON"}
BY DEF Phy!RequestStates, LinkRequest

\* Not calling the upper layer is one of the values of upcall.
LEMMA NoCallType == NoCall \in Upcalls
BY DEF NoCall, Upcalls

\* The front of a queue that is not empty, and what is left behind it.
LEMMA FrontTypes ==
  ASSUME QueueTypes, txQueue # <<>>
  PROVE  Head(txQueue) \in TxElement /\ Tail(txQueue) \in Seq(TxElement)
BY DEF QueueTypes

\* Confirming the front element is a call the upper layer knows.
LEMMA FrontPacket ==
  ASSUME QueueTypes, txQueue # <<>>
  PROVE  Confirm(Head(txQueue).pkt, "SUCCESS") \in Upcalls
<1>1. Head(txQueue).pkt \in Packets
  BY FrontTypes DEF TxElement
<1> QED BY <1>1 DEF Confirm, Upcalls

\* Every step keeps the types of the transceiver, the queue and the calls.
LEMMA NextTrxTypes ==
  ASSUME TrxTypes, QueueTypes, CallTypes, rxIndications \in Seq(RxFrame),
         [Next]_vars
  PROVE  TrxTypes' /\ QueueTypes' /\ CallTypes'
<1> DEFINE Goal == TrxTypes' /\ QueueTypes' /\ CallTypes'
<1>q. txQueue \in Seq(TxElement)
  BY DEF QueueTypes
<1>1. CASE ProcessLink
  <2>1. PICK type : HopAndRequest(HopPattern[hopIndex], LinkRequest(type))
    BY <1>1 DEF ProcessLink
  <2>2. CASE LinkRequest(type) = "none" /\ NoTrxRequest(txQueue)
    BY <2>2, <1>q, NoRequestTypes
  <2>3. CASE LinkRequest(type) # "none" /\ ProcessTrxStateRequest(LinkRequest(type), txQueue)
    BY <2>3, <1>q, RequestTypes, RequestValues
  <2>4. CASE /\ Phy!AbortAndRetune(HopPattern[hopIndex],
                  IF LinkRequest(type) = "none" THEN "IDLE" ELSE LinkRequest(type))
             /\ processor' = "ACTIVE" /\ upcall' = NoCall /\ UNCHANGED queueVars
    BY <2>4, RequestValues, NoCallType
       DEF Phy!AbortAndRetune, TrxTypes, QueueTypes, CallTypes, queueVars
  <2> QED BY <2>1, <2>2, <2>3, <2>4 DEF HopAndRequest
<1>2. CASE IdleSlot
  BY <1>2, <1>q, RequestTypes, NoRequestTypes, RequestValues DEF IdleSlot
<1>3. CASE TurnTransmitterOn
  BY <1>3, <1>q, RequestTypes, RequestValues DEF TurnTransmitterOn
<1>4. CASE CallPlmeCcaRequest
  <2>1. CASE Backoff
    BY <2>1, <1>q, RequestTypes, RequestValues DEF Backoff
  <2>2. CASE /\ processor' = "ACTIVE" /\ Phy!PlmeCcaRequest("RX_ON")
             /\ upcall' = NoCall /\ UNCHANGED queueVars
    BY <2>2, NoCallType DEF Phy!PlmeCcaRequest, TrxTypes, QueueTypes, CallTypes, queueVars
  <2>3. CASE /\ Phy!PlmeCcaRequest(trxState)
             /\ upcall' = NoCall /\ UNCHANGED <<queueVars, processor>>
    BY <2>3, NoCallType DEF Phy!PlmeCcaRequest, TrxTypes, QueueTypes, CallTypes, queueVars
  <2> QED BY <1>4, <2>1, <2>2, <2>3 DEF CallPlmeCcaRequest
<1>5. CASE EndCca
  BY <1>5, <1>q, RequestTypes, NoRequestTypes, RequestValues DEF EndCca, Backoff
<1>6. CASE EndTx
  <2>1. Head(txQueue) \in TxElement /\ Tail(txQueue) \in Seq(TxElement)
    BY <1>6, FrontTypes DEF EndTx
  <2>2. Confirm(Head(txQueue).pkt, "SUCCESS") \in Upcalls
    BY <1>6, FrontPacket DEF EndTx
  <2> QED BY <1>6, <2>1, <2>2, NoCallType, RequestValues
      DEF EndTx, TxDone, Phy!EndTx, TrxTypes, QueueTypes, CallTypes
<1>7. CASE EndTxWithoutElement
  BY <1>7, NoCallType
     DEF EndTxWithoutElement, TrxTypes, QueueTypes, CallTypes, trxVars, queueVars
<1>8. ASSUME NEW f \in RxFrame, StartRx(f) PROVE Goal
  BY <1>8, NoCallType
     DEF StartRx, Phy!StartRx, TrxTypes, QueueTypes, CallTypes, queueVars, Phy!BusyStates
<1>9. CASE DecrementChannelRxSignals
  BY <1>9, NoCallType
     DEF DecrementChannelRxSignals, TrxTypes, QueueTypes, CallTypes, trxVars, queueVars
<1>10. CASE EndRx
  BY <1>10, NoCallType, RequestValues
     DEF EndRx, Phy!EndRx, TrxTypes, QueueTypes, CallTypes, queueVars
<1>11. CASE ProcessPdDataIndication
  <2> DEFINE f == Head(rxIndications)
  <2>1. f \in RxFrame /\ f.pkt \in Packets
    <3>1. rxIndications # <<>>
      BY <1>11 DEF ProcessPdDataIndication
    <3>2. f \in RxFrame
      BY <3>1
    <3> QED BY <3>2 DEF RxFrame
  <2>2. CASE ProcessAck(f)
    <3>1. Confirm(f.pkt, "SUCCESS") \in Upcalls
      BY <2>1 DEF Confirm, Upcalls
    <3>2. CASE upcall' = NoCall /\ UNCHANGED queueVars
      BY <2>2, <3>2, NoCallType
         DEF ProcessAck, TrxTypes, QueueTypes, CallTypes, trxVars, queueVars
    <3>3. ASSUME NEW i \in AckedPositions(f.pkt), txQueue' = RemoveAt(txQueue, i),
                 expArqBackoff' = 0, upcall' = Confirm(f.pkt, "SUCCESS")
          PROVE  Goal
      <4>1. i \in 1 .. Len(txQueue)
        BY DEF AckedPositions
      <4>2. RemoveAt(txQueue, i) \in Seq(TxElement)
        BY <4>1, <1>q DEF RemoveAt
      <4> QED BY <2>2, <3>1, <3>3, <4>2, DlAssumption
          DEF ProcessAck, TrxTypes, QueueTypes, CallTypes, trxVars
    <3> QED BY <2>2, <3>2, <3>3 DEF ProcessAck
  <2>3. CASE AnswerWithAck(f)
    <3> DEFINE q == <<[pkt |-> f.pkt, kind |-> "ack", attempts |-> 1]>> \o txQueue
    <3>1. q \in Seq(TxElement)
      BY <2>1, <1>q, DlAssumption DEF TxElement, Kinds, Attempts
    <3>2. ProcessTrxStateRequest("TX_ON", q)
      BY <2>3 DEF AnswerWithAck
    <3> QED BY <3>1, <3>2, RequestTypes, RequestValues
  <2>4. CASE ForwardOn(f)
    <3> DEFINE e == [pkt |-> f.pkt, kind |-> "forward", attempts |-> MaxFrameRetries + 1]
    <3>1. e \in TxElement
      BY <2>1, DlAssumption DEF TxElement, Kinds, Attempts
    <3>2. Append(txQueue, e) \in Seq(TxElement) /\ NoTrxRequest(Append(txQueue, e))
      BY <2>4, <3>1, <1>q DEF ForwardOn
    <3> QED BY <3>2, NoRequestTypes
  <2>5. CASE DeliverUp(f)
    BY <2>5, <2>1 DEF DeliverUp, Indication, Upcalls, TrxTypes, QueueTypes, CallTypes,
                      trxVars, queueVars
  <2>6. CASE DropOverheard(f)
    BY <2>6, <1>q, NoRequestTypes DEF DropOverheard
  <2> QED BY <1>11, <2>2, <2>3, <2>4, <2>5, <2>6 DEF ProcessPdDataIndication
<1>12. ASSUME NEW p \in Packets, NEW kind \in {"own", "oversize"}, DlDataRequest(p, kind)
       PROVE  Goal
  <2> DEFINE e == [pkt |-> p, kind |-> kind,
                   attempts |-> IF AckEnabled THEN MaxFrameRetries + 1 ELSE 0]
  <2>1. e \in TxElement
    BY DlAssumption DEF TxElement, Kinds, Attempts
  <2>2. txQueue' = Append(txQueue, e) /\ Append(txQueue, e) \in Seq(TxElement)
    BY <1>12, <2>1, <1>q DEF DlDataRequest
  <2> QED BY <1>12, <2>2, NoCallType
      DEF DlDataRequest, TrxTypes, QueueTypes, CallTypes, trxVars
<1>13. CASE FlushTxQueue
  BY <1>13, NoCallType DEF FlushTxQueue, TrxTypes, QueueTypes, CallTypes, trxVars
<1>14. CASE UNCHANGED vars
  BY <1>14 DEF vars, TrxTypes, QueueTypes, CallTypes, trxVars, queueVars
<1> QED
  BY <1>1, <1>2, <1>3, <1>4, <1>5, <1>6, <1>7, <1>8, <1>9, <1>10, <1>11, <1>12, <1>13,
     <1>14 DEF Next, SlotBoundary, RadioEvent, Reception, UpperLayer

-----------------------------------------------------------------------------
\* TypeOK of the receiver.
RxTypes ==
  /\ currentRxPacket \in RxFrame \cup {NoFrame}
  /\ rxTotalNum \in Nat /\ signalEnds \in Nat
  /\ rxIndications \in Seq(RxFrame)

\* A frame is being received exactly in BUSY_RX, the signals are counted, the
\* received one included, and a frame is being transmitted only in BUSY_TX.
Coupling ==
  /\ Phy!ReceivingUntilEndRx
  /\ Phy!SignalsAreCounted
  /\ currentTxPacket # NoFrame => trxState = "BUSY_TX"

\* A request never enters or leaves BUSY_RX, and a frame it puts on the air
\* takes the transceiver to BUSY_TX.
LEMMA RequestCoupling ==
  ASSUME NEW s \in Phy!RequestStates, NEW q,
         currentTxPacket # NoFrame => trxState = "BUSY_TX",
         ProcessTrxStateRequest(s, q)
  PROVE  /\ trxState' = "BUSY_RX" <=> trxState = "BUSY_RX"
         /\ currentTxPacket' # NoFrame => trxState' = "BUSY_TX"
<1> USE DEF Phy!RequestStates, Phy!BusyStates, Phy!PhyIsBusy, Phy!PlmeSetTRXStateRequest
<1>1. CASE s = "TX_ON" /\ ~Phy!PhyIsBusy
  BY <1>1 DEF ProcessTrxStateRequest, NothingToSend, InArqBackoff, AttemptsExhausted,
              Refused, Transmitted, Phy!TurnOnAndSend
<1>2. CASE ~(s = "TX_ON" /\ ~Phy!PhyIsBusy)
  BY <1>2 DEF ProcessTrxStateRequest
<1> QED BY <1>1, <1>2

\* A step that makes at most a request of the transceiver and leaves the
\* receiver alone keeps the coupling.
LEMMA CouplingKept ==
  ASSUME Coupling, UNCHANGED rxVars,
         \/ \E s \in Phy!RequestStates, q \in Seq(TxElement) : ProcessTrxStateRequest(s, q)
         \/ UNCHANGED trxVars
  PROVE  Coupling'
<1>1. ASSUME NEW s \in Phy!RequestStates, NEW q \in Seq(TxElement),
             ProcessTrxStateRequest(s, q)
      PROVE  Coupling'
  <2>1. /\ trxState' = "BUSY_RX" <=> trxState = "BUSY_RX"
        /\ currentTxPacket' # NoFrame => trxState' = "BUSY_TX"
    BY <1>1, RequestCoupling DEF Coupling
  <2> QED BY <2>1 DEF Coupling, rxVars, Phy!ReceivingUntilEndRx, Phy!SignalsAreCounted
<1>2. CASE UNCHANGED trxVars
  BY <1>2 DEF Coupling, trxVars, rxVars, Phy!ReceivingUntilEndRx, Phy!SignalsAreCounted
<1> QED BY <1>1, <1>2

\* Every step keeps the types of the receiver and the coupling of the frames
\* on the air with the transceiver state.
LEMMA NextRxTypes ==
  ASSUME TrxTypes, txQueue \in Seq(TxElement), RxTypes, Coupling, [Next]_vars
  PROVE  RxTypes' /\ Coupling'
<1> DEFINE Goal == RxTypes' /\ Coupling'
<1>u. ASSUME UNCHANGED <<rxVars, rxIndications>> PROVE RxTypes'
  BY <1>u DEF RxTypes, rxVars
<1>1. CASE ProcessLink
  <2>1. UNCHANGED rxIndications
    BY <1>1 DEF ProcessLink
  <2>2. PICK type : HopAndRequest(HopPattern[hopIndex], LinkRequest(type))
    BY <1>1 DEF ProcessLink
  <2>3. CASE LinkRequest(type) = "none" /\ NoTrxRequest(txQueue) /\ UNCHANGED rxVars
    BY <2>1, <2>3, <1>u, CouplingKept DEF NoTrxRequest
  <2>4. CASE /\ LinkRequest(type) # "none" /\ ProcessTrxStateRequest(LinkRequest(type), txQueue)
             /\ UNCHANGED rxVars
    BY <2>1, <2>4, <1>u, CouplingKept, RequestValues
  <2>5. CASE Phy!AbortAndRetune(HopPattern[hopIndex],
                  IF LinkRequest(type) = "none" THEN "IDLE" ELSE LinkRequest(type))
    BY <2>1, <2>5 DEF Phy!AbortAndRetune, RxTypes, Coupling, Phy!ReceivingUntilEndRx,
                      Phy!SignalsAreCounted
  <2> QED BY <2>2, <2>3, <2>4, <2>5 DEF HopAndRequest
<1>2. CASE IdleSlot
  BY <1>2, <1>u, CouplingKept, RequestValues DEF IdleSlot, NoTrxRequest
<1>3. CASE TurnTransmitterOn
  BY <1>3, <1>u, CouplingKept, RequestValues DEF TurnTransmitterOn
<1>4. CASE CallPlmeCcaRequest
  <2>1. UNCHANGED <<rxVars, rxIndications>>
    BY <1>4 DEF CallPlmeCcaRequest
  <2>2. CASE Backoff
    BY <2>1, <2>2, <1>u, CouplingKept, RequestValues DEF Backoff
  <2>3. CASE trxState = "SLEEP" /\ Phy!PlmeCcaRequest("RX_ON")
    BY <2>1, <2>3, <1>u DEF Phy!PlmeCcaRequest, Coupling, rxVars,
       Phy!ReceivingUntilEndRx, Phy!SignalsAreCounted
  <2>4. CASE trxState # "SLEEP" /\ Phy!PlmeCcaRequest(trxState)
    BY <2>1, <2>4, <1>u, CouplingKept DEF Phy!PlmeCcaRequest, trxVars
  <2> QED BY <1>4, <2>2, <2>3, <2>4 DEF CallPlmeCcaRequest
<1>5. CASE EndCca
  BY <1>5, <1>u, CouplingKept, RequestValues DEF EndCca, Backoff, NoTrxRequest
<1>6. CASE EndTx
  <2>1. UNCHANGED <<rxVars, rxIndications>>
    BY <1>6 DEF EndTx
  <2>2. PICK pending \in {"RX_ON", trxStatePending} : Phy!EndTx(pending)
    BY <1>6 DEF EndTx, TxDone
  <2> QED BY <2>1, <2>2, <1>u DEF Phy!EndTx, Coupling, TrxTypes, rxVars, Phy!RequestStates,
          Phy!ReceivingUntilEndRx, Phy!SignalsAreCounted
<1>7. CASE EndTxWithoutElement
  BY <1>7, <1>u, CouplingKept DEF EndTxWithoutElement
<1>8. ASSUME NEW f \in RxFrame, StartRx(f) PROVE Goal
  <2>1. f # NoFrame
    BY NoFrameAssumption
  <2> QED BY <2>1, <1>8 DEF StartRx, Phy!StartRx, RxTypes, Coupling,
          Phy!ReceivingUntilEndRx, Phy!SignalsAreCounted
<1>9. CASE DecrementChannelRxSignals
  BY <1>9 DEF DecrementChannelRxSignals, Phy!DecrementChannelRxSignals, RxTypes, Coupling,
     trxVars, Phy!ReceivingUntilEndRx, Phy!SignalsAreCounted
<1>10. CASE EndRx
  <2>1. currentRxPacket \in RxFrame
    BY <1>10 DEF EndRx, Phy!EndRx, RxTypes
  <2>2. rxIndications' \in Seq(RxFrame)
    BY <1>10, <2>1 DEF EndRx, RxTypes
  <2> QED BY <1>10, <2>1, <2>2 DEF EndRx, Phy!EndRx, RxTypes, Coupling, TrxTypes,
          Phy!RequestStates, Phy!ReceivingUntilEndRx, Phy!SignalsAreCounted
<1>11. CASE ProcessPdDataIndication
  <2> DEFINE f == Head(rxIndications)
  <2>1. UNCHANGED rxVars /\ rxIndications # <<>> /\ rxIndications' = Tail(rxIndications)
    BY <1>11 DEF ProcessPdDataIndication
  <2>2. rxIndications' \in Seq(RxFrame) /\ f \in RxFrame
    BY <2>1 DEF RxTypes
  <2>3. CASE AnswerWithAck(f)
    <3>1. <<[pkt |-> f.pkt, kind |-> "ack", attempts |-> 1]>> \o txQueue \in Seq(TxElement)
      BY <2>2, DlAssumption DEF TxElement, Kinds, Attempts, RxFrame
    <3> QED BY <2>1, <2>2, <2>3, <3>1, CouplingKept, RequestValues
            DEF AnswerWithAck, RxTypes, rxVars
  <2>4. CASE UNCHANGED trxVars
    BY <2>1, <2>2, <2>4, CouplingKept DEF RxTypes, rxVars
  <2> QED BY <1>11, <2>3, <2>4 DEF ProcessPdDataIndication, ProcessAck, ForwardOn,
          DeliverUp, DropOverheard, NoTrxRequest
<1>12. ASSUME NEW p \in Packets, NEW kind \in {"own", "oversize"}, DlDataRequest(p, kind)
       PROVE  Goal
  BY <1>12, <1>u, CouplingKept DEF DlDataRequest
<1>13. CASE FlushTxQueue
  BY <1>13, <1>u, CouplingKept DEF FlushTxQueue
<1>14. CASE UNCHANGED vars
  BY <1>14, <1>u, CouplingKept DEF vars
<1> QED
  BY <1>1, <1>2, <1>3, <1>4, <1>5, <1>6, <1>7, <1>8, <1>9, <1>10, <1>11, <1>12, <1>13,
     <1>14 DEF Next, SlotBoundary, RadioEvent, Reception, UpperLayer

-----------------------------------------------------------------------------
\* TypeOK of the schedule, the counters and the environment.
CounterTypes ==
  /\ expBackoff \in 0 .. MaxBackoff
  /\ linkIndex \in 1 .. Len(LinkTypes)
  /\ hopIndex \in 1 .. Len(HopPattern)
  /\ slotsLeft \in 1 .. SfPeriod
  /\ slotType \in SlotTypes \cup {"IDLE"}
  /\ xmitEvent \in {"none", "TX_ON", "CCA"}
  /\ endCca \in Nat
  /\ phyCurrentChannel \in Range(HopPattern) \cup {InitChannel}
  /\ acksOwed \subseteq Packets
  /\ heard \in Nat

\* TypeOK of the Boolean variables, kept apart because the provers treat them
\* so.
FlagTypes == rxIsCorrupt \in BOOLEAN /\ idleEvent \in BOOLEAN /\ fault \in BOOLEAN

\* The indices stay inside the schedule and the hopping pattern.
LEMMA CyclicIndex ==
  ASSUME NEW i \in Nat, NEW n \in Nat \ {0}
  PROVE  (i % n) + 1 \in 1 .. n
OBVIOUS

\* The distance from one link to the next is positive and at most a superframe.
LEMMA JumpRange ==
  ASSUME NEW cur \in Nat, NEW next \in Nat, NEW period \in Nat, cur < period, next < period
  PROVE  (IF next <= cur THEN next + period - cur ELSE next - cur) \in 1 .. period
OBVIOUS

\* What the assumptions say of the schedule, one fact per constant.
LEMMA ScheduleTypes ==
  /\ Len(LinkTypes) \in Nat \ {0} /\ Len(LinkSlots) = Len(LinkTypes)
  /\ \A i \in 1 .. Len(LinkTypes) : /\ LinkTypes[i] \in SlotTypes
                                    /\ LinkSlots[i] \in Nat /\ LinkSlots[i] < SfPeriod
  /\ SfPeriod \in Nat
  /\ Len(HopPattern) \in Nat \ {0}
<1>1. /\ LinkTypes \in Seq(SlotTypes) /\ LinkTypes # <<>>
      /\ LinkSlots \in Seq(Nat) /\ Len(LinkSlots) = Len(LinkTypes)
      /\ \A i \in 1 .. Len(LinkSlots) : LinkSlots[i] < SfPeriod
      /\ SfPeriod \in Nat
      /\ HopPattern \in Seq(Nat) /\ HopPattern # <<>>
  BY DlAssumption, Zenon
<1>2. Len(LinkTypes) \in Nat \ {0} /\ Len(HopPattern) \in Nat \ {0}
  BY <1>1
<1>3. \A i \in 1 .. Len(LinkTypes) : LinkTypes[i] \in SlotTypes /\ LinkSlots[i] \in Nat
  BY <1>1
<1> QED BY <1>1, <1>2, <1>3

\* ProcessLink moves to a link of the schedule, one to SfPeriod slots ahead.
LEMMA SlotJumpRange ==
  ASSUME linkIndex \in 1 .. Len(LinkTypes)
  PROVE  NextLink \in 1 .. Len(LinkTypes) /\ SlotJump \in 1 .. SfPeriod
<1>1. NextLink \in 1 .. Len(LinkTypes)
  BY ScheduleTypes, CyclicIndex DEF NextLink
<1>2. /\ LinkSlots[linkIndex] \in Nat /\ LinkSlots[linkIndex] < SfPeriod
      /\ LinkSlots[NextLink] \in Nat /\ LinkSlots[NextLink] < SfPeriod
      /\ SfPeriod \in Nat
  BY <1>1, ScheduleTypes
<1>3. SlotJump \in 1 .. SfPeriod
  BY <1>2, JumpRange DEF SlotJump
<1> QED BY <1>1, <1>3

\* The events ProcessLink schedules into a slot.
LEMMA XmitEventType == \A t : XmitEvent(t) \in {"none", "TX_ON", "CCA"}
BY Zenon DEF XmitEvent

\* The channel ProcessLink tunes to.
LEMMA HopChannel ==
  ASSUME hopIndex \in 1 .. Len(HopPattern)
  PROVE  HopPattern[hopIndex] \in Range(HopPattern)
BY DlAssumption DEF Range

\* Every step keeps the schedule indices and the counters in their ranges.
LEMMA NextCounterTypes ==
  ASSUME CounterTypes, TrxTypes, [Next]_vars
  PROVE  CounterTypes'
<1> USE DEF CounterTypes
<1>c. {MaxBackoff, MaxSignals, MaxHeard} \subseteq Nat /\ SfPeriod \in Nat
  BY DlAssumption
<1>n. ASSUME NewSlot PROVE acksOwed' \subseteq Packets /\ heard' \in Nat
  BY <1>n DEF NewSlot
<1>1. CASE ProcessLink
  <2>1. linkIndex' \in 1 .. Len(LinkTypes) /\ slotsLeft' \in 1 .. SfPeriod
    BY <1>1, SlotJumpRange DEF ProcessLink
  <2>2. hopIndex' \in 1 .. Len(HopPattern)
    BY <1>1, CyclicIndex, ScheduleTypes DEF ProcessLink
  <2>3. LinkTypes[linkIndex] \in SlotTypes
    BY ScheduleTypes
  <2>4. slotType' \in SlotTypes
    BY <1>1, <2>3 DEF ProcessLink
  <2>5. xmitEvent' \in {"none", "TX_ON", "CCA"}
    BY <1>1, XmitEventType, Zenon DEF ProcessLink
  <2>6. expBackoff' \in 0 .. MaxBackoff
    BY <1>1, <1>c DEF ProcessLink, BackoffAfter
  <2>7. phyCurrentChannel' \in Range(HopPattern)
    BY <1>1, HopChannel DEF ProcessLink, HopAndRequest, Phy!Retune, Phy!AbortAndRetune
  <2>8. endCca' \in Nat /\ NewSlot
    BY <1>1 DEF ProcessLink
  <2> QED BY <2>1, <2>2, <2>4, <2>5, <2>6, <2>7, <2>8, <1>n
<1>2. CASE IdleSlot
  <2>1. slotsLeft' \in 1 .. SfPeriod
    BY <1>2, <1>c DEF IdleSlot
  <2> QED BY <1>2, <2>1, <1>n DEF IdleSlot
<1>3. CASE TurnTransmitterOn
  BY <1>3 DEF TurnTransmitterOn, slotVars, envVars
<1>4. CASE CallPlmeCcaRequest
  <2>1. endCca' \in Nat
    BY <1>4 DEF CallPlmeCcaRequest, Phy!PlmeCcaRequest
  <2> QED BY <1>4, <2>1 DEF CallPlmeCcaRequest, Backoff, slotVars, envVars
<1>5. CASE EndCca
  <2>1. endCca' \in Nat
    BY <1>5 DEF EndCca, Phy!EndCca
  <2> QED BY <1>5, <2>1 DEF EndCca, Backoff, slotVars, envVars
<1>6. CASE EndTx
  <2>1. currentTxPacket \in TxElement
    BY <1>6 DEF EndTx, TxDone, Phy!EndTx, TrxTypes
  <2>2. acksOwed' \subseteq Packets
    BY <1>6, <2>1 DEF EndTx, TxElement
  <2> QED BY <1>6, <2>2 DEF EndTx, slotVars
<1>7. CASE EndTxWithoutElement
  BY <1>7 DEF EndTxWithoutElement, slotVars, envVars
<1>8. ASSUME NEW f \in RxFrame, StartRx(f) PROVE CounterTypes'
  BY <1>8 DEF StartRx, slotVars
<1>9. CASE DecrementChannelRxSignals
  BY <1>9 DEF DecrementChannelRxSignals, slotVars, envVars
<1>10. CASE EndRx
  BY <1>10 DEF EndRx, slotVars, envVars
<1>11. CASE ProcessPdDataIndication
  BY <1>11 DEF ProcessPdDataIndication, slotVars, envVars
<1>12. ASSUME NEW p \in Packets, NEW kind \in {"own", "oversize"}, DlDataRequest(p, kind)
       PROVE  CounterTypes'
  BY <1>12 DEF DlDataRequest, slotVars, envVars
<1>13. CASE FlushTxQueue
  BY <1>13 DEF FlushTxQueue, slotVars, envVars
<1>14. CASE UNCHANGED vars
  BY <1>14 DEF vars, slotVars, envVars
<1> QED
  BY <1>1, <1>2, <1>3, <1>4, <1>5, <1>6, <1>7, <1>8, <1>9, <1>10, <1>11, <1>12, <1>13,
     <1>14 DEF Next, SlotBoundary, RadioEvent, Reception, UpperLayer

\* Whether an idle slot follows is a Boolean.
LEMMA TurnsOffNextType == TurnsOffNext \in BOOLEAN
BY DEF TurnsOffNext

\* Every step keeps the flags Boolean.
LEMMA NextFlagTypes ==
  ASSUME FlagTypes, [Next]_vars
  PROVE  FlagTypes'
<1> USE DEF FlagTypes
<1>1. CASE ProcessLink
  BY <1>1, TurnsOffNextType, Zenon
     DEF ProcessLink, HopAndRequest, Phy!AbortAndRetune, rxVars
<1>2. CASE IdleSlot
  BY <1>2, Zenon DEF IdleSlot, rxVars
<1>3. CASE RadioEvent
  BY <1>3, Zenon DEF RadioEvent, TurnTransmitterOn, CallPlmeCcaRequest, EndCca, EndTx,
     EndTxWithoutElement, rxVars, slotVars
<1>4. ASSUME NEW f \in RxFrame, StartRx(f) PROVE FlagTypes'
  BY <1>4, Zenon DEF StartRx, Phy!StartRx, slotVars
<1>5. CASE Reception
  BY <1>5, Zenon DEF Reception, DecrementChannelRxSignals, EndRx, ProcessPdDataIndication,
     Phy!EndRx, Phy!DecrementChannelRxSignals, slotVars, rxVars
<1>6. CASE UpperLayer
  BY <1>6, Zenon DEF UpperLayer, DlDataRequest, FlushTxQueue, rxVars, slotVars
<1>7. CASE UNCHANGED vars
  BY <1>7, Zenon DEF vars, rxVars, slotVars
<1> QED BY <1>1, <1>2, <1>3, <1>4, <1>5, <1>6, <1>7 DEF Next, SlotBoundary

-----------------------------------------------------------------------------
\* The inductive type invariant: every type, and the coupling that bounds the
\* signal counter from below when a frame ends.
DlTypeInv ==
  /\ TrxTypes /\ QueueTypes /\ CallTypes
  /\ RxTypes /\ Coupling
  /\ CounterTypes /\ FlagTypes

\* A node just started is well typed.
LEMMA InitTypes == Init => DlTypeInv
<1> SUFFICES ASSUME Init PROVE DlTypeInv
  OBVIOUS
<1>1. TrxTypes
  BY DEF Init, Phy!PhyInit, TrxTypes, Phy!RequestStates
<1>2. QueueTypes
  BY DlAssumption DEF Init, QueueTypes
<1>3. CallTypes
  BY NoCallType DEF Init, CallTypes
<1>4. RxTypes /\ Coupling
  BY DEF Init, Phy!PhyInit, RxTypes, Coupling, Phy!ReceivingUntilEndRx,
         Phy!SignalsAreCounted
<1>5. CounterTypes
  <2>1. slotsLeft \in 1 .. SfPeriod
    <3>1. 1 \in 1 .. Len(LinkTypes)
      BY ScheduleTypes
    <3>2. LinkSlots[1] \in Nat /\ LinkSlots[1] < SfPeriod /\ SfPeriod \in Nat
      BY <3>1, ScheduleTypes
    <3> QED BY <3>2 DEF Init
  <2>2. linkIndex \in 1 .. Len(LinkTypes) /\ hopIndex \in 1 .. Len(HopPattern)
    BY ScheduleTypes DEF Init
  <2>3. expBackoff \in 0 .. MaxBackoff
    BY DlAssumption DEF Init
  <2> QED BY <2>1, <2>2, <2>3 DEF Init, Phy!PhyInit, CounterTypes
<1>6. FlagTypes
  BY Zenon DEF Init, Phy!PhyInit, FlagTypes
<1> QED BY <1>1, <1>2, <1>3, <1>4, <1>5, <1>6 DEF DlTypeInv

\* Every step keeps the type invariant.
LEMMA NextTypes == DlTypeInv /\ [Next]_vars => DlTypeInv'
<1> SUFFICES ASSUME DlTypeInv, [Next]_vars PROVE DlTypeInv'
  OBVIOUS
<1>1. rxIndications \in Seq(RxFrame) /\ txQueue \in Seq(TxElement)
  BY DEF DlTypeInv, RxTypes, QueueTypes
<1>2. TrxTypes' /\ QueueTypes' /\ CallTypes'
  BY <1>1, NextTrxTypes DEF DlTypeInv
<1>3. RxTypes' /\ Coupling'
  BY <1>1, NextRxTypes DEF DlTypeInv
<1>4. CounterTypes'
  BY NextCounterTypes DEF DlTypeInv
<1>5. FlagTypes'
  BY NextFlagTypes DEF DlTypeInv
<1> QED BY <1>2, <1>3, <1>4, <1>5 DEF DlTypeInv

\* The type invariant holds throughout.
LEMMA TypeInvariance == Spec => []DlTypeInv
BY InitTypes, NextTypes, PTL DEF Spec

\* In every state a node reaches, with any schedule, hopping pattern and
\* options, its variables have the types of the C++ members they stand for:
\* the indices stay inside the vectors, the counters inside their ranges.
THEOREM TypeCorrect == Spec => []TypeOK
<1>1. DlTypeInv => TypeOK
  <2> SUFFICES ASSUME DlTypeInv PROVE TypeOK
    OBVIOUS
  <2>1. Phy!TrxTypeOK
    BY DEF DlTypeInv, TrxTypes, Phy!TrxTypeOK
  <2>2. Phy!RxTypeOK
    BY DEF DlTypeInv, RxTypes, Phy!RxTypeOK
  <2>3. Phy!PhyTypeOK
    BY <2>1, <2>2, Zenon DEF DlTypeInv, CounterTypes, FlagTypes, Phy!PhyTypeOK
  <2> QED BY <2>3, Zenon DEF DlTypeInv, TrxTypes, QueueTypes, CallTypes, RxTypes,
          CounterTypes, FlagTypes, TypeOK
<1> QED BY <1>1, TypeInvariance, PTL

-----------------------------------------------------------------------------
\* A request made with queue q leaves the frame on the air, old or new, at the
\* front of the queue if it was at the front of q.
LEMMA RequestInFlight ==
  ASSUME NEW s \in Phy!RequestStates, NEW q \in Seq(TxElement),
         currentTxPacket # NoFrame => trxState = "BUSY_TX",
         currentTxPacket # NoFrame => q # <<>> /\ Head(q) = currentTxPacket,
         ProcessTrxStateRequest(s, q)
  PROVE  InFlightIsFront'
<1> USE DEF InFlightIsFront
<1>1. CASE s = "TX_ON" /\ ~Phy!PhyIsBusy
  <2>1. currentTxPacket = NoFrame
    BY <1>1 DEF Phy!PhyIsBusy, Phy!BusyStates
  <2>2. CASE Transmitted(q)
    <3>1. /\ currentTxPacket' = Attempted(Head(q))
          /\ txQueue' = <<Attempted(Head(q))>> \o Tail(q)
          /\ Tail(q) \in Seq(TxElement)
      BY <2>2 DEF Transmitted, Phy!TurnOnAndSend
    <3> QED BY <3>1
  <2>3. CASE NothingToSend(q) \/ InArqBackoff(q) \/ AttemptsExhausted(q) \/ Refused(q)
    BY <2>1, <2>3 DEF NothingToSend, InArqBackoff, AttemptsExhausted, Refused,
       Phy!PlmeSetTRXStateRequest
  <2> QED BY <1>1, <2>2, <2>3 DEF ProcessTrxStateRequest
<1>2. CASE ~(s = "TX_ON" /\ ~Phy!PhyIsBusy)
  BY <1>2 DEF ProcessTrxStateRequest, Phy!PlmeSetTRXStateRequest
<1> QED BY <1>1, <1>2

\* Appending never changes the front of a queue that is not empty.
LEMMA AppendKeepsFront ==
  ASSUME NEW e, InFlightIsFront, QueueTypes,
         txQueue' = Append(txQueue, e), UNCHANGED currentTxPacket
  PROVE  InFlightIsFront'
BY DEF InFlightIsFront, QueueTypes

\* Without acknowledgements and flushes, no step separates the frame on the
\* air from the front of the queue.
LEMMA NextInFlight ==
  ASSUME ~AckEnabled, ~FlushAllowed, DlTypeInv, InFlightIsFront, [Next]_vars
  PROVE  InFlightIsFront'
<1>q. /\ txQueue \in Seq(TxElement)
      /\ currentTxPacket # NoFrame => trxState = "BUSY_TX"
      /\ currentTxPacket # NoFrame => txQueue # <<>> /\ Head(txQueue) = currentTxPacket
  BY DEF DlTypeInv, QueueTypes, Coupling, InFlightIsFront
<1>s. ASSUME UNCHANGED <<txQueue, currentTxPacket>> PROVE InFlightIsFront'
  BY <1>s DEF InFlightIsFront
<1>r. ASSUME NEW s \in Phy!RequestStates, ProcessTrxStateRequest(s, txQueue)
      PROVE  InFlightIsFront'
  BY <1>r, <1>q, RequestInFlight
<1>1. CASE ProcessLink
  <2>1. PICK type : HopAndRequest(HopPattern[hopIndex], LinkRequest(type))
    BY <1>1 DEF ProcessLink
  <2>2. CASE LinkRequest(type) = "none" /\ NoTrxRequest(txQueue)
    BY <2>2, <1>s DEF NoTrxRequest, trxVars
  <2>3. CASE LinkRequest(type) # "none" /\ ProcessTrxStateRequest(LinkRequest(type), txQueue)
    BY <2>3, <1>r, RequestValues
  <2>4. CASE Phy!AbortAndRetune(HopPattern[hopIndex],
                  IF LinkRequest(type) = "none" THEN "IDLE" ELSE LinkRequest(type))
    BY <2>4 DEF Phy!AbortAndRetune, InFlightIsFront
  <2> QED BY <2>1, <2>2, <2>3, <2>4 DEF HopAndRequest
<1>2. CASE IdleSlot
  BY <1>2, <1>r, <1>s, RequestValues DEF IdleSlot, NoTrxRequest, trxVars
<1>3. CASE TurnTransmitterOn
  BY <1>3, <1>r, RequestValues DEF TurnTransmitterOn
<1>4. CASE CallPlmeCcaRequest
  BY <1>4, <1>r, <1>s, RequestValues
     DEF CallPlmeCcaRequest, Backoff, Phy!PlmeCcaRequest, queueVars
<1>5. CASE EndCca
  BY <1>5, <1>r, <1>s, RequestValues DEF EndCca, Backoff, NoTrxRequest, trxVars
<1>6. CASE EndTx
  BY <1>6 DEF EndTx, TxDone, Phy!EndTx, InFlightIsFront
<1>7. CASE EndTxWithoutElement
  BY <1>7, <1>s DEF EndTxWithoutElement, trxVars, queueVars
<1>8. ASSUME NEW f \in RxFrame, StartRx(f) PROVE InFlightIsFront'
  BY <1>8, <1>s DEF StartRx, Phy!StartRx, queueVars
<1>9. CASE DecrementChannelRxSignals
  BY <1>9, <1>s DEF DecrementChannelRxSignals, trxVars, queueVars
<1>10. CASE EndRx
  BY <1>10, <1>s DEF EndRx, Phy!EndRx, queueVars
<1>11. CASE ProcessPdDataIndication
  <2> DEFINE f == Head(rxIndications)
  <2>1. CASE ForwardOn(f)
    BY <2>1, AppendKeepsFront DEF ForwardOn, NoTrxRequest, trxVars, DlTypeInv
  <2>2. CASE DeliverUp(f) \/ DropOverheard(f)
    BY <2>2, <1>s DEF DeliverUp, DropOverheard, NoTrxRequest, trxVars, queueVars
  <2> QED BY <1>11, <2>1, <2>2 DEF ProcessPdDataIndication, ProcessAck, AnswerWithAck
<1>12. ASSUME NEW p \in Packets, NEW kind \in {"own", "oversize"}, DlDataRequest(p, kind)
       PROVE  InFlightIsFront'
  BY <1>12, AppendKeepsFront DEF DlDataRequest, trxVars, DlTypeInv
<1>13. CASE FlushTxQueue
  BY <1>13 DEF FlushTxQueue
<1>14. CASE UNCHANGED vars
  BY <1>14, <1>s DEF vars, trxVars, queueVars
<1> QED
  BY <1>1, <1>2, <1>3, <1>4, <1>5, <1>6, <1>7, <1>8, <1>9, <1>10, <1>11, <1>12, <1>13,
     <1>14 DEF Next, SlotBoundary, RadioEvent, Reception, UpperLayer

-----------------------------------------------------------------------------
\* A request of the transceiver confirms nothing but failures.
LEMMA RequestNeverConfirmsSuccess ==
  ASSUME NEW s \in Phy!RequestStates, NEW q \in Seq(TxElement), NEW p \in Packets,
         ProcessTrxStateRequest(s, q)
  PROVE  upcall' # Confirm(p, "SUCCESS")
<1>1. NoCall # Confirm(p, "SUCCESS")
  BY DEF NoCall, Confirm
<1>2. \A r : Confirm(r, "FAILURE") # Confirm(p, "SUCCESS")
  BY DEF Confirm
<1> QED BY <1>1, <1>2 DEF ProcessTrxStateRequest, NothingToSend, InArqBackoff,
           AttemptsExhausted, Refused, Transmitted

-----------------------------------------------------------------------------
\* An event scheduled into a slot belongs to a slot of its kind.
SlotEvents ==
  /\ xmitEvent = "TX_ON" => slotType = "TRANSMIT"
  /\ xmitEvent = "CCA" => slotType = "SHARED"
  /\ endCca > 0 => slotType = "SHARED"

\* A slot ends only after its events, so they never run in a later slot.
LEMMA NextSlotEvents ==
  ASSUME CounterTypes, SlotEvents, [Next]_vars
  PROVE  SlotEvents'
<1> USE DEF SlotEvents
<1>1. CASE ProcessLink
  BY <1>1 DEF ProcessLink, SlotOver, XmitEvent
<1>2. CASE IdleSlot
  BY <1>2 DEF IdleSlot, SlotOver
<1>3. CASE TurnTransmitterOn
  BY <1>3 DEF TurnTransmitterOn, slotVars
<1>4. CASE CallPlmeCcaRequest
  BY <1>4 DEF CallPlmeCcaRequest, slotVars
<1>5. CASE EndCca
  BY <1>5 DEF EndCca, Phy!EndCca, slotVars, CounterTypes
<1>6. CASE EndTx \/ EndTxWithoutElement \/ DecrementChannelRxSignals \/ EndRx
           \/ ProcessPdDataIndication
  BY <1>6 DEF EndTx, EndTxWithoutElement, DecrementChannelRxSignals, EndRx,
     ProcessPdDataIndication, slotVars
<1>7. CASE UpperLayer
  BY <1>7 DEF UpperLayer, DlDataRequest, FlushTxQueue, slotVars
<1>8. ASSUME NEW f \in RxFrame, StartRx(f) PROVE SlotEvents'
  BY <1>8 DEF StartRx, slotVars
<1>9. CASE UNCHANGED vars
  BY <1>9 DEF vars, slotVars
<1> QED BY <1>1, <1>2, <1>3, <1>4, <1>5, <1>6, <1>7, <1>8, <1>9
        DEF Next, SlotBoundary, RadioEvent, Reception

\* Only a request of TX_ON puts a frame on the air.
LEMMA OnlyTxOnSends ==
  ASSUME NEW s \in Phy!RequestStates, NEW q, ProcessTrxStateRequest(s, q),
         currentTxPacket' # currentTxPacket
  PROVE  s = "TX_ON"
BY DEF ProcessTrxStateRequest, Phy!PlmeSetTRXStateRequest

-----------------------------------------------------------------------------
\* What aligned slots add to DlTypeInv: a frame sent has an EndTx, sleep is never
\* pending, an idle slot has nothing left to happen, the link before one has
\* scheduled the request that turns the transceiver off, and the processor sleeps
\* with the radio.
AlignedInv ==
  /\ Phy!TransmittingUntilEndTx
  /\ trxStatePending # "SLEEP"
  /\ slotsLeft > 1 /\ ~idleEvent => slotType = "IDLE"
  /\ slotType = "IDLE" => /\ trxState \in {"TRX_OFF", "SLEEP"}
                          /\ xmitEvent = "none" /\ endCca = 0 /\ rxIndications = <<>>
  /\ ProcessorSleepsWithRadio

\* A request, whatever its confirm makes the DL do, turns to BUSY_TX only with a frame
\* on the air.
LEMMA RequestKeepsEndTx ==
  ASSUME NEW s \in Phy!RequestStates, NEW q \in Seq(TxElement), TrxTypes,
         Phy!TransmittingUntilEndTx, ProcessTrxStateRequest(s, q)
  PROVE  Phy!TransmittingUntilEndTx'
<1> USE DEF Phy!TransmittingUntilEndTx
<1>1. CASE Transmitted(q)
  <2>1. Head(q) \in TxElement
    BY <1>1 DEF Transmitted
  <2>2. Attempted(Head(q)) \in TxElement
    BY <1>1, <2>1, AttemptedType DEF Transmitted
  <2>3. Attempted(Head(q)) # NoFrame
    BY <2>2, NoFrameAssumption
  <2> QED
    BY <1>1, <2>3 DEF Transmitted, Phy!TurnOnAndSend
<1>2. CASE \E t \in Phy!RequestStates : Phy!PlmeSetTRXStateRequest(t)
  BY <1>2
  DEF Phy!PlmeSetTRXStateRequest, Phy!PhyIsBusy, Phy!BusyStates, Phy!RequestStates
<1> QED
  BY <1>1, <1>2, RequestValues
  DEF ProcessTrxStateRequest, NothingToSend, InArqBackoff, AttemptsExhausted, Refused

\* A request to send or to receive, whatever its confirm makes the DL do, wakes
\* the processor, never leaves the radio asleep, and turns to BUSY_TX only with a
\* frame on the air.
LEMMA WakingRequest ==
  ASSUME NEW s \in {"RX_ON", "TX_ON"}, NEW q \in Seq(TxElement), TrxTypes,
         Phy!TransmittingUntilEndTx, trxStatePending # "SLEEP",
         ProcessTrxStateRequest(s, q)
  PROVE  /\ Phy!TransmittingUntilEndTx'
         /\ trxStatePending' # "SLEEP"
         /\ trxState' # "SLEEP"
         /\ processor' = "ACTIVE"
<1>1. Phy!TransmittingUntilEndTx'
  BY RequestKeepsEndTx, RequestValues
<1>2. processor' = "ACTIVE"
  BY DEF ProcessTrxStateRequest
<1>3. trxStatePending' # "SLEEP" /\ trxState' # "SLEEP"
  BY DEF ProcessTrxStateRequest, NothingToSend, InArqBackoff, AttemptsExhausted, Refused,
         Transmitted, Phy!TurnOnAndSend, Phy!PlmeSetTRXStateRequest, Phy!PhyIsBusy,
         Phy!BusyStates
<1> QED
  BY <1>1, <1>2, <1>3

\* Turning the transceiver off, or to sleep, takes effect at once while no frame is
\* on the air.
LEMMA StoppingRequest ==
  ASSUME NEW s \in {"TRX_OFF", "SLEEP"}, NEW q, ~Phy!PhyIsBusy,
         ProcessTrxStateRequest(s, q)
  PROVE  /\ trxState' = s /\ trxStatePending' = "IDLE" /\ UNCHANGED currentTxPacket
         /\ processor' = IF s = "SLEEP" THEN "SLEEP" ELSE "ACTIVE"
BY DEF ProcessTrxStateRequest, Phy!PlmeSetTRXStateRequest

\* At the boundary of aligned slots no frame is on the air.
LEMMA BoundaryIsQuiet ==
  ASSUME Aligned, Coupling, AlignedInv, SlotOver
  PROVE  ~Phy!PhyIsBusy /\ endCca = 0 /\ rxIndications = <<>> /\ currentTxPacket = NoFrame
BY DEF Coupling, AlignedInv, SlotOver, Phy!PhyIsBusy, Phy!BusyStates,
       Phy!TransmittingUntilEndTx, Phy!ReceivingUntilEndRx

\* No step that leaves the clock of the slots alone disturbs AlignedInv, if it makes
\* a waking request in a slot of a link, or none at all.
LEMMA WakingKeepsAligned ==
  ASSUME DlTypeInv, AlignedInv, UNCHANGED slotVars, slotType # "IDLE",
         NEW s \in {"RX_ON", "TX_ON"}, NEW q \in Seq(TxElement),
         ProcessTrxStateRequest(s, q)
  PROVE  AlignedInv'
<1>1. TrxTypes /\ Phy!TransmittingUntilEndTx /\ trxStatePending # "SLEEP"
  BY DEF DlTypeInv, AlignedInv
<1>2. /\ Phy!TransmittingUntilEndTx'
      /\ trxStatePending' # "SLEEP"
      /\ trxState' # "SLEEP"
      /\ processor' = "ACTIVE"
  BY <1>1, WakingRequest
<1> QED
  BY <1>2 DEF AlignedInv, ProcessorSleepsWithRadio, slotVars

\* Neither does a step that makes no request, as long as assessments begin and end in
\* the slot of a link and outside sleep.
LEMMA QuietKeepsAligned ==
  ASSUME AlignedInv, UNCHANGED slotVars, UNCHANGED trxVars, UNCHANGED processor,
         xmitEvent' \in {xmitEvent, "none"},
         endCca' # endCca => slotType # "IDLE" /\ trxState # "SLEEP",
         \/ UNCHANGED rxIndications
         \/ rxIndications # <<>> /\ rxIndications' = Tail(rxIndications)
  PROVE  AlignedInv'
BY DEF AlignedInv, ProcessorSleepsWithRadio, slotVars, trxVars, Phy!TransmittingUntilEndTx

\* Every step keeps AlignedInv when the slots are aligned.
LEMMA NextAligned ==
  ASSUME Aligned, DlTypeInv, AlignedInv, [Next]_vars
  PROVE  AlignedInv'
<1>q. /\ txQueue \in Seq(TxElement) /\ rxIndications \in Seq(RxFrame)
      /\ TrxTypes /\ RxTypes /\ Coupling
  BY DEF DlTypeInv, QueueTypes, RxTypes
<1>w. ASSUME NEW s \in {"RX_ON", "TX_ON"}, NEW q \in Seq(TxElement),
             ProcessTrxStateRequest(s, q), UNCHANGED slotVars, slotType # "IDLE"
      PROVE  AlignedInv'
  BY <1>w, WakingKeepsAligned
<1>1. CASE ProcessLink
  <2>1. /\ ~Phy!PhyIsBusy /\ endCca = 0 /\ rxIndications = <<>>
        /\ UNCHANGED <<endCca, rxIndications>>
    BY <1>1, <1>q, BoundaryIsQuiet DEF ProcessLink
  <2>2. slotType' # "IDLE" /\ (slotsLeft' > 1 => idleEvent')
    <3>1. LinkTypes[linkIndex] \in SlotTypes
      BY ScheduleTypes DEF DlTypeInv, CounterTypes
    <3> QED
      BY <1>1, <3>1 DEF ProcessLink, TurnsOffNext, SlotTypes
  <2>3. PICK type : HopAndRequest(HopPattern[hopIndex], LinkRequest(type))
    BY <1>1 DEF ProcessLink
  <2>4. CASE LinkRequest(type) = "none" /\ NoTrxRequest(txQueue)
    BY <2>1, <2>2, <2>4
    DEF AlignedInv, NoTrxRequest, ProcessorSleepsWithRadio, trxVars, Phy!TransmittingUntilEndTx
  <2>5. CASE LinkRequest(type) # "none" /\ ProcessTrxStateRequest(LinkRequest(type), txQueue)
    <3>1. LinkRequest(type) \in {"RX_ON", "TX_ON"}
      BY <2>5, RequestValues
    <3>2. /\ Phy!TransmittingUntilEndTx'
          /\ trxStatePending' # "SLEEP"
          /\ trxState' # "SLEEP"
          /\ processor' = "ACTIVE"
      BY <1>q, <2>5, <3>1, WakingRequest DEF AlignedInv
    <3> QED
      BY <2>2, <3>2 DEF AlignedInv, ProcessorSleepsWithRadio
  <2> QED
    BY <2>1, <2>3, <2>4, <2>5 DEF HopAndRequest, Phy!AbortAndRetune
<1>2. CASE IdleSlot
  <2>1. /\ ~Phy!PhyIsBusy /\ endCca = 0 /\ rxIndications = <<>> /\ xmitEvent = "none"
        /\ currentTxPacket = NoFrame /\ slotsLeft > 1
        /\ UNCHANGED <<endCca, rxIndications, xmitEvent>> /\ slotType' = "IDLE"
    BY <1>2, <1>q, BoundaryIsQuiet DEF IdleSlot, SlotOver
  <2>2. CASE idleEvent
    <3>1. PICK s \in {"TRX_OFF", "SLEEP"} : ProcessTrxStateRequest(s, txQueue)
      BY <1>2, <2>2 DEF IdleSlot
    <3>2. /\ trxState' = s /\ trxStatePending' = "IDLE" /\ UNCHANGED currentTxPacket
          /\ processor' = IF s = "SLEEP" THEN "SLEEP" ELSE "ACTIVE"
      BY <2>1, <3>1, StoppingRequest
    <3> QED
      BY <2>1, <3>2 DEF AlignedInv, ProcessorSleepsWithRadio, Phy!TransmittingUntilEndTx
  <2>3. CASE ~idleEvent
    <3>1. slotType = "IDLE" /\ NoTrxRequest(txQueue)
      BY <1>2, <2>1, <2>3 DEF IdleSlot, AlignedInv
    <3> QED
      BY <2>1, <3>1
      DEF AlignedInv, NoTrxRequest, ProcessorSleepsWithRadio, trxVars,
          Phy!TransmittingUntilEndTx
  <2> QED
    BY <2>2, <2>3
<1>3. CASE TurnTransmitterOn
  <2>1. slotType # "IDLE"
    BY <1>3 DEF TurnTransmitterOn, AlignedInv
  <2> QED
    BY <1>3, <1>q, <1>w, <2>1 DEF TurnTransmitterOn
<1>4. CASE CallPlmeCcaRequest
  <2>1. slotType # "IDLE" /\ UNCHANGED slotVars /\ UNCHANGED rxIndications /\ xmitEvent' = "none"
    BY <1>4 DEF CallPlmeCcaRequest, AlignedInv
  <2>2. CASE Backoff
    BY <1>q, <1>w, <2>1, <2>2 DEF Backoff
  <2>3. CASE trxState = "SLEEP" /\ processor' = "ACTIVE" /\ Phy!PlmeCcaRequest("RX_ON")
    BY <2>1, <2>3
    DEF AlignedInv, Phy!PlmeCcaRequest, ProcessorSleepsWithRadio, slotVars,
        Phy!TransmittingUntilEndTx
  <2>4. CASE trxState # "SLEEP" /\ UNCHANGED processor /\ Phy!PlmeCcaRequest(trxState)
    BY <2>1, <2>4, QuietKeepsAligned DEF Phy!PlmeCcaRequest, trxVars
  <2> QED
    BY <1>4, <2>2, <2>3, <2>4 DEF CallPlmeCcaRequest
<1>5. CASE EndCca
  <2>1. /\ slotType # "IDLE" /\ trxState # "SLEEP"
        /\ UNCHANGED slotVars /\ UNCHANGED rxIndications /\ UNCHANGED xmitEvent
    BY <1>5 DEF EndCca, Phy!EndCca, AlignedInv, ProcessorSleepsWithRadio
  <2>2. CASE NoTrxRequest(txQueue)
    BY <2>1, <2>2, QuietKeepsAligned DEF NoTrxRequest
  <2> QED
    BY <1>5, <1>q, <1>w, <2>1, <2>2 DEF EndCca, Backoff
<1>6. CASE EndTx
  <2>1. PICK pending \in {"RX_ON", trxStatePending} :
          Phy!EndTx(pending) /\ processor' \in {processor, "ACTIVE"}
    BY <1>6 DEF EndTx, TxDone
  <2>2. trxState = "BUSY_TX"
    BY <1>q, <2>1 DEF Coupling, Phy!EndTx
  <2>3. slotType # "IDLE" /\ processor' = "ACTIVE"
    <3>1. processor = "ACTIVE"
      BY <2>2 DEF AlignedInv, ProcessorSleepsWithRadio, DlTypeInv, CallTypes
    <3> QED
      BY <2>1, <2>2, <3>1 DEF AlignedInv
  <2>4. trxState' \notin {"SLEEP", "BUSY_TX"} /\ currentTxPacket' = NoFrame
        /\ trxStatePending' = "IDLE"
    BY <1>q, <2>1 DEF Phy!EndTx, AlignedInv, TrxTypes, Phy!RequestStates
  <2> QED
    BY <1>6, <2>3, <2>4
    DEF EndTx, AlignedInv, ProcessorSleepsWithRadio, slotVars, Phy!TransmittingUntilEndTx
<1>7. ASSUME EndTxWithoutElement \/ UpperLayer \/ DecrementChannelRxSignals
      PROVE  AlignedInv'
  <2>1. /\ UNCHANGED slotVars /\ UNCHANGED trxVars
        /\ UNCHANGED <<processor, xmitEvent, endCca, rxIndications>>
    BY <1>7 DEF EndTxWithoutElement, UpperLayer, DlDataRequest, FlushTxQueue,
                DecrementChannelRxSignals
  <2> QED
    BY <2>1, QuietKeepsAligned
<1>8. ASSUME NEW f \in RxFrame, StartRx(f) PROVE AlignedInv'
  <2>1. /\ UNCHANGED slotVars
        /\ UNCHANGED <<processor, xmitEvent, endCca, rxIndications, currentTxPacket>>
    BY <1>8 DEF StartRx, Phy!StartRx
  <2>2. \/ UNCHANGED <<trxState, trxStatePending>>
        \/ trxState = "RX_ON" /\ trxState' = "BUSY_RX" /\ trxStatePending' = "IDLE"
    BY <1>8 DEF StartRx, Phy!StartRx
  <2> QED
    BY <2>1, <2>2
    DEF AlignedInv, ProcessorSleepsWithRadio, slotVars, Phy!TransmittingUntilEndTx
<1>9. CASE EndRx
  <2>1. /\ UNCHANGED slotVars /\ UNCHANGED <<processor, xmitEvent, endCca, currentTxPacket>>
        /\ trxStatePending' = "IDLE"
    BY <1>9 DEF EndRx, Phy!EndRx
  <2>2. trxState = "BUSY_RX"
    BY <1>9, <1>q DEF EndRx, Phy!EndRx, Coupling, Phy!ReceivingUntilEndRx
  <2>3. trxState' \notin {"SLEEP", "BUSY_TX"}
    BY <1>9, <1>q DEF EndRx, Phy!EndRx, AlignedInv, TrxTypes, Phy!RequestStates
  <2>4. slotType # "IDLE" /\ processor # "SLEEP"
    BY <2>2 DEF AlignedInv, ProcessorSleepsWithRadio
  <2> QED
    BY <2>1, <2>2, <2>3, <2>4
    DEF AlignedInv, ProcessorSleepsWithRadio, slotVars, Phy!TransmittingUntilEndTx
<1>10. CASE ProcessPdDataIndication
  <2> DEFINE f == Head(rxIndications)
  <2>1. /\ slotType # "IDLE" /\ UNCHANGED slotVars /\ UNCHANGED <<xmitEvent, endCca>>
        /\ rxIndications # <<>> /\ rxIndications' = Tail(rxIndications) /\ f \in RxFrame
    BY <1>10, <1>q DEF ProcessPdDataIndication, AlignedInv
  <2>2. CASE AnswerWithAck(f)
    <3>1. <<[pkt |-> f.pkt, kind |-> "ack", attempts |-> 1]>> \o txQueue \in Seq(TxElement)
      BY SMTT(60), <1>q, <2>1, DlAssumption DEF TxElement, Kinds, Attempts, RxFrame
    <3> QED
      BY <1>w, <2>1, <2>2, <3>1 DEF AnswerWithAck
  <2>3. CASE UNCHANGED trxVars /\ UNCHANGED processor
    BY <2>1, <2>3, QuietKeepsAligned
  <2> QED
    BY <1>10, <2>2, <2>3
    DEF ProcessPdDataIndication, ProcessAck, ForwardOn, DeliverUp, DropOverheard,
        NoTrxRequest
<1>11. CASE UNCHANGED vars
  BY <1>11, QuietKeepsAligned DEF vars
<1> QED
  BY <1>1, <1>2, <1>3, <1>4, <1>5, <1>6, <1>7, <1>8, <1>9, <1>10, <1>11
  DEF Next, SlotBoundary, RadioEvent, Reception

\* AlignedInv holds throughout.
LEMMA AlignedInvariance ==
  ASSUME Aligned
  PROVE  Spec => []AlignedInv
<1>1. Init => AlignedInv
  BY DEF Init, Phy!PhyInit, AlignedInv, ProcessorSleepsWithRadio, Phy!TransmittingUntilEndTx
<1>2. DlTypeInv /\ AlignedInv /\ [Next]_vars => AlignedInv'
  BY NextAligned
<1> QED
  BY <1>1, <1>2, TypeInvariance, PTL DEF Spec

\* With aligned slots, acknowledgements and flushes included, every idle slot finds
\* the radio off or asleep: the request ProcessLink scheduled always takes effect.
THEOREM IdleSlotsSilent ==
  ASSUME Aligned
  PROVE  Spec => []IdleSlotsAreSilent
<1>1. AlignedInv => IdleSlotsAreSilent
  BY DEF AlignedInv, IdleSlotsAreSilent
<1> QED
  BY <1>1, AlignedInvariance, PTL

\* With aligned slots the processor sleeps only while the radio is off and no
\* received frame waits, and the radio sleeps only with the processor.
THEOREM ProcessorSleeps ==
  ASSUME Aligned
  PROVE  Spec => []ProcessorSleepsWithRadio
<1>1. AlignedInv => ProcessorSleepsWithRadio
  BY DEF AlignedInv
<1> QED
  BY <1>1, AlignedInvariance, PTL

-----------------------------------------------------------------------------
(* One channel *)

\* What a node on one channel adds to DlTypeInv, aligned or not: a frame sent has an
\* EndTx, and a request is pending only while a frame is on the air.
OneChannelInv ==
  /\ Phy!TransmittingUntilEndTx
  /\ trxStatePending # "IDLE" => Phy!PhyIsBusy \/ Phy!AsConstructed

\* No request disturbs it.
LEMMA RequestOneChannel ==
  ASSUME NEW s \in Phy!RequestStates, NEW q \in Seq(TxElement), TrxTypes, OneChannelInv,
         ProcessTrxStateRequest(s, q)
  PROVE  OneChannelInv'
<1>1. Phy!TransmittingUntilEndTx'
  BY RequestKeepsEndTx DEF OneChannelInv
<1>2. trxStatePending' # "IDLE" => (Phy!PhyIsBusy \/ Phy!AsConstructed)'
  BY DEF ProcessTrxStateRequest, NothingToSend, InArqBackoff, AttemptsExhausted, Refused,
         Transmitted, Phy!TurnOnAndSend, Phy!PlmeSetTRXStateRequest, Phy!PhyIsBusy
<1> QED
  BY <1>1, <1>2 DEF OneChannelInv

\* Every step keeps it: the hop that would cancel an EndTx has no other channel to go
\* to, and the other events leave a frame's end to EndTx and EndRx.
LEMMA NextOneChannel ==
  ASSUME Range(HopPattern) = {InitChannel}, DlTypeInv, OneChannelInv, [Next]_vars
  PROVE  OneChannelInv'
<1>q. /\ txQueue \in Seq(TxElement) /\ rxIndications \in Seq(RxFrame)
      /\ TrxTypes /\ Coupling /\ CounterTypes
  BY DEF DlTypeInv, QueueTypes, RxTypes
<1>r. ASSUME NEW s \in Phy!RequestStates, NEW q \in Seq(TxElement),
             ProcessTrxStateRequest(s, q)
      PROVE  OneChannelInv'
  BY <1>r, <1>q, RequestOneChannel
<1>s. ASSUME UNCHANGED trxVars PROVE OneChannelInv'
  BY <1>s DEF OneChannelInv, trxVars, Phy!TransmittingUntilEndTx, Phy!PhyIsBusy,
             Phy!AsConstructed
<1>1. CASE ProcessLink
  <2>1. PICK type : HopAndRequest(HopPattern[hopIndex], LinkRequest(type))
    BY <1>1 DEF ProcessLink
  <2>2. HopPattern[hopIndex] = phyCurrentChannel
    BY <1>q, HopChannel DEF CounterTypes
  <2> QED
    BY <1>q, <1>r, <1>s, <2>1, <2>2, RequestValues
    DEF HopAndRequest, NoTrxRequest, Phy!AbortAndRetune
<1>2. CASE IdleSlot
  BY <1>2, <1>q, <1>r, <1>s, RequestValues DEF IdleSlot, NoTrxRequest
<1>3. CASE TurnTransmitterOn
  BY <1>3, <1>q, <1>r, RequestValues DEF TurnTransmitterOn
<1>4. CASE CallPlmeCcaRequest
  <2>1. CASE Backoff
    BY <2>1, <1>q, <1>r, RequestValues DEF Backoff
  <2>2. CASE trxState = "SLEEP" /\ Phy!PlmeCcaRequest("RX_ON")
    BY <2>2 DEF Phy!PlmeCcaRequest, OneChannelInv, Phy!TransmittingUntilEndTx
  <2>3. CASE trxState # "SLEEP" /\ Phy!PlmeCcaRequest(trxState)
    BY <2>3, <1>s DEF Phy!PlmeCcaRequest, trxVars
  <2> QED
    BY <1>4, <2>1, <2>2, <2>3 DEF CallPlmeCcaRequest
<1>5. CASE EndCca
  BY <1>5, <1>q, <1>r, <1>s, RequestValues DEF EndCca, Backoff, NoTrxRequest
<1>6. CASE EndTx
  <2>1. PICK pending \in {"RX_ON", trxStatePending} : Phy!EndTx(pending)
    BY <1>6 DEF EndTx, TxDone
  <2> QED
    BY <1>q, <2>1
    DEF Phy!EndTx, OneChannelInv, TrxTypes, Phy!RequestStates, Phy!TransmittingUntilEndTx
<1>7. CASE EndTxWithoutElement \/ UpperLayer \/ DecrementChannelRxSignals
  BY <1>7, <1>s DEF EndTxWithoutElement, UpperLayer, DlDataRequest, FlushTxQueue,
                    DecrementChannelRxSignals
<1>8. ASSUME NEW f \in RxFrame, StartRx(f) PROVE OneChannelInv'
  BY <1>8, <1>s DEF StartRx, Phy!StartRx, OneChannelInv, trxVars,
     Phy!TransmittingUntilEndTx
<1>9. CASE EndRx
  BY <1>9, <1>q DEF EndRx, Phy!EndRx, OneChannelInv, Coupling, TrxTypes,
     Phy!RequestStates, Phy!TransmittingUntilEndTx, Phy!ReceivingUntilEndRx
<1>10. CASE ProcessPdDataIndication
  <2> DEFINE f == Head(rxIndications)
  <2>1. CASE AnswerWithAck(f)
    <3>1. f \in RxFrame
      BY <1>10, <1>q DEF ProcessPdDataIndication
    <3>2. <<[pkt |-> f.pkt, kind |-> "ack", attempts |-> 1]>> \o txQueue \in Seq(TxElement)
      BY SMTT(60), <1>q, <3>1, DlAssumption DEF TxElement, Kinds, Attempts, RxFrame
    <3> QED
      BY <1>r, <2>1, <3>2, RequestValues DEF AnswerWithAck
  <2>2. CASE UNCHANGED trxVars
    BY <1>s, <2>2
  <2> QED
    BY <1>10, <2>1, <2>2
    DEF ProcessPdDataIndication, ProcessAck, ForwardOn, DeliverUp, DropOverheard,
        NoTrxRequest
<1>11. CASE UNCHANGED vars
  BY <1>11, <1>s DEF vars
<1> QED
  BY <1>1, <1>2, <1>3, <1>4, <1>5, <1>6, <1>7, <1>8, <1>9, <1>10, <1>11
  DEF Next, SlotBoundary, RadioEvent, Reception

\* A node that hops on one channel is never stranded in BUSY_TX and every request it
\* leaves pending meets the end of a frame, at whatever time its neighbours send:
\* without a hop nothing in the DL cancels what PdDataRequest has scheduled.
THEOREM OneChannelNeverStrands ==
  ASSUME Range(HopPattern) = {InitChannel}
  PROVE  Spec => [](~Phy!Stranded /\ Phy!PendingMeetsFrameEnd)
<1>1. Init => OneChannelInv
  BY DEF Init, Phy!PhyInit, OneChannelInv, Phy!TransmittingUntilEndTx, Phy!AsConstructed
<1>2. DlTypeInv /\ OneChannelInv /\ [Next]_vars => OneChannelInv'
  BY NextOneChannel
<1>3. DlTypeInv /\ OneChannelInv => ~Phy!Stranded /\ Phy!PendingMeetsFrameEnd
  BY DEF DlTypeInv, Coupling, OneChannelInv, Phy!Stranded, Phy!PendingMeetsFrameEnd,
         Phy!ReceivingUntilEndRx, Phy!TransmittingUntilEndTx, Phy!PhyIsBusy, Phy!BusyStates
<1> QED
  BY <1>1, <1>2, <1>3, TypeInvariance, PTL DEF Spec

-----------------------------------------------------------------------------
(* The packets of the upper layer in a queue *)

IsOwn(e) == e.kind \in {"own", "oversize"}

\* The recursive function of OwnUpTo exists, so that it is what its equation says.
LEMMA OwnUpToDef ==
  ASSUME NEW q \in Seq(TxElement)
  PROVE  OwnUpTo(q) =
           [n \in 0 .. Len(q) |-> IF n = 0 THEN <<>>
                                  ELSE IF IsOwn(q[n])
                                         THEN Append(OwnUpTo(q)[n - 1], q[n].pkt)
                                         ELSE OwnUpTo(q)[n - 1]]
<1> DEFINE Step(g, n) == IF n = 0 THEN <<>>
                         ELSE IF IsOwn(q[n]) THEN Append(g[n - 1], q[n].pkt)
                         ELSE g[n - 1]
           Follows(g, m) == g = [n \in 0 .. m |-> Step(g, n)]
           None == {m \in Nat : ~ \E g : Follows(g, m)}
<1>1. ASSUME None # {} PROVE FALSE
  <2>1. PICK m \in None : \A y \in None : m <= y
    BY <1>1, LeastNatural
  <2>2. m # 0
    <3>1. Follows([n \in 0 .. 0 |-> <<>>], 0)
      OBVIOUS
    <3> QED
      BY <3>1
  <2>3. PICK g : Follows(g, m - 1)
    <3> HIDE DEF Follows
    <3>1. m - 1 \in Nat /\ m - 1 \notin None
      BY <2>1, <2>2
    <3> QED
      BY <3>1
  <2> DEFINE h == [n \in 0 .. m |-> IF n = m THEN Step(g, m) ELSE g[n]]
  <2>4. ASSUME NEW n \in 0 .. m
        PROVE  h[n] = Step(h, n)
    <3>1. n # 0 => n - 1 \in 0 .. m /\ n - 1 # m /\ h[n - 1] = g[n - 1]
      BY <2>1, <2>2
    <3>2. h[n] = Step(g, n)
      <4>1. CASE n = m
        BY <4>1
      <4>2. CASE n # m
        <5>1. n \in 0 .. m - 1 /\ h[n] = g[n]
          BY <2>1, <4>2
        <5> HIDE DEF h
        <5> QED
          BY <2>3, <5>1
      <4> QED
        BY <4>1, <4>2
    <3>3. Step(g, n) = Step(h, n)
      <4> HIDE DEF h
      <4> QED
        BY <3>1
    <3> QED
      BY <3>2, <3>3
  <2>5. Follows(h, m)
    <3>1. h = [n \in 0 .. m |-> h[n]]
      OBVIOUS
    <3> HIDE DEF h, Step
    <3> QED
      BY <2>4, <3>1
  <2> QED
    BY <2>1, <2>5
<1>2. \E g : Follows(g, Len(q))
  BY <1>1
<1>3. OwnUpTo(q) = CHOOSE g : Follows(g, Len(q))
  BY DEF OwnUpTo, IsOwn
<1>4. Follows(OwnUpTo(q), Len(q))
  <2> HIDE DEF Follows
  <2> QED
    BY <1>2, <1>3
<1> QED
  BY <1>4

\* One element further.
LEMMA OwnUpToNext ==
  ASSUME NEW q \in Seq(TxElement)
  PROVE  /\ OwnUpTo(q)[0] = <<>>
         /\ \A n \in 1 .. Len(q) :
              OwnUpTo(q)[n] = IF IsOwn(q[n]) THEN Append(OwnUpTo(q)[n - 1], q[n].pkt)
                              ELSE OwnUpTo(q)[n - 1]
<1>1. Len(q) \in Nat
  OBVIOUS
<1> DEFINE own == OwnUpTo(q)
<1>2. own = [n \in 0 .. Len(q) |-> IF n = 0 THEN <<>>
                                  ELSE IF IsOwn(q[n]) THEN Append(own[n - 1], q[n].pkt)
                                  ELSE own[n - 1]]
  BY OwnUpToDef
<1> HIDE DEF own
<1>3. own[0] = <<>>
  BY <1>1, <1>2
<1>4. \A n \in 1 .. Len(q) :
        own[n] = IF IsOwn(q[n]) THEN Append(own[n - 1], q[n].pkt) ELSE own[n - 1]
  <2> SUFFICES ASSUME NEW n \in 1 .. Len(q)
               PROVE  own[n] = IF IsOwn(q[n]) THEN Append(own[n - 1], q[n].pkt)
                               ELSE own[n - 1]
    OBVIOUS
  <2>1. n \in 0 .. Len(q) /\ n # 0
    BY <1>1
  <2> QED
    BY <1>2, <2>1, Zenon
<1> QED
  BY <1>3, <1>4 DEF own

\* Induction along a queue: what holds of its first elements and is kept by
\* each step holds of all.
LEMMA AlongQueue ==
  ASSUME NEW N \in Nat, NEW good \in [0 .. N -> BOOLEAN], good[0],
         \A n \in 1 .. N : good[n - 1] => good[n]
  PROVE  \A n \in 0 .. N : good[n]
<1> DEFINE Bad == {n \in 0 .. N : ~good[n]}
<1>1. ASSUME Bad # {} PROVE FALSE
  <2>0. Bad \in SUBSET Nat
    OBVIOUS
  <2>1. PICK m \in Bad : \A y \in Bad : m <= y
    <3> HIDE DEF Bad
    <3> QED
      BY <1>1, <2>0, LeastNatural
  <2>2. m # 0 /\ m \in 0 .. N /\ ~good[m]
    BY <2>1
  <2>3. m - 1 \in 0 .. N /\ m - 1 \notin Bad
    BY <2>1, <2>2
  <2> QED
    BY <2>2, <2>3
<1> QED
  BY <1>1

\* They are packets, each of an element of the queue.
LEMMA OwnUpToTypes ==
  ASSUME NEW q \in Seq(TxElement)
  PROVE  \A n \in 0 .. Len(q) :
           /\ OwnUpTo(q)[n] \in Seq(Packets)
           /\ \A k \in 1 .. Len(OwnUpTo(q)[n]) :
                \E i \in 1 .. Len(q) : IsOwn(q[i]) /\ q[i].pkt = OwnUpTo(q)[n][k]
<1> DEFINE own == OwnUpTo(q)
           Good(n) == /\ own[n] \in Seq(Packets)
                      /\ \A k \in 1 .. Len(own[n]) :
                           \E i \in 1 .. Len(q) : IsOwn(q[i]) /\ q[i].pkt = own[n][k]
           good == [n \in 0 .. Len(q) |-> Good(n)]
<1> HIDE DEF own
<1>n. /\ own[0] = <<>>
      /\ \A n \in 1 .. Len(q) :
           own[n] = IF IsOwn(q[n]) THEN Append(own[n - 1], q[n].pkt) ELSE own[n - 1]
  BY OwnUpToNext, Zenon DEF own
<1>1. Good(0)
  BY <1>n
<1>2. ASSUME NEW n \in 1 .. Len(q), Good(n - 1) PROVE Good(n)
  <2>1. own[n] = IF IsOwn(q[n]) THEN Append(own[n - 1], q[n].pkt) ELSE own[n - 1]
    BY <1>n
  <2>2. q[n].pkt \in Packets
    <3>1. q[n] \in TxElement
      OBVIOUS
    <3> QED
      BY <3>1 DEF TxElement
  <2>3. CASE IsOwn(q[n])
    <3> DEFINE a == own[n - 1]
    <3> HIDE DEF a
    <3>1. /\ a \in Seq(Packets)
          /\ \A k \in 1 .. Len(a) : \E i \in 1 .. Len(q) : IsOwn(q[i]) /\ q[i].pkt = a[k]
      BY <1>2 DEF a
    <3>2. own[n] = Append(a, q[n].pkt)
      BY <2>1, <2>3 DEF a
    <3>3. Append(a, q[n].pkt) \in Seq(Packets)
      BY <2>2, <3>1
    <3>4. ASSUME NEW k \in 1 .. Len(Append(a, q[n].pkt))
          PROVE  \E i \in 1 .. Len(q) : IsOwn(q[i]) /\ q[i].pkt = Append(a, q[n].pkt)[k]
      <4>1. CASE k = Len(a) + 1
        BY <2>3, <3>1, <4>1
      <4>2. CASE k # Len(a) + 1
        <5>1. k \in 1 .. Len(a) /\ Append(a, q[n].pkt)[k] = a[k]
          BY <3>1, <4>2
        <5> QED
          BY <3>1, <5>1
      <4> QED
        BY <4>1, <4>2
    <3> QED
      BY <3>2, <3>3, <3>4
  <2>4. CASE ~IsOwn(q[n])
    BY <1>2, <2>1, <2>4
  <2> QED
    BY <2>3, <2>4
<1> HIDE DEF Good
<1>3. \A n \in 0 .. Len(q) : good[n]
  <2>1. \A n \in 0 .. Len(q) : Good(n) \in BOOLEAN
    BY DEF Good
  <2>2. good \in [0 .. Len(q) -> BOOLEAN]
    BY <2>1
  <2>3. good[0] /\ \A n \in 1 .. Len(q) : good[n - 1] => good[n]
    BY <1>1, <1>2
  <2> HIDE DEF good
  <2> QED
    BY <2>2, <2>3, AlongQueue
<1> QED
  BY <1>3 DEF Good, own

\* The packets of two queues one behind the other are those of the first and
\* then those of the second.
LEMMA OwnPacketsCat ==
  ASSUME NEW p \in Seq(TxElement), NEW q \in Seq(TxElement)
  PROVE  OwnPackets(p \o q) = OwnPackets(p) \o OwnPackets(q)
<1> DEFINE r == p \o q
           front == [n \in 0 .. Len(p) |-> OwnUpTo(r)[n] = OwnUpTo(p)[n]]
           back  == [n \in 0 .. Len(q) |->
                       OwnUpTo(r)[Len(p) + n] = OwnPackets(p) \o OwnUpTo(q)[n]]
<1>1. /\ r \in Seq(TxElement) /\ Len(r) = Len(p) + Len(q)
      /\ \A n \in 1 .. Len(p) : r[n] = p[n]
      /\ \A n \in 1 .. Len(q) : r[Len(p) + n] = q[n]
  OBVIOUS
<1>l. Len(p) \in Nat /\ Len(q) \in Nat
  OBVIOUS
<1> HIDE DEF r
<1>n. \A w \in {p, q, r} :
        /\ OwnUpTo(w)[0] = <<>>
        /\ \A n \in 1 .. Len(w) :
             OwnUpTo(w)[n] = IF IsOwn(w[n]) THEN Append(OwnUpTo(w)[n - 1], w[n].pkt)
                             ELSE OwnUpTo(w)[n - 1]
  <2>1. \A w \in {p, q, r} : w \in Seq(TxElement)
    BY <1>1
  <2> QED
    BY <2>1, OwnUpToNext, Zenon
<1>2. \A n \in 0 .. Len(p) : front[n]
  <2>1. /\ front \in [0 .. Len(p) -> BOOLEAN]
        /\ \A n \in 0 .. Len(p) : front[n] <=> OwnUpTo(r)[n] = OwnUpTo(p)[n]
    BY Zenon
  <2> HIDE DEF front
  <2>2. front[0]
    BY <1>l, <1>n, <2>1
  <2>3. ASSUME NEW n \in 1 .. Len(p), front[n - 1] PROVE front[n]
    <3>1. n - 1 \in 0 .. Len(p) /\ n \in 0 .. Len(p) /\ n \in 1 .. Len(r) /\ r[n] = p[n]
      BY <1>l, <1>1
    <3>2. OwnUpTo(r)[n - 1] = OwnUpTo(p)[n - 1]
      BY <2>1, <2>3, <3>1
    <3>3. OwnUpTo(r)[n] = OwnUpTo(p)[n]
      BY <1>n, <3>1, <3>2, Zenon
    <3> QED
      BY <2>1, <3>1, <3>3
  <2> QED
    BY <1>l, <2>1, <2>2, <2>3, AlongQueue
<1>3. OwnUpTo(r)[Len(p)] = OwnPackets(p) /\ OwnPackets(p) \in Seq(Packets)
  <2>1. Len(p) \in 0 .. Len(p)
    BY <1>l
  <2>2. OwnUpTo(r)[Len(p)] = OwnUpTo(p)[Len(p)]
    BY <1>2, <2>1
  <2> QED
    BY <2>1, <2>2, OwnUpToTypes, Zenon DEF OwnPackets
<1>4. \A n \in 0 .. Len(q) : back[n]
  <2>1. /\ back \in [0 .. Len(q) -> BOOLEAN]
        /\ \A n \in 0 .. Len(q) :
             back[n] <=> OwnUpTo(r)[Len(p) + n] = OwnPackets(p) \o OwnUpTo(q)[n]
    BY Zenon
  <2> HIDE DEF back
  <2>2. back[0]
    <3>1. OwnUpTo(r)[Len(p) + 0] = OwnPackets(p) /\ OwnUpTo(q)[0] = <<>>
      BY <1>l, <1>n, <1>3
    <3>2. OwnPackets(p) \o <<>> = OwnPackets(p)
      BY <1>3, ConcatEmptySeq
    <3>3. 0 \in 0 .. Len(q)
      BY <1>l
    <3> QED
      BY <2>1, <3>1, <3>2, <3>3, Zenon
  <2>3. ASSUME NEW n \in 1 .. Len(q), back[n - 1] PROVE back[n]
    <3> DEFINE a == OwnPackets(p)
               b == OwnUpTo(q)[n - 1]
               e == q[n].pkt
    <3>1. /\ n - 1 \in 0 .. Len(q) /\ n \in 0 .. Len(q)
          /\ Len(p) + n \in 1 .. Len(r) /\ Len(p) + (n - 1) = (Len(p) + n) - 1
          /\ r[Len(p) + n] = q[n]
      BY <1>l, <1>1
    <3>2. OwnUpTo(r)[(Len(p) + n) - 1] = a \o b
      BY <2>1, <2>3, <3>1
    <3>3. OwnUpTo(r)[Len(p) + n] = IF IsOwn(q[n]) THEN Append(a \o b, e) ELSE a \o b
      <4>1. OwnUpTo(r)[Len(p) + n] =
              IF IsOwn(r[Len(p) + n])
                THEN Append(OwnUpTo(r)[(Len(p) + n) - 1], r[Len(p) + n].pkt)
                ELSE OwnUpTo(r)[(Len(p) + n) - 1]
        BY <1>n, <3>1, Zenon
      <4> QED
        BY <3>1, <3>2, <4>1, Zenon
    <3>4. OwnUpTo(q)[n] = IF IsOwn(q[n]) THEN Append(b, e) ELSE b
      BY <1>n, Zenon
    <3>5. a \in Seq(Packets) /\ b \in Seq(Packets) /\ e \in Packets
      <4>1. q[n] \in TxElement
        OBVIOUS
      <4>2. e \in Packets
        BY <4>1 DEF TxElement
      <4>3. b \in Seq(Packets)
        BY <3>1, OwnUpToTypes, Zenon
      <4> QED
        BY <1>3, <4>2, <4>3
    <3> HIDE DEF a, b, e
    <3>6. Append(a \o b, e) = a \o Append(b, e)
      <4>1. a \o b \in Seq(Packets) /\ <<e>> \in Seq(Packets)
        BY <3>5, ConcatProperties
      <4>2. Append(a \o b, e) = (a \o b) \o <<e>> /\ Append(b, e) = b \o <<e>>
        BY <3>5, <4>1, AppendIsConcat
      <4> QED
        BY SMTT(60), <3>5, <4>1, <4>2, ConcatAssociative
    <3>7. OwnUpTo(r)[Len(p) + n] = a \o OwnUpTo(q)[n]
      BY <3>3, <3>4, <3>6, Zenon
    <3> QED
      BY <2>1, <3>1, <3>7 DEF a
  <2> QED
    BY <1>l, <2>1, <2>2, <2>3, AlongQueue
<1>5. OwnUpTo(r)[Len(p) + Len(q)] = OwnPackets(p) \o OwnUpTo(q)[Len(q)]
  <2>1. Len(q) \in 0 .. Len(q)
    BY <1>l
  <2> QED
    BY <1>4, <2>1
<1> QED
  BY <1>1, <1>5 DEF OwnPackets, r

\* A queue of one element.
LEMMA OwnPacketsOne ==
  ASSUME NEW e \in TxElement
  PROVE  OwnPackets(<<e>>) = IF IsOwn(e) THEN <<e.pkt>> ELSE <<>>
<1>1. <<e>> \in Seq(TxElement) /\ Len(<<e>>) = 1 /\ <<e>>[1] = e
  OBVIOUS
<1> DEFINE q == <<e>>
<1> HIDE DEF q
<1>2. /\ OwnUpTo(q)[0] = <<>>
      /\ \A n \in 1 .. Len(q) :
           OwnUpTo(q)[n] = IF IsOwn(q[n]) THEN Append(OwnUpTo(q)[n - 1], q[n].pkt)
                           ELSE OwnUpTo(q)[n - 1]
  BY <1>1, OwnUpToNext, Zenon DEF q
<1>3. OwnUpTo(q)[1] = IF IsOwn(e) THEN <<e.pkt>> ELSE <<>>
  <2>1. 1 \in 1 .. Len(q) /\ 1 - 1 = 0 /\ q[1] = e
    BY <1>1 DEF q
  <2>2. OwnUpTo(q)[1] = IF IsOwn(q[1]) THEN Append(OwnUpTo(q)[1 - 1], q[1].pkt)
                        ELSE OwnUpTo(q)[1 - 1]
    BY <1>2, <2>1, Zenon
  <2>3. OwnUpTo(q)[1 - 1] = <<>>
    BY <1>2, <2>1
  <2>4. \A p : Append(<<>>, p) = <<p>>
    OBVIOUS
  <2> QED
    BY <2>1, <2>2, <2>3, <2>4, Zenon
<1> QED
  BY <1>1, <1>3 DEF OwnPackets, q

\* The queue changes at its ends: a packet of the upper layer is submitted at
\* the back and leaves from the front, others make no difference.
LEMMA OwnPacketsOfQueue ==
  ASSUME NEW q \in Seq(TxElement), NEW e \in TxElement
  PROVE  /\ OwnPackets(q) \in Seq(Packets)
         /\ OwnPackets(<<>>) = <<>>
         /\ OwnPackets(Append(q, e)) =
              IF IsOwn(e) THEN Append(OwnPackets(q), e.pkt) ELSE OwnPackets(q)
         /\ q # <<>> /\ IsOwn(Head(q)) =>
              /\ OwnPackets(q) # <<>>
              /\ Head(OwnPackets(q)) = Head(q).pkt
              /\ Tail(OwnPackets(q)) = OwnPackets(Tail(q))
         /\ q # <<>> /\ ~IsOwn(Head(q)) => OwnPackets(Tail(q)) = OwnPackets(q)
<1>1. OwnPackets(q) \in Seq(Packets)
  <2>1. Len(q) \in 0 .. Len(q)
    OBVIOUS
  <2> QED
    BY <2>1, OwnUpToTypes, Zenon DEF OwnPackets
<1>2. OwnPackets(<<>>) = <<>>
  <2>1. <<>> \in Seq(TxElement) /\ Len(<<>>) = 0
    OBVIOUS
  <2> QED
    BY <2>1, OwnUpToNext DEF OwnPackets
<1>3. OwnPackets(Append(q, e)) = IF IsOwn(e) THEN Append(OwnPackets(q), e.pkt)
                                 ELSE OwnPackets(q)
  <2>1. Append(q, e) = q \o <<e>> /\ <<e>> \in Seq(TxElement)
    OBVIOUS
  <2>2. OwnPackets(Append(q, e)) = OwnPackets(q) \o OwnPackets(<<e>>)
    BY <2>1, OwnPacketsCat
  <2>3. OwnPackets(<<e>>) = IF IsOwn(e) THEN <<e.pkt>> ELSE <<>>
    BY OwnPacketsOne
  <2>4. OwnPackets(q) \o <<>> = OwnPackets(q)
    BY <1>1, ConcatEmptySeq
  <2>5. e.pkt \in Packets
    BY DEF TxElement
  <2>6. Append(OwnPackets(q), e.pkt) = OwnPackets(q) \o <<e.pkt>>
    BY <1>1, <2>5, AppendIsConcat
  <2> QED
    BY <2>2, <2>3, <2>4, <2>6, Zenon
<1>4. ASSUME q # <<>>
      PROVE  IF IsOwn(Head(q))
               THEN /\ OwnPackets(q) # <<>>
                    /\ Head(OwnPackets(q)) = Head(q).pkt
                    /\ Tail(OwnPackets(q)) = OwnPackets(Tail(q))
               ELSE OwnPackets(Tail(q)) = OwnPackets(q)
  <2> DEFINE h == Head(q)
             t == Tail(q)
  <2>1. q = <<h>> \o t /\ h \in TxElement /\ <<h>> \in Seq(TxElement) /\ t \in Seq(TxElement)
    BY <1>4
  <2> HIDE DEF h, t
  <2>2. OwnPackets(q) = OwnPackets(<<h>>) \o OwnPackets(t)
    BY <2>1, OwnPacketsCat
  <2>3. OwnPackets(<<h>>) = IF IsOwn(h) THEN <<h.pkt>> ELSE <<>>
    BY <2>1, OwnPacketsOne
  <2>4. OwnPackets(t) \in Seq(Packets)
    <3>1. Len(t) \in 0 .. Len(t)
      BY <2>1
    <3> QED
      BY <2>1, <3>1, OwnUpToTypes, Zenon DEF OwnPackets
  <2>5. CASE IsOwn(h)
    <3> DEFINE u == OwnPackets(t)
    <3> HIDE DEF u
    <3>1. OwnPackets(q) = <<h.pkt>> \o u
      BY <2>2, <2>3, <2>5 DEF u
    <3>2. u \in Seq(Packets) /\ h.pkt \in Packets
      BY <2>1, <2>4 DEF u, TxElement
    <3>3. /\ <<h.pkt>> \o u # <<>> /\ Head(<<h.pkt>> \o u) = h.pkt
          /\ Tail(<<h.pkt>> \o u) = u
      BY <3>2
    <3> QED
      BY <2>5, <3>1, <3>3 DEF h, t, u
  <2>6. CASE ~IsOwn(h)
    <3>1. OwnPackets(q) = <<>> \o OwnPackets(t)
      BY <2>2, <2>3, <2>6
    <3>2. <<>> \o OwnPackets(t) = OwnPackets(t)
      BY <2>4, ConcatEmptySeq
    <3> QED
      BY <2>6, <3>1, <3>2 DEF h, t
  <2> QED
    BY <2>5, <2>6 DEF h
<1> QED
  BY <1>1, <1>2, <1>3, <1>4

-----------------------------------------------------------------------------
(* Frames, queue and events of a slot with acknowledgements *)

\* What a request with queue q can do to the queue and to the air: nothing, drop
\* the front element, or send it.
Keeps(q) == txQueue' = q /\ UNCHANGED currentTxPacket /\ upcall' = NoCall

Drops(q) ==
  /\ q # <<>>
  /\ Head(q).kind = "oversize" \/ (AckEnabled /\ Head(q).attempts = 0)
  /\ txQueue' = Tail(q)
  /\ upcall' = Confirm(Head(q).pkt, "FAILURE")
  /\ UNCHANGED currentTxPacket

Sends(q) ==
  /\ q # <<>> /\ Head(q).kind # "oversize"
  /\ AckEnabled => Head(q).attempts > 0
  /\ txQueue' = <<Attempted(Head(q))>> \o Tail(q)
  /\ currentTxPacket' = Attempted(Head(q))
  /\ upcall' = NoCall

\* Dropping and sending take a request of TX_ON to an idle transceiver.
LEMMA RequestOutcomes ==
  ASSUME NEW s \in Phy!RequestStates, NEW q \in Seq(TxElement), ProcessTrxStateRequest(s, q)
  PROVE  Keeps(q) \/ (s = "TX_ON" /\ ~Phy!PhyIsBusy /\ (Drops(q) \/ Sends(q)))
<1>1. CASE s = "TX_ON" /\ ~Phy!PhyIsBusy
  <2>1. CASE NothingToSend(q) \/ InArqBackoff(q)
    BY <2>1 DEF NothingToSend, InArqBackoff, Keeps, Phy!PlmeSetTRXStateRequest
  <2>2. CASE AttemptsExhausted(q) \/ Refused(q)
    BY <1>1, <2>2 DEF AttemptsExhausted, Refused, Drops, Phy!PlmeSetTRXStateRequest
  <2>3. CASE Transmitted(q)
    BY <1>1, <2>3 DEF Transmitted, Sends, Phy!TurnOnAndSend
  <2> QED
    BY <1>1, <2>1, <2>2, <2>3 DEF ProcessTrxStateRequest
<1>2. CASE ~(s = "TX_ON" /\ ~Phy!PhyIsBusy)
  BY <1>2 DEF ProcessTrxStateRequest, Keeps, Phy!PlmeSetTRXStateRequest
<1> QED
  BY <1>1, <1>2

\* Taking the element at position i out of a queue.
LEMMA RemoveAtElements ==
  ASSUME NEW q \in Seq(TxElement), NEW i \in 1 .. Len(q)
  PROVE  /\ RemoveAt(q, i) \in Seq(TxElement)
         /\ Len(RemoveAt(q, i)) = Len(q) - 1
         /\ \A j \in 1 .. Len(q) - 1 : RemoveAt(q, i)[j] = IF j < i THEN q[j] ELSE q[j + 1]
<1> DEFINE a == SubSeq(q, 1, i - 1)
           b == SubSeq(q, i + 1, Len(q))
<1>l. Len(q) \in Nat /\ i \in Nat
  OBVIOUS
<1>1. /\ a \in Seq(TxElement) /\ Len(a) = i - 1
      /\ \A j \in 1 .. i - 1 : a[j] = q[j]
  OBVIOUS
<1>2. /\ b \in Seq(TxElement) /\ Len(b) = Len(q) - i
      /\ \A j \in 1 .. Len(q) - i : b[j] = q[i + j]
  OBVIOUS
<1>3. RemoveAt(q, i) = a \o b
  BY DEF RemoveAt
<1> HIDE DEF a, b
<1>4. /\ a \o b \in Seq(TxElement) /\ Len(a \o b) = Len(a) + Len(b)
      /\ \A j \in 1 .. Len(a) + Len(b) :
           (a \o b)[j] = IF j <= Len(a) THEN a[j] ELSE b[j - Len(a)]
  BY <1>1, <1>2, ConcatProperties
<1>5. Len(a) + Len(b) = Len(q) - 1
  BY <1>l, <1>1, <1>2
<1>6. ASSUME NEW j \in 1 .. Len(q) - 1
      PROVE  (a \o b)[j] = IF j < i THEN q[j] ELSE q[j + 1]
  <2>1. (a \o b)[j] = IF j <= Len(a) THEN a[j] ELSE b[j - Len(a)]
    BY <1>4, <1>5
  <2>2. CASE j < i
    <3>1. j <= Len(a) /\ j \in 1 .. i - 1
      BY <1>l, <1>1, <2>2
    <3> QED
      BY <1>1, <2>1, <2>2, <3>1
  <2>3. CASE ~(j < i)
    <3>1. /\ ~(j <= Len(a)) /\ j - Len(a) \in 1 .. Len(q) - i
          /\ i + (j - Len(a)) = j + 1
      BY <1>l, <1>1, <2>3
    <3> QED
      BY <1>2, <2>1, <2>3, <3>1
  <2> QED
    BY <2>2, <2>3
<1> QED
  BY <1>3, <1>4, <1>5, <1>6

\* With acknowledgements: frame c on the air is the front of queue q, a frame that
\* was counted as an attempt; acknowledgements have their one attempt until they are
\* on the air, and nothing is forwarded.
InStep(q, c) ==
  /\ c # NoFrame => q # <<>> /\ Head(q) = c
  /\ c # NoFrame /\ c.kind # "ack" => c.attempts <= MaxFrameRetries
  /\ \A i \in 1 .. Len(q) :
       /\ q[i].kind # "forward"
       /\ q[i].kind = "ack" => q[i].attempts = 1 \/ (i = 1 /\ c # NoFrame)

\* Frames that are not answered.
NotAnswered(f) == f.kind \in {"overheard", "ack"}

\* The events of a slot come one after the other: assessment and transmission
\* before anything is received, at most one received frame to be answered, and
\* that one before its acknowledgement is sent.
InTurn ==
  /\ endCca \in {0, 1} /\ (endCca = 1 => xmitEvent = "none")
  /\ rxIndications # <<>> \/ currentTxPacket # NoFrame => xmitEvent = "none" /\ endCca = 0
  /\ \A i \in 2 .. Len(rxIndications) : NotAnswered(rxIndications[i])
  /\ currentTxPacket # NoFrame /\ rxIndications # <<>> =>
       /\ currentTxPacket.kind = "ack"
       /\ NotAnswered(rxIndications[1])

AckedInv == InStep(txQueue, currentTxPacket) /\ InTurn

\* A request keeps queue and air in step.
LEMMA RequestInStep ==
  ASSUME AckEnabled, NEW s \in Phy!RequestStates, NEW q \in Seq(TxElement),
         currentTxPacket # NoFrame => trxState = "BUSY_TX",
         InStep(q, currentTxPacket), ProcessTrxStateRequest(s, q)
  PROVE  InStep(txQueue', currentTxPacket')
<1>1. CASE Keeps(q)
  BY <1>1 DEF Keeps
<1>2. CASE ~Phy!PhyIsBusy /\ Drops(q)
  <2>1. currentTxPacket = NoFrame /\ currentTxPacket' = NoFrame /\ q # <<>> /\ txQueue' = Tail(q)
    BY <1>2 DEF Phy!PhyIsBusy, Phy!BusyStates, Drops
  <2>2. \A i \in 1 .. Len(Tail(q)) : i + 1 \in 1 .. Len(q) /\ Tail(q)[i] = q[i + 1]
    BY <2>1
  <2> QED
    BY <2>1, <2>2 DEF InStep
<1>3. CASE ~Phy!PhyIsBusy /\ Sends(q)
  <2>1. currentTxPacket = NoFrame
    BY <1>3 DEF Phy!PhyIsBusy, Phy!BusyStates
  <2> DEFINE e == Head(q)
             c == Attempted(e)
             r == <<c>> \o Tail(q)
  <2>2. /\ q # <<>> /\ AckEnabled /\ e \in TxElement /\ e.attempts > 0
        /\ txQueue' = r /\ currentTxPacket' = c
    BY <1>3 DEF Sends
  <2>3. /\ c.kind = e.kind /\ c.attempts = e.attempts - 1
        /\ e.attempts \in 0 .. MaxFrameRetries + 1 /\ MaxFrameRetries \in Nat
    BY <2>2, DlAssumption DEF Attempted, TxElement, Attempts
  <2>4. c \in TxElement /\ c # NoFrame
    BY <2>2, AttemptedType, NoFrameAssumption
  <2>5. c.attempts <= MaxFrameRetries
    BY <2>3
  <2>6. r # <<>> /\ Head(r) = c /\ Len(r) = Len(q) /\ r[1] = c
        /\ \A i \in 2 .. Len(r) : i \in 1 .. Len(q) /\ r[i] = q[i]
    <3>1. Tail(q) \in Seq(TxElement) /\ Len(Tail(q)) = Len(q) - 1
          /\ \A i \in 1 .. Len(q) - 1 : Tail(q)[i] = q[i + 1]
      BY <2>2
    <3> HIDE DEF c
    <3> QED
      BY <2>2, <2>4, <3>1
  <2>7. e = q[1] /\ 1 \in 1 .. Len(q)
    BY <2>2
  <2> HIDE DEF c, r, e
  <2>8. ASSUME NEW i \in 1 .. Len(r)
        PROVE  r[i].kind # "forward" /\ (r[i].kind = "ack" => r[i].attempts = 1 \/ i = 1)
    <3>1. CASE i = 1
      BY <2>3, <2>6, <2>7, <3>1 DEF InStep
    <3>2. CASE i # 1
      <4>1. i \in 2 .. Len(r)
        BY <3>2
      <4> QED
        BY <2>1, <2>6, <4>1 DEF InStep
    <3> QED
      BY <3>1, <3>2
  <2> QED
    BY <2>2, <2>4, <2>5, <2>6, <2>8 DEF InStep
<1> QED
  BY <1>1, <1>2, <1>3, RequestOutcomes

\* Queue and air stay in step when an element is appended, an acknowledgement pushed
\* in front of a queue nothing is sent from, or an element taken from behind the front.
LEMMA QueueInStep ==
  ASSUME NEW q \in Seq(TxElement), NEW c, NEW e \in TxElement, InStep(q, c)
  PROVE  /\ e.kind \in {"own", "oversize"} => InStep(Append(q, e), c)
         /\ c = NoFrame /\ e.kind = "ack" /\ e.attempts = 1 => InStep(<<e>> \o q, c)
         /\ \A i \in 1 .. Len(q) : (c # NoFrame => i # 1) => InStep(RemoveAt(q, i), c)
         /\ q # <<>> => InStep(Tail(q), NoFrame)
<1>1. ASSUME e.kind \in {"own", "oversize"} PROVE InStep(Append(q, e), c)
  <2>1. /\ Len(Append(q, e)) = Len(q) + 1 /\ Append(q, e)[Len(q) + 1] = e
        /\ \A i \in 1 .. Len(q) : Append(q, e)[i] = q[i]
        /\ q # <<>> => Head(Append(q, e)) = Head(q)
    OBVIOUS
  <2>2. \A i \in 1 .. Len(Append(q, e)) : i \in 1 .. Len(q) \/ i = Len(q) + 1
    BY <2>1
  <2> QED
    BY <1>1, <2>1, <2>2 DEF InStep
<1>2. ASSUME c = NoFrame, e.kind = "ack", e.attempts = 1 PROVE InStep(<<e>> \o q, c)
  <2>1. /\ Len(<<e>> \o q) = Len(q) + 1 /\ (<<e>> \o q)[1] = e
        /\ \A i \in 1 .. Len(q) : (<<e>> \o q)[i + 1] = q[i]
    OBVIOUS
  <2>2. \A i \in 1 .. Len(<<e>> \o q) : i = 1 \/ i - 1 \in 1 .. Len(q)
    BY <2>1
  <2> QED
    BY <1>2, <2>1, <2>2 DEF InStep
<1>3. ASSUME NEW i \in 1 .. Len(q), c # NoFrame => i # 1
      PROVE  InStep(RemoveAt(q, i), c)
  <2> DEFINE r == RemoveAt(q, i)
  <2>1. /\ r \in Seq(TxElement) /\ Len(r) = Len(q) - 1
        /\ \A j \in 1 .. Len(q) - 1 : r[j] = IF j < i THEN q[j] ELSE q[j + 1]
    BY RemoveAtElements
  <2> HIDE DEF r
  <2>2. c # NoFrame => r # <<>> /\ Head(r) = c
    <3>1. ASSUME c # NoFrame PROVE 1 \in 1 .. Len(q) - 1 /\ 1 < i /\ q[1] = c
      BY <1>3, <3>1 DEF InStep
    <3> QED
      BY <2>1, <3>1
  <2>3. ASSUME NEW j \in 1 .. Len(r)
        PROVE  /\ r[j].kind # "forward"
               /\ r[j].kind = "ack" => r[j].attempts = 1 \/ (j = 1 /\ c # NoFrame)
    <3>1. CASE j < i
      BY <2>1, <3>1 DEF InStep
    <3>2. CASE j >= i
      <4>1. j + 1 \in 2 .. Len(q) /\ r[j] = q[j + 1]
        BY <2>1, <3>2
      <4> QED
        BY <4>1 DEF InStep
    <3> QED
      BY <3>1, <3>2
  <2> QED
    BY <2>2, <2>3 DEF InStep, r
<1>4. ASSUME q # <<>> PROVE InStep(Tail(q), NoFrame)
  <2>1. \A j \in 1 .. Len(Tail(q)) : j + 1 \in 2 .. Len(q) /\ Tail(q)[j] = q[j + 1]
    BY <1>4
  <2> QED
    BY <2>1 DEF InStep
<1> QED
  BY <1>1, <1>2, <1>3, <1>4

\* An acknowledgement of a received frame, as AnswerWithAck makes it.
LEMMA AckElement ==
  ASSUME NEW f \in RxFrame
  PROVE  [pkt |-> f.pkt, kind |-> "ack", attempts |-> 1] \in TxElement
BY DlAssumption DEF TxElement, Kinds, Attempts, RxFrame

\* Every step keeps queue and air in step, with aligned slots and no flush.
LEMMA NextInStep ==
  ASSUME AckEnabled, Aligned, ~FlushAllowed, DlTypeInv, AlignedInv, AckedInv, [Next]_vars
  PROVE  InStep(txQueue', currentTxPacket')
<1>q. /\ txQueue \in Seq(TxElement) /\ rxIndications \in Seq(RxFrame) /\ Coupling
      /\ currentTxPacket # NoFrame => trxState = "BUSY_TX"
      /\ InStep(txQueue, currentTxPacket)
  BY DEF DlTypeInv, QueueTypes, RxTypes, Coupling, AckedInv
<1>s. ASSUME UNCHANGED <<txQueue, currentTxPacket>> PROVE InStep(txQueue', currentTxPacket')
  BY <1>s, <1>q
<1>r. ASSUME NEW s \in Phy!RequestStates, ProcessTrxStateRequest(s, txQueue)
      PROVE  InStep(txQueue', currentTxPacket')
  BY <1>r, <1>q, RequestInStep
<1>1. CASE ProcessLink
  <2>1. PICK type : HopAndRequest(HopPattern[hopIndex], LinkRequest(type))
    BY <1>1 DEF ProcessLink
  <2>2. CASE LinkRequest(type) = "none" /\ NoTrxRequest(txQueue)
    BY <2>2, <1>s DEF NoTrxRequest, trxVars
  <2>3. CASE LinkRequest(type) # "none" /\ ProcessTrxStateRequest(LinkRequest(type), txQueue)
    BY <2>3, <1>r, RequestValues
  <2>4. ~Phy!PhyIsBusy
    BY <1>1, <1>q, BoundaryIsQuiet DEF ProcessLink
  <2> QED
    BY <2>1, <2>2, <2>3, <2>4 DEF HopAndRequest, Phy!AbortAndRetune
<1>2. CASE IdleSlot
  BY <1>2, <1>r, <1>s, RequestValues DEF IdleSlot, NoTrxRequest, trxVars
<1>3. CASE TurnTransmitterOn
  BY <1>3, <1>r, RequestValues DEF TurnTransmitterOn
<1>4. CASE CallPlmeCcaRequest
  BY <1>4, <1>r, <1>s, RequestValues
     DEF CallPlmeCcaRequest, Backoff, Phy!PlmeCcaRequest, queueVars
<1>5. CASE EndCca
  BY <1>5, <1>r, <1>s, RequestValues DEF EndCca, Backoff, NoTrxRequest, trxVars
<1>6. CASE EndTx
  <2>1. /\ txQueue # <<>> /\ currentTxPacket' = NoFrame /\ currentTxPacket # NoFrame
        /\ txQueue' = IF Head(txQueue).kind = "ack" THEN Tail(txQueue) ELSE txQueue
    BY <1>6 DEF EndTx, TxDone, Phy!EndTx
  <2>2. CASE Head(txQueue).kind = "ack"
    <3>1. Head(txQueue) \in TxElement
      BY <1>q, <2>1
    <3> QED
      BY <1>q, <2>1, <2>2, <3>1, QueueInStep
  <2>3. CASE Head(txQueue).kind # "ack"
    <3>1. txQueue[1].kind # "ack"
      BY <1>q, <2>1, <2>3
    <3> QED
      BY <1>q, <2>1, <2>3, <3>1 DEF InStep
  <2> QED
    BY <2>2, <2>3
<1>7. CASE EndTxWithoutElement
  BY <1>7, <1>s DEF EndTxWithoutElement, trxVars, queueVars
<1>8. ASSUME NEW f \in RxFrame, StartRx(f) PROVE InStep(txQueue', currentTxPacket')
  BY <1>8, <1>s DEF StartRx, Phy!StartRx, queueVars
<1>9. CASE DecrementChannelRxSignals
  BY <1>9, <1>s DEF DecrementChannelRxSignals, trxVars, queueVars
<1>10. CASE EndRx
  BY <1>10, <1>s DEF EndRx, Phy!EndRx, queueVars
<1>11. CASE ProcessPdDataIndication
  <2> DEFINE f == Head(rxIndications)
  <2>1. f \in RxFrame /\ rxIndications # <<>> /\ rxIndications[1] = f
    BY <1>11, <1>q DEF ProcessPdDataIndication
  <2>2. CASE ProcessAck(f)
    <3>1. CASE AckedPositions(f.pkt) = {} /\ UNCHANGED queueVars
      BY <1>s, <2>2, <3>1 DEF ProcessAck, queueVars, trxVars
    <3>2. ASSUME NEW i \in AckedPositions(f.pkt), txQueue' = RemoveAt(txQueue, i)
          PROVE  InStep(txQueue', currentTxPacket')
      <4>1. UNCHANGED currentTxPacket
        BY <2>2 DEF ProcessAck, trxVars
      <4>2. i \in 1 .. Len(txQueue) /\ txQueue[i].kind # "ack"
        BY <3>2 DEF AckedPositions
      <4>3. currentTxPacket # NoFrame => i # 1
        <5>1. currentTxPacket # NoFrame => txQueue[1].kind = "ack"
          BY <1>q, <2>1 DEF AckedInv, InTurn, InStep
        <5> QED
          BY <4>2, <5>1
      <4>4. txQueue[i] \in TxElement
        BY <1>q, <4>2
      <4> QED
        BY <1>q, <3>2, <4>1, <4>2, <4>3, <4>4, QueueInStep
    <3> QED
      BY <2>2, <3>1, <3>2 DEF ProcessAck
  <2>3. CASE AnswerWithAck(f)
    <3> DEFINE e == [pkt |-> f.pkt, kind |-> "ack", attempts |-> 1]
               r == <<e>> \o txQueue
    <3>1. e \in TxElement /\ e.kind = "ack" /\ e.attempts = 1
      BY <2>1, AckElement
    <3>2. currentTxPacket = NoFrame
      BY <2>1, <2>3 DEF AckedInv, InTurn, NotAnswered, AnswerWithAck
    <3>3. ProcessTrxStateRequest("TX_ON", r)
      BY <2>3 DEF AnswerWithAck
    <3> HIDE DEF e
    <3>4. InStep(r, currentTxPacket) /\ r \in Seq(TxElement)
      BY <1>q, <3>1, <3>2, QueueInStep
    <3> HIDE DEF r
    <3> QED
      BY <1>q, <3>3, <3>4, RequestInStep, RequestValues
  <2>4. CASE DropOverheard(f)
    BY <1>s, <2>4 DEF DropOverheard, NoTrxRequest, trxVars
  <2> QED
    BY <1>11, <2>2, <2>3, <2>4 DEF ProcessPdDataIndication, ForwardOn, DeliverUp
<1>12. ASSUME NEW p \in Packets, NEW kind \in {"own", "oversize"}, DlDataRequest(p, kind)
       PROVE  InStep(txQueue', currentTxPacket')
  <2> DEFINE e == [pkt |-> p, kind |-> kind,
                   attempts |-> IF AckEnabled THEN MaxFrameRetries + 1 ELSE 0]
  <2>1. e \in TxElement /\ e.kind \in {"own", "oversize"}
    BY DlAssumption DEF TxElement, Kinds, Attempts
  <2>2. txQueue' = Append(txQueue, e) /\ UNCHANGED currentTxPacket
    BY <1>12 DEF DlDataRequest, trxVars
  <2> HIDE DEF e
  <2> QED
    BY <1>q, <2>1, <2>2, QueueInStep
<1>13. CASE FlushTxQueue
  BY <1>13 DEF FlushTxQueue
<1>14. CASE UNCHANGED vars
  BY <1>14, <1>s DEF vars, trxVars, queueVars
<1> QED
  BY <1>1, <1>2, <1>3, <1>4, <1>5, <1>6, <1>7, <1>8, <1>9, <1>10, <1>11, <1>12, <1>13,
     <1>14 DEF Next, SlotBoundary, RadioEvent, Reception, UpperLayer

\* Every step keeps the events of a slot in turn.
LEMMA NextInTurn ==
  ASSUME AckEnabled, Aligned, DlTypeInv, AlignedInv, SlotEvents, AckedInv, [Next]_vars
  PROVE  InTurn'
<1>q. /\ txQueue \in Seq(TxElement) /\ rxIndications \in Seq(RxFrame) /\ Coupling
      /\ endCca \in Nat /\ InTurn
  BY DEF DlTypeInv, QueueTypes, RxTypes, CounterTypes, AckedInv
<1>s. ASSUME UNCHANGED <<rxIndications, xmitEvent, endCca>>,
             currentTxPacket' \in {currentTxPacket, NoFrame}
      PROVE  InTurn'
  BY <1>s, <1>q DEF InTurn
<1>e. ASSUME NEW s \in Phy!RequestStates, NEW q \in Seq(TxElement),
             ProcessTrxStateRequest(s, q), s # "TX_ON"
      PROVE  UNCHANGED currentTxPacket
  BY <1>e, OnlyTxOnSends
<1>f. ASSUME rxIndications' = <<>>, endCca' \in {0, 1}, endCca' = 1 => xmitEvent' = "none",
             currentTxPacket' # NoFrame => xmitEvent' = "none" /\ endCca' = 0
      PROVE  InTurn'
  BY <1>f DEF InTurn
<1>1. CASE ProcessLink
  <2>1. /\ ~Phy!PhyIsBusy /\ endCca = 0 /\ rxIndications = <<>> /\ currentTxPacket = NoFrame
        /\ UNCHANGED <<endCca, rxIndications>>
    BY <1>1, <1>q, BoundaryIsQuiet DEF ProcessLink
  <2>2. PICK type : HopAndRequest(HopPattern[hopIndex], LinkRequest(type))
                    /\ xmitEvent' = XmitEvent(type)
    BY <1>1 DEF ProcessLink
  <2>3. currentTxPacket' # NoFrame => LinkRequest(type) = "TX_ON"
    BY <1>q, <1>e, <2>1, <2>2, RequestValues
    DEF HopAndRequest, NoTrxRequest, trxVars, Phy!AbortAndRetune
  <2>4. LinkRequest(type) = "TX_ON" => XmitEvent(type) = "none"
    BY DEF LinkRequest, XmitEvent
  <2> QED
    BY <1>f, <2>1, <2>2, <2>3, <2>4
<1>2. CASE IdleSlot
  <2>1. UNCHANGED currentTxPacket
    BY <1>2, <1>e, <1>q, RequestValues DEF IdleSlot, NoTrxRequest, trxVars
  <2> QED
    BY <1>2, <1>s, <2>1 DEF IdleSlot
<1>3. CASE TurnTransmitterOn
  <2>1. rxIndications = <<>> /\ endCca = 0
    BY <1>3, <1>q DEF TurnTransmitterOn, InTurn, SlotEvents
  <2> QED
    BY <1>3, <1>f, <2>1 DEF TurnTransmitterOn
<1>4. CASE CallPlmeCcaRequest
  <2>1. rxIndications = <<>> /\ currentTxPacket = NoFrame /\ endCca = 0
    BY <1>4, <1>q DEF CallPlmeCcaRequest, InTurn
  <2>2. xmitEvent' = "none" /\ UNCHANGED rxIndications /\ endCca' \in {0, 1}
    BY <1>4, <2>1 DEF CallPlmeCcaRequest, Phy!PlmeCcaRequest
  <2>3. UNCHANGED currentTxPacket
    BY <1>4, <1>e, <1>q, RequestValues
    DEF CallPlmeCcaRequest, Backoff, Phy!PlmeCcaRequest
  <2> QED
    BY <1>f, <2>1, <2>2, <2>3
<1>5. CASE EndCca
  <2>1. rxIndications = <<>> /\ endCca = 1 /\ xmitEvent = "none"
    BY <1>5, <1>q DEF EndCca, Phy!EndCca, InTurn
  <2>2. endCca' = 0 /\ UNCHANGED <<rxIndications, xmitEvent>>
    BY <1>5, <2>1 DEF EndCca, Phy!EndCca
  <2> QED
    BY <1>f, <2>1, <2>2
<1>6. CASE EndTx
  BY <1>6, <1>s DEF EndTx, TxDone, Phy!EndTx
<1>7. CASE EndTxWithoutElement \/ UpperLayer \/ DecrementChannelRxSignals
  BY <1>7, <1>s
  DEF EndTxWithoutElement, UpperLayer, DlDataRequest, FlushTxQueue,
      DecrementChannelRxSignals, trxVars
<1>8. ASSUME NEW f \in RxFrame, StartRx(f) PROVE InTurn'
  BY <1>8, <1>s DEF StartRx, Phy!StartRx
<1>9. CASE EndRx
  <2>1. /\ xmitEvent = "none" /\ endCca = 0 /\ UNCHANGED <<xmitEvent, endCca>>
        /\ currentRxPacket # NoFrame /\ UNCHANGED currentTxPacket
        /\ rxIndications' \in {rxIndications, Append(rxIndications, currentRxPacket)}
    BY <1>9 DEF EndRx, FrameOutlastsCca, Phy!EndRx
  <2>2. currentTxPacket = NoFrame
    BY <1>q, <2>1 DEF Coupling, Phy!ReceivingUntilEndRx
  <2>3. rxIndications # <<>> => NotAnswered(currentRxPacket)
    BY <1>9, <2>1 DEF EndRx, DataOutlastsLifs, NotAnswered
  <2>4. ASSUME NEW i \in 2 .. Len(rxIndications') PROVE NotAnswered(rxIndications'[i])
    <3>1. CASE rxIndications' = rxIndications
      BY <1>q, <3>1 DEF InTurn
    <3>2. CASE rxIndications' = Append(rxIndications, currentRxPacket)
      <4>1. rxIndications # <<>>
        BY <1>q, <3>2
      <4>2. i \in 2 .. Len(rxIndications) \/ i = Len(rxIndications) + 1
        BY <1>q, <3>2
      <4> QED
        BY <1>q, <2>3, <3>2, <4>1, <4>2 DEF InTurn
    <3> QED
      BY <2>1, <3>1, <3>2
  <2> QED
    BY <2>1, <2>2, <2>4 DEF InTurn
<1>10. CASE ProcessPdDataIndication
  <2> DEFINE f == Head(rxIndications)
             n == rxIndications'
  <2>1. /\ f \in RxFrame /\ rxIndications # <<>> /\ rxIndications[1] = f
        /\ n = Tail(rxIndications) /\ UNCHANGED <<xmitEvent, endCca>>
        /\ xmitEvent = "none" /\ endCca = 0
    BY <1>10, <1>q DEF ProcessPdDataIndication, InTurn
  <2>2. \A i \in 1 .. Len(n) : NotAnswered(n[i])
    <3>1. \A i \in 1 .. Len(n) : i + 1 \in 2 .. Len(rxIndications) /\ n[i] = rxIndications[i + 1]
      BY <1>q, <2>1
    <3> QED
      BY <1>q, <3>1 DEF InTurn
  <2>3. n # <<>> => 1 \in 1 .. Len(n)
    BY <1>q, <2>1
  <2> HIDE DEF f
  <2>4. currentTxPacket' # NoFrame => currentTxPacket'.kind = "ack"
    <3>1. CASE AnswerWithAck(f)
      <4> DEFINE e == [pkt |-> f.pkt, kind |-> "ack", attempts |-> 1]
                 r == <<e>> \o txQueue
      <4>1. e \in TxElement /\ r \in Seq(TxElement) /\ r # <<>> /\ Head(r) = e /\ e.kind = "ack"
        BY <1>q, <2>1, AckElement
      <4>2. currentTxPacket = NoFrame
        BY <1>q, <2>1, <3>1 DEF InTurn, NotAnswered, AnswerWithAck
      <4>3. ProcessTrxStateRequest("TX_ON", r)
        BY <3>1 DEF AnswerWithAck
      <4> HIDE DEF e, r
      <4>4. Attempted(e).kind = "ack"
        BY <4>1 DEF Attempted, TxElement
      <4> QED
        BY <4>1, <4>2, <4>3, <4>4, RequestOutcomes, RequestValues DEF Keeps, Drops, Sends
    <3>2. CASE ProcessAck(f) \/ DropOverheard(f)
      <4>1. UNCHANGED currentTxPacket
        BY <3>2 DEF ProcessAck, DropOverheard, NoTrxRequest, trxVars
      <4> QED
        BY <1>q, <2>1, <4>1 DEF InTurn
    <3> QED
      BY <1>10, <3>1, <3>2 DEF ProcessPdDataIndication, ForwardOn, DeliverUp, f
  <2> HIDE DEF n
  <2>5. /\ \A i \in 2 .. Len(n) : i \in 1 .. Len(n)
        /\ n # <<>> => NotAnswered(n[1])
    <3>1. Len(n) \in Nat
      BY <1>q, <2>1
    <3> QED
      BY <2>2, <2>3, <3>1
  <2> QED
    BY <2>1, <2>2, <2>4, <2>5 DEF InTurn, n
<1>11. CASE UNCHANGED vars
  BY <1>11, <1>s DEF vars, trxVars
<1> QED
  BY <1>1, <1>2, <1>3, <1>4, <1>5, <1>6, <1>7, <1>8, <1>9, <1>10, <1>11
  DEF Next, SlotBoundary, RadioEvent, Reception

-----------------------------------------------------------------------------
(* Acknowledgements within the slot of their frame *)

IsAck(f) == f # NoFrame /\ f.kind = "ack"

\* Packet p has been sent and is first in queue q but for acknowledgements.
SentFirst(q, p) ==
  \E i \in 1 .. Len(q) :
    /\ q[i].kind # "ack" /\ q[i].pkt = p /\ q[i].attempts <= MaxFrameRetries
    /\ \A j \in 1 .. i - 1 : q[j].kind = "ack"

NoAckReceived == \A i \in 1 .. Len(rxIndications) : rxIndications[i].kind # "ack"

\* At most one acknowledgement is on its way to this node: still to be sent, being
\* received, or received.  It comes when the events of the slot are over, and
\* acknowledges the first packet of the queue.
AnswersInv ==
  /\ acksOwed # {} => NoAckReceived /\ ~IsAck(currentRxPacket)
  /\ IsAck(currentRxPacket) => NoAckReceived
  /\ \A i, j \in 1 .. Len(rxIndications) :
       rxIndications[i].kind = "ack" /\ rxIndications[j].kind = "ack" => i = j
  /\ \A p, r \in acksOwed : p = r
  /\ acksOwed # {} \/ IsAck(currentRxPacket) => xmitEvent = "none" /\ endCca = 0
  /\ currentTxPacket # NoFrame /\ currentTxPacket.kind # "ack" => acksOwed = {}
  /\ \A p \in acksOwed : SentFirst(txQueue, p)
  /\ IsAck(currentRxPacket) => SentFirst(txQueue, currentRxPacket.pkt)
  /\ \A i \in 1 .. Len(rxIndications) :
       rxIndications[i].kind = "ack" => SentFirst(txQueue, rxIndications[i].pkt)

\* Packets appended, and acknowledgements in front, come and go without changing
\* which packet is first.
LEMMA SentFirstKept ==
  ASSUME AckEnabled, NEW q \in Seq(TxElement), NEW p, NEW e \in TxElement, SentFirst(q, p)
  PROVE  /\ SentFirst(Append(q, e), p)
         /\ e.kind = "ack" => SentFirst(<<e>> \o q, p)
         /\ q # <<>> /\ Head(q).kind = "ack" =>
              /\ SentFirst(Tail(q), p)
              /\ SentFirst(<<Attempted(Head(q))>> \o Tail(q), p)
<1> DEFINE Sent(d) == d.kind # "ack" /\ d.pkt = p /\ d.attempts <= MaxFrameRetries
<1>1. PICK i \in 1 .. Len(q) : Sent(q[i]) /\ \A j \in 1 .. i - 1 : q[j].kind = "ack"
  BY DEF SentFirst
<1>l. Len(q) \in Nat /\ i \in Nat
  OBVIOUS
<1>2. ASSUME NEW r, NEW k \in 1 .. Len(r), Sent(r[k]),
             \A j \in 1 .. k - 1 : r[j].kind = "ack"
      PROVE  SentFirst(r, p)
  BY <1>2 DEF SentFirst
<1> HIDE DEF Sent
<1>3. SentFirst(Append(q, e), p)
  <2> DEFINE r == Append(q, e)
  <2>1. Len(r) = Len(q) + 1 /\ \A j \in 1 .. Len(q) : r[j] = q[j]
    BY AppendProperties
  <2> HIDE DEF r
  <2>2. i \in 1 .. Len(r) /\ r[i] = q[i] /\ \A j \in 1 .. i - 1 : r[j] = q[j]
    BY <1>l, <2>1
  <2> QED
    BY <1>1, <1>2, <2>2 DEF r
<1>4. ASSUME NEW d \in TxElement, d.kind = "ack" PROVE SentFirst(<<d>> \o q, p)
  <2> DEFINE r == <<d>> \o q
  <2>1. Len(r) = Len(q) + 1 /\ r[1] = d /\ \A j \in 1 .. Len(q) : r[j + 1] = q[j]
    OBVIOUS
  <2> HIDE DEF r
  <2>2. i + 1 \in 1 .. Len(r) /\ r[i + 1] = q[i]
    BY <1>l, <2>1
  <2>3. ASSUME NEW j \in 1 .. (i + 1) - 1 PROVE r[j].kind = "ack"
    <3>1. CASE j = 1
      BY <1>4, <2>1, <3>1
    <3>2. CASE j # 1
      <4>1. j - 1 \in 1 .. i - 1 /\ j - 1 \in 1 .. Len(q) /\ (j - 1) + 1 = j
        BY <1>l, <3>2
      <4>2. r[j] = q[j - 1]
        BY <2>1, <4>1
      <4> QED
        BY <1>1, <4>1, <4>2
    <3> QED
      BY <3>1, <3>2
  <2>4. Sent(r[i + 1])
    BY <1>1, <2>2
  <2> QED
    BY <1>2, <2>2, <2>3, <2>4 DEF r
<1>5. ASSUME q # <<>>, Head(q).kind = "ack" PROVE i \in 2 .. Len(q)
  <2>1. q[1].kind = "ack"
    BY <1>5
  <2> QED
    BY <1>1, <1>l, <2>1 DEF Sent
<1>6. ASSUME q # <<>>, Head(q).kind = "ack" PROVE SentFirst(Tail(q), p)
  <2> DEFINE r == Tail(q)
  <2>1. Len(r) = Len(q) - 1 /\ \A j \in 1 .. Len(r) : r[j] = q[j + 1]
    BY <1>6, HeadTailProperties
  <2> HIDE DEF r
  <2>2. i \in 2 .. Len(q)
    BY <1>5, <1>6
  <2>3. i - 1 \in 1 .. Len(r) /\ r[i - 1] = q[i]
    BY <1>l, <2>1, <2>2
  <2>4. ASSUME NEW j \in 1 .. (i - 1) - 1 PROVE r[j].kind = "ack"
    <3>1. j \in 1 .. Len(r) /\ j + 1 \in 1 .. i - 1
      BY <1>l, <2>1, <2>2
    <3> QED
      BY <1>1, <2>1, <3>1
  <2>5. Sent(r[i - 1])
    BY <1>1, <2>3
  <2> QED
    BY <1>2, <2>3, <2>4, <2>5 DEF r
<1>7. ASSUME q # <<>>, Head(q).kind = "ack"
      PROVE  SentFirst(<<Attempted(Head(q))>> \o Tail(q), p)
  <2> DEFINE d == Attempted(Head(q))
             t == Tail(q)
             r == <<d>> \o t
  <2>1. Len(t) = Len(q) - 1 /\ t \in Seq(TxElement) /\ \A j \in 1 .. Len(t) : t[j] = q[j + 1]
    BY <1>7, HeadTailProperties
  <2>2. d.kind = "ack"
    <3>1. Head(q) \in TxElement
      BY <1>7
    <3> QED
      BY <1>7, <3>1 DEF Attempted, TxElement
  <2> HIDE DEF d, t
  <2>3. Len(r) = Len(t) + 1 /\ r[1] = d /\ \A j \in 1 .. Len(t) : r[j + 1] = t[j]
    BY <2>1
  <2> HIDE DEF r
  <2>4. i \in 2 .. Len(q)
    BY <1>5, <1>7
  <2>5. ASSUME NEW j \in 2 .. Len(q) PROVE j \in 1 .. Len(r) /\ r[j] = q[j]
    <3>1. j - 1 \in 1 .. Len(t) /\ (j - 1) + 1 = j /\ j \in 1 .. Len(r)
      BY <1>l, <2>1, <2>3
    <3>2. r[j] = t[j - 1] /\ t[j - 1] = q[j]
      BY <2>1, <2>3, <3>1
    <3> QED
      BY <3>1, <3>2
  <2>6. ASSUME NEW j \in 1 .. i - 1 PROVE r[j].kind = "ack"
    <3>1. CASE j = 1
      BY <2>2, <2>3, <3>1
    <3>2. CASE j # 1
      <4>1. j \in 2 .. Len(q)
        BY <1>l, <3>2
      <4> QED
        BY <1>1, <2>5, <4>1
    <3> QED
      BY <3>1, <3>2
  <2>7. Sent(r[i]) /\ i \in 1 .. Len(r)
    BY <1>1, <2>4, <2>5
  <2> QED
    BY <1>2, <2>6, <2>7 DEF r, d, t
<1> QED
  BY <1>3, <1>4, <1>6, <1>7

\* The queue after a request made with an acknowledgement at its front.
LEMMA AnswerSends ==
  ASSUME AckEnabled, NEW q \in Seq(TxElement), q # <<>>, Head(q).kind = "ack",
         Head(q).attempts = 1, ProcessTrxStateRequest("TX_ON", q)
  PROVE  /\ txQueue' \in {q, <<Attempted(Head(q))>> \o Tail(q)}
         /\ upcall' = NoCall
         /\ currentTxPacket' # currentTxPacket => currentTxPacket'.kind = "ack"
<1>1. Attempted(Head(q)).kind = "ack"
  <2>1. Head(q) \in TxElement
    OBVIOUS
  <2> QED
    BY <2>1 DEF Attempted, TxElement
<1>2. ~Drops(q)
  BY DEF Drops
<1>3. Keeps(q) \/ Sends(q)
  BY <1>2, RequestOutcomes, RequestValues
<1> QED
  BY <1>1, <1>3 DEF Keeps, Sends

\* A step that brings no acknowledgement nearer and keeps the first packet of the
\* queue keeps AnswersInv; so does one after which none is on its way.
LEMMA QuietKeepsAnswers ==
  ASSUME AnswersInv, UNCHANGED <<acksOwed, currentRxPacket, rxIndications, xmitEvent, endCca>>,
         currentTxPacket' \in {currentTxPacket, NoFrame}
           \/ (currentTxPacket' # NoFrame /\ currentTxPacket'.kind = "ack"),
         \A p : SentFirst(txQueue, p) => SentFirst(txQueue', p)
  PROVE  AnswersInv'
<1>1. /\ NoAckReceived' <=> NoAckReceived
      /\ IsAck(currentRxPacket)' <=> IsAck(currentRxPacket)
  BY DEF NoAckReceived, IsAck
<1>2. \A p : SentFirst(txQueue, p)' <=> SentFirst(txQueue', p)
  BY DEF SentFirst
<1> QED
  BY <1>1, <1>2 DEF AnswersInv

LEMMA NoneKeepsAnswers ==
  ASSUME acksOwed' = {}, ~IsAck(currentRxPacket'), NoAckReceived'
  PROVE  AnswersInv'
<1>1. ~IsAck(currentRxPacket)'
  BY DEF IsAck
<1> QED
  BY <1>1 DEF AnswersInv, NoAckReceived

\* Every step keeps AnswersInv, if acknowledgements come in the slot of their frame.
LEMMA NextAnswers ==
  ASSUME AckEnabled, Aligned, ~LateAcks, ~FlushAllowed, DlTypeInv, AlignedInv, AckedInv,
         AnswersInv, [Next]_vars
  PROVE  AnswersInv'
<1>q. /\ txQueue \in Seq(TxElement) /\ rxIndications \in Seq(RxFrame) /\ Coupling
      /\ currentRxPacket \in RxFrame \cup {NoFrame} /\ InTurn
      /\ InStep(txQueue, currentTxPacket)
      /\ currentTxPacket \in TxElement \cup {NoFrame} /\ endCca \in Nat
  BY DEF DlTypeInv, QueueTypes, RxTypes, TrxTypes, CounterTypes, AckedInv
<1>n. /\ rxIndications = <<>> => NoAckReceived
      /\ rxIndications' = <<>> => NoAckReceived'
  BY DEF NoAckReceived
<1>s. ASSUME UNCHANGED <<acksOwed, currentRxPacket, rxIndications, xmitEvent, endCca>>,
             currentTxPacket' \in {currentTxPacket, NoFrame}, UNCHANGED txQueue
      PROVE  AnswersInv'
  BY <1>s, QuietKeepsAnswers
<1>b. ASSUME SlotOver, NewSlot, UNCHANGED <<currentRxPacket, rxIndications>>
      PROVE  AnswersInv'
  <2>1. acksOwed' = {} /\ currentRxPacket' = NoFrame /\ rxIndications' = <<>>
    BY <1>b DEF SlotOver, NewSlot
  <2> QED
    BY <1>n, <2>1, NoneKeepsAnswers DEF IsAck
<1>e. ASSUME xmitEvent # "none" \/ endCca # 0,
             UNCHANGED <<acksOwed, currentRxPacket, rxIndications>>
      PROVE  AnswersInv'
  <2>1. rxIndications = <<>>
    BY <1>e, <1>q DEF InTurn
  <2>2. acksOwed = {} /\ ~IsAck(currentRxPacket)
    BY <1>e DEF AnswersInv
  <2>3. ~IsAck(currentRxPacket')
    BY <1>e, <2>2 DEF IsAck
  <2> QED
    BY <1>e, <1>n, <2>1, <2>2, <2>3, NoneKeepsAnswers
<1>1. CASE ProcessLink
  <2>1. ~Phy!PhyIsBusy
    BY <1>1, <1>q, BoundaryIsQuiet DEF ProcessLink
  <2>2. PICK type : HopAndRequest(HopPattern[hopIndex], LinkRequest(type))
    BY <1>1 DEF ProcessLink
  <2>3. UNCHANGED currentRxPacket
    BY <2>1, <2>2 DEF HopAndRequest, rxVars, Phy!AbortAndRetune
  <2> QED
    BY <1>1, <1>b, <2>3 DEF ProcessLink
<1>2. CASE IdleSlot
  BY <1>2, <1>b DEF IdleSlot, rxVars
<1>3. CASE TurnTransmitterOn \/ CallPlmeCcaRequest \/ EndCca
  <2>1. xmitEvent # "none" \/ endCca # 0
    BY <1>3, <1>q DEF TurnTransmitterOn, CallPlmeCcaRequest, EndCca, Phy!EndCca
  <2>2. UNCHANGED <<acksOwed, currentRxPacket, rxIndications>>
    BY <1>3 DEF TurnTransmitterOn, CallPlmeCcaRequest, EndCca, rxVars, envVars
  <2> QED
    BY <1>e, <2>1, <2>2
<1>4. CASE EndTx
  <2> DEFINE c == currentTxPacket
  <2>1. /\ c \in TxElement /\ c # NoFrame /\ txQueue # <<>> /\ Head(txQueue) = c
        /\ txQueue[1] = c /\ Len(txQueue) \in Nat /\ Len(txQueue) > 0
    BY <1>4, <1>q DEF EndTx, TxDone, Phy!EndTx, InStep
  <2>2. /\ currentTxPacket' = NoFrame
        /\ UNCHANGED <<currentRxPacket, rxIndications, xmitEvent, endCca>>
        /\ txQueue' = IF c.kind = "ack" THEN Tail(txQueue) ELSE txQueue
        /\ acksOwed' = IF c.kind = "ack" THEN acksOwed ELSE acksOwed \cup {c.pkt}
    BY <1>4, <2>1 DEF EndTx, TxDone, Phy!EndTx, rxVars, slotVars
  <2>3. CASE c.kind = "ack"
    <3>1. \A p : SentFirst(txQueue, p) => SentFirst(txQueue', p)
      BY <1>q, <2>1, <2>2, <2>3, SentFirstKept
    <3> QED
      BY <2>2, <2>3, <3>1, QuietKeepsAnswers
  <2>4. CASE c.kind # "ack"
    <3>1. acksOwed = {} /\ acksOwed' = {c.pkt}
      BY <2>1, <2>2, <2>4 DEF AnswersInv
    <3>2. rxIndications' = <<>> /\ xmitEvent' = "none" /\ endCca' = 0
      BY <1>q, <2>1, <2>2, <2>4 DEF InTurn
    <3>3. currentRxPacket' = NoFrame
      BY <1>q, <2>1, <2>2 DEF Coupling, Phy!ReceivingUntilEndRx
    <3>4. SentFirst(txQueue, c.pkt)
      <4>1. c.attempts <= MaxFrameRetries
        BY <1>q, <2>1, <2>4 DEF InStep
      <4>2. 1 \in 1 .. Len(txQueue) /\ 1 .. 1 - 1 = {}
        BY <2>1
      <4> QED
        BY <2>1, <2>4, <4>1, <4>2 DEF SentFirst
    <3>5. /\ SentFirst(txQueue', c.pkt)
          /\ \A p \in acksOwed' : p = c.pkt
      BY <2>2, <2>4, <3>1, <3>4
    <3> HIDE DEF c
    <3>6. ~IsAck(currentRxPacket)' /\ NoAckReceived'
      BY <1>n, <3>2, <3>3 DEF IsAck
    <3>7. \A p \in acksOwed' : SentFirst(txQueue', p)
      BY <3>5
    <3> QED
      BY <2>2, <3>2, <3>5, <3>6, <3>7 DEF AnswersInv
  <2> QED
    BY <2>3, <2>4
<1>5. CASE EndTxWithoutElement \/ DecrementChannelRxSignals
  BY <1>5, <1>s
  DEF EndTxWithoutElement, DecrementChannelRxSignals, Phy!DecrementChannelRxSignals,
      trxVars, rxVars, queueVars, envVars
<1>6. ASSUME NEW f \in RxFrame, StartRx(f) PROVE AnswersInv'
  <2>1. /\ UNCHANGED <<rxIndications, xmitEvent, endCca, txQueue, currentTxPacket>>
        /\ currentRxPacket' \in {currentRxPacket, f}
        /\ acksOwed' = IF f.kind = "ack" THEN acksOwed \ {f.pkt} ELSE acksOwed
        /\ f.kind = "ack" => f.pkt \in acksOwed
        /\ f # NoFrame
    BY <1>6, NoFrameAssumption DEF StartRx, Phy!StartRx, Arriving, queueVars
  <2>2. CASE f.kind = "ack"
    <3>1. acksOwed' = {} /\ SentFirst(txQueue, f.pkt) /\ NoAckReceived
          /\ ~IsAck(currentRxPacket) /\ xmitEvent = "none" /\ endCca = 0
      BY <2>1, <2>2 DEF AnswersInv
    <3>2. NoAckReceived' /\ SentFirst(txQueue, f.pkt)'
      BY <2>1, <3>1 DEF NoAckReceived, SentFirst
    <3>3. CASE currentRxPacket' = f
      <4>1. SentFirst(txQueue, currentRxPacket.pkt)'
        BY <2>1, <3>1, <3>3 DEF SentFirst
      <4> QED
        BY <2>1, <3>1, <3>2, <4>1 DEF AnswersInv, NoAckReceived
    <3>4. CASE currentRxPacket' = currentRxPacket
      <4>1. ~IsAck(currentRxPacket')
        BY <3>1, <3>4
      <4> QED
        BY <3>1, <3>2, <4>1, NoneKeepsAnswers
    <3> QED
      BY <2>1, <3>3, <3>4
  <2>3. CASE f.kind # "ack"
    <3>1. CASE currentRxPacket' = currentRxPacket
      BY <1>s, <2>1, <2>3, <3>1
    <3>2. CASE currentRxPacket' = f
      <4>1. ~IsAck(currentRxPacket)'
        BY <2>3, <3>2 DEF IsAck
      <4>2. \A p : SentFirst(txQueue, p)' <=> SentFirst(txQueue, p)
        BY <2>1 DEF SentFirst
      <4>3. NoAckReceived' <=> NoAckReceived
        BY <2>1 DEF NoAckReceived
      <4> QED
        BY <2>1, <2>3, <4>1, <4>2, <4>3 DEF AnswersInv
    <3> QED
      BY <2>1, <3>1, <3>2
  <2> QED
    BY <2>2, <2>3
<1>7. CASE EndRx
  <2>1. /\ currentRxPacket # NoFrame /\ currentRxPacket' = NoFrame
        /\ UNCHANGED <<acksOwed, xmitEvent, endCca, txQueue, currentTxPacket>>
        /\ \/ UNCHANGED rxIndications
           \/ rxIndications' = Append(rxIndications, currentRxPacket)
    BY <1>7 DEF EndRx, Phy!EndRx, queueVars, envVars
  <2>2. ~IsAck(currentRxPacket)' /\ \A p : SentFirst(txQueue, p) => SentFirst(txQueue', p)
    BY <2>1 DEF IsAck
  <2>3. CASE UNCHANGED rxIndications
    <3>1. NoAckReceived' <=> NoAckReceived
      BY <2>3 DEF NoAckReceived
    <3> QED
      BY <2>1, <2>2, <2>3, <3>1 DEF AnswersInv
  <2>4. CASE rxIndications' = Append(rxIndications, currentRxPacket)
    <3> DEFINE n == rxIndications'
               m == Len(rxIndications)
    <3>1. /\ m \in Nat /\ Len(n) = m + 1 /\ n[m + 1] = currentRxPacket
          /\ \A i \in 1 .. m : n[i] = rxIndications[i]
      BY <1>q, <2>1, <2>4
    <3> HIDE DEF n
    <3>2. \A i \in 1 .. Len(n) : i = m + 1 \/ i \in 1 .. m
      BY <3>1
    <3>3. \A i \in 1 .. Len(n) : n[i].kind = "ack" =>
            IF i = m + 1 THEN IsAck(currentRxPacket) ELSE rxIndications[i].kind = "ack"
      BY <2>1, <3>1, <3>2 DEF IsAck
    <3>4. CASE IsAck(currentRxPacket)
      <4>1. acksOwed = {} /\ NoAckReceived /\ SentFirst(txQueue, currentRxPacket.pkt)
        BY <3>4 DEF AnswersInv
      <4>2. \A i \in 1 .. Len(n) : n[i].kind = "ack" => i = m + 1
        BY <3>2, <3>3, <4>1 DEF NoAckReceived
      <4>3. \A i \in 1 .. Len(n) : n[i].kind = "ack" => SentFirst(txQueue', n[i].pkt)
        BY <2>2, <3>1, <4>1, <4>2
      <4> QED
        BY <2>1, <2>2, <4>1, <4>2, <4>3 DEF AnswersInv, n
    <3>5. CASE ~IsAck(currentRxPacket)
      <4>1. \A i \in 1 .. Len(n) : n[i].kind = "ack" =>
              i \in 1 .. m /\ rxIndications[i].kind = "ack" /\ n[i] = rxIndications[i]
        BY <3>1, <3>2, <3>3, <3>5
      <4>2. NoAckReceived => NoAckReceived'
        BY <4>1 DEF NoAckReceived, n
      <4>3. \A i \in 1 .. Len(n) : n[i].kind = "ack" => SentFirst(txQueue', n[i].pkt)
        BY <2>2, <4>1 DEF AnswersInv
      <4>4. \A i, j \in 1 .. Len(n) : n[i].kind = "ack" /\ n[j].kind = "ack" => i = j
        BY <4>1 DEF AnswersInv
      <4> QED
        BY <2>1, <2>2, <4>2, <4>3, <4>4 DEF AnswersInv, n
    <3> QED
      BY <3>4, <3>5
  <2> QED
    BY <2>1, <2>3, <2>4
<1>8. CASE ProcessPdDataIndication
  <2> DEFINE f == Head(rxIndications)
             n == rxIndications'
  <2>1. /\ f \in RxFrame /\ rxIndications # <<>> /\ rxIndications[1] = f
        /\ n = Tail(rxIndications)
        /\ UNCHANGED <<xmitEvent, endCca, acksOwed, currentRxPacket>>
    BY <1>8, <1>q DEF ProcessPdDataIndication, rxVars, envVars
  <2>2. \A i \in 1 .. Len(n) : /\ i + 1 \in 1 .. Len(rxIndications) /\ i + 1 # 1
                               /\ n[i] = rxIndications[i + 1] /\ i \in Nat
    BY <1>q, <2>1
  <2>3. 1 \in 1 .. Len(rxIndications)
    BY <1>q, <2>1
  <2> HIDE DEF f, n
  <2>4. NoAckReceived => NoAckReceived'
    BY <2>2 DEF NoAckReceived, n
  <2>5. CASE f.kind = "ack"
    <3>1. ~NoAckReceived
      BY <2>1, <2>3, <2>5 DEF NoAckReceived
    <3>2. acksOwed' = {} /\ ~IsAck(currentRxPacket')
      BY <2>1, <3>1 DEF AnswersInv
    <3>3. NoAckReceived'
      BY <2>1, <2>2, <2>3, <2>5 DEF AnswersInv, NoAckReceived, n
    <3> QED
      BY <3>2, <3>3, NoneKeepsAnswers
  <2>6. ASSUME f.kind # "ack",
               currentTxPacket' = currentTxPacket \/ currentTxPacket'.kind = "ack",
               \A p : SentFirst(txQueue, p) => SentFirst(txQueue', p)
        PROVE  AnswersInv'
    <3>1. \A p : SentFirst(txQueue, p)' <=> SentFirst(txQueue', p)
      BY DEF SentFirst
    <3>2. IsAck(currentRxPacket)' <=> IsAck(currentRxPacket)
      BY <2>1 DEF IsAck
    <3>3. \A i \in 1 .. Len(n) : n[i].kind = "ack" => SentFirst(txQueue', n[i].pkt)
      BY <2>2, <2>6, <3>1 DEF AnswersInv
    <3>4. \A i, j \in 1 .. Len(n) : n[i].kind = "ack" /\ n[j].kind = "ack" => i = j
      <4> SUFFICES ASSUME NEW i \in 1 .. Len(n), NEW j \in 1 .. Len(n),
                          n[i].kind = "ack", n[j].kind = "ack"
                   PROVE  i = j
        OBVIOUS
      <4>1. i + 1 = j + 1
        BY <2>2 DEF AnswersInv
      <4> QED
        BY <2>2, <4>1
    <3> QED
      BY <2>1, <2>4, <2>6, <3>1, <3>2, <3>3, <3>4 DEF AnswersInv, n
  <2>7. CASE AnswerWithAck(f)
    <3> DEFINE e == [pkt |-> f.pkt, kind |-> "ack", attempts |-> 1]
               r == <<e>> \o txQueue
    <3>1. /\ e \in TxElement /\ e.kind = "ack" /\ e.attempts = 1
          /\ r \in Seq(TxElement) /\ r # <<>> /\ Head(r) = e
      BY <1>q, <2>1, AckElement
    <3>2. ProcessTrxStateRequest("TX_ON", r) /\ f.kind # "ack"
      BY <2>7 DEF AnswerWithAck
    <3> HIDE DEF e
    <3>3. \A p : SentFirst(txQueue, p) => SentFirst(r, p)
      BY <1>q, <3>1, SentFirstKept
    <3> HIDE DEF r
    <3>4. /\ txQueue' \in {r, <<Attempted(Head(r))>> \o Tail(r)}
          /\ currentTxPacket' # currentTxPacket => currentTxPacket'.kind = "ack"
      BY <3>1, <3>2, AnswerSends
    <3>5. \A p : SentFirst(r, p) => SentFirst(<<Attempted(Head(r))>> \o Tail(r), p)
      BY <3>1, SentFirstKept
    <3> QED
      BY <2>6, <3>2, <3>3, <3>4, <3>5
  <2>8. CASE DropOverheard(f)
    BY <2>6, <2>8 DEF DropOverheard, NoTrxRequest, trxVars
  <2> QED
    BY <1>8, <2>5, <2>7, <2>8
    DEF ProcessPdDataIndication, ProcessAck, ForwardOn, DeliverUp, f
<1>9. ASSUME NEW p \in Packets, NEW kind \in {"own", "oversize"}, DlDataRequest(p, kind)
      PROVE  AnswersInv'
  <2> DEFINE e == [pkt |-> p, kind |-> kind,
                   attempts |-> IF AckEnabled THEN MaxFrameRetries + 1 ELSE 0]
  <2>1. e \in TxElement
    BY DlAssumption DEF TxElement, Kinds, Attempts
  <2>2. /\ txQueue' = Append(txQueue, e) /\ UNCHANGED currentTxPacket
        /\ UNCHANGED <<acksOwed, currentRxPacket, rxIndications, xmitEvent, endCca>>
    BY <1>9 DEF DlDataRequest, trxVars, rxVars, envVars
  <2> HIDE DEF e
  <2>3. \A r : SentFirst(txQueue, r) => SentFirst(txQueue', r)
    BY <1>q, <2>1, <2>2, SentFirstKept
  <2> QED
    BY <2>2, <2>3, QuietKeepsAnswers
<1>10. CASE FlushTxQueue
  BY <1>10 DEF FlushTxQueue
<1>11. CASE UNCHANGED vars
  BY <1>11, <1>s DEF vars, trxVars, rxVars, queueVars, envVars
<1> QED
  BY <1>1, <1>2, <1>3, <1>4, <1>5, <1>6, <1>7, <1>8, <1>9, <1>10, <1>11
  DEF Next, SlotBoundary, RadioEvent, Reception, UpperLayer

-----------------------------------------------------------------------------
(* The upper layer sees the DL service *)

\* Sending the front element does not change the packets of the upper layer.
LEMMA SentIsStillAccepted ==
  ASSUME NEW q \in Seq(TxElement), q # <<>>, AckEnabled => Head(q).attempts > 0
  PROVE  OwnPackets(<<Attempted(Head(q))>> \o Tail(q)) = OwnPackets(q)
<1> DEFINE h == Head(q)
           t == Tail(q)
           c == Attempted(h)
<1>1. h \in TxElement /\ t \in Seq(TxElement) /\ q = <<h>> \o t
  OBVIOUS
<1>2. c \in TxElement
  BY <1>1, AttemptedType
<1>3. c.kind = h.kind /\ c.pkt = h.pkt
  BY <1>1 DEF Attempted, TxElement
<1> HIDE DEF c, h, t
<1>4. <<h>> \in Seq(TxElement) /\ <<c>> \in Seq(TxElement)
  BY <1>1, <1>2
<1>5. /\ OwnPackets(<<h>> \o t) = OwnPackets(<<h>>) \o OwnPackets(t)
      /\ OwnPackets(<<c>> \o t) = OwnPackets(<<c>>) \o OwnPackets(t)
  BY <1>1, <1>4, OwnPacketsCat
<1>6. OwnPackets(<<h>>) = OwnPackets(<<c>>)
  BY <1>1, <1>2, <1>3, OwnPacketsOne DEF IsOwn
<1> QED
  BY <1>1, <1>5, <1>6 DEF c, h, t

\* Taking the acknowledged packet out of the queue takes the first of the upper layer's.
LEMMA AckedIsFirst ==
  ASSUME NEW q \in Seq(TxElement), NEW i \in 1 .. Len(q), IsOwn(q[i]),
         \A j \in 1 .. i - 1 : ~IsOwn(q[j])
  PROVE  /\ OwnPackets(q) # <<>>
         /\ Head(OwnPackets(q)) = q[i].pkt
         /\ Tail(OwnPackets(q)) = OwnPackets(RemoveAt(q, i))
<1> DEFINE a == SubSeq(q, 1, i - 1)
           b == SubSeq(q, i + 1, Len(q))
           e == q[i]
<1>l. Len(q) \in Nat /\ i \in Nat
  OBVIOUS
<1>1. a \in Seq(TxElement) /\ Len(a) = i - 1 /\ \A j \in 1 .. i - 1 : a[j] = q[j]
  OBVIOUS
<1>2. b \in Seq(TxElement)
  OBVIOUS
<1>3. e \in TxElement /\ <<e>> \in Seq(TxElement)
  OBVIOUS
<1>4. RemoveAt(q, i) = a \o b
  BY DEF RemoveAt
<1>5. q = a \o (<<e>> \o b)
  <2>1. SubSeq(q, 1, i - 1) \o SubSeq(q, (i - 1) + 1, Len(q)) = SubSeq(q, 1, Len(q))
    <3>1. 1 \in 1 .. Len(q) + 1 /\ i - 1 \in 1 - 1 .. Len(q) /\ Len(q) \in i - 1 .. Len(q)
      BY <1>l
    <3> QED
      BY <3>1, ConcatAdjacentSubSeq
  <2>2. SubSeq(q, i, Len(q)) = <<q[i]>> \o SubSeq(q, i + 1, Len(q))
    <3>1. Len(q) \in i .. Len(q)
      BY <1>l
    <3> QED
      BY <3>1, SubSeqRecursiveFirst
  <2>3. SubSeq(q, 1, Len(q)) = q
    BY SubSeqFull
  <2>4. (i - 1) + 1 = i
    BY <1>l
  <2> QED
    BY <2>1, <2>2, <2>3, <2>4
<1> HIDE DEF a, b, e
<1>6. OwnPackets(a) = <<>>
  <2>1. OwnPackets(a) \in Seq(Packets)
    BY <1>1, <1>3, OwnPacketsOfQueue
  <2>2. Len(a) \in 0 .. Len(a)
    BY <1>1
  <2>3. \A k \in 1 .. Len(OwnPackets(a)) :
          \E j \in 1 .. Len(a) : IsOwn(a[j]) /\ a[j].pkt = OwnPackets(a)[k]
    BY <1>1, <2>2, OwnUpToTypes, Zenon DEF OwnPackets
  <2>4. \A j \in 1 .. Len(a) : ~IsOwn(a[j])
    BY <1>1
  <2>5. ASSUME OwnPackets(a) # <<>> PROVE FALSE
    <3>1. 1 \in 1 .. Len(OwnPackets(a))
      BY <2>1, <2>5
    <3> QED
      BY <2>3, <2>4, <3>1
  <2> QED
    BY <2>5
<1>7. OwnPackets(b) \in Seq(Packets)
  BY <1>2, <1>3, OwnPacketsOfQueue
<1>8. OwnPackets(q) = <<e.pkt>> \o OwnPackets(b)
  <2>1. <<e>> \o b \in Seq(TxElement)
    BY <1>2, <1>3
  <2>2. OwnPackets(q) = OwnPackets(a) \o OwnPackets(<<e>> \o b)
    BY <1>1, <1>5, <2>1, OwnPacketsCat
  <2>3. OwnPackets(<<e>> \o b) = OwnPackets(<<e>>) \o OwnPackets(b)
    BY <1>2, <1>3, OwnPacketsCat
  <2>4. OwnPackets(<<e>>) = <<e.pkt>>
    BY <1>3, OwnPacketsOne DEF e
  <2>5. <<e.pkt>> \o OwnPackets(b) \in Seq(Packets)
    <3>1. e.pkt \in Packets
      BY <1>3 DEF TxElement
    <3> QED
      BY <1>7, <3>1
  <2> QED
    BY <1>6, <2>2, <2>3, <2>4, <2>5, ConcatEmptySeq
<1>9. OwnPackets(RemoveAt(q, i)) = OwnPackets(b)
  <2>1. OwnPackets(a \o b) = OwnPackets(a) \o OwnPackets(b)
    BY <1>1, <1>2, OwnPacketsCat
  <2> QED
    BY <1>4, <1>6, <1>7, <2>1, ConcatEmptySeq
<1>10. e.pkt \in Packets
  BY <1>3 DEF TxElement
<1> DEFINE u == OwnPackets(b)
           p == e.pkt
<1>11. u \in Seq(Packets) /\ p \in Packets /\ OwnPackets(q) = <<p>> \o u
  BY <1>7, <1>8, <1>10
<1> HIDE DEF u, p
<1>12. <<p>> \o u # <<>> /\ Head(<<p>> \o u) = p /\ Tail(<<p>> \o u) = u
  BY <1>11
<1> QED
  BY <1>9, <1>11, <1>12 DEF u, p, e

\* The steps of the DL service, of the packets of the upper layer in the queue.
Undisturbed == OwnPackets(txQueue') = OwnPackets(txQueue) /\ upcall' = NoCall

ConfirmsFirst(status) ==
  /\ OwnPackets(txQueue) # <<>>
  /\ upcall' = Confirm(Head(OwnPackets(txQueue)), status)
  /\ OwnPackets(txQueue') = Tail(OwnPackets(txQueue))

\* A request leaves them alone or fails the first of them.
LEMMA RequestServes ==
  ASSUME DlTypeInv, AckEnabled => AckedInv,
         NEW s \in Phy!RequestStates, ProcessTrxStateRequest(s, txQueue)
  PROVE  Undisturbed \/ ConfirmsFirst("FAILURE")
<1>q. txQueue \in Seq(TxElement)
  BY DEF DlTypeInv, QueueTypes
<1>1. CASE Keeps(txQueue)
  BY <1>1 DEF Keeps, Undisturbed
<1>2. CASE ~Phy!PhyIsBusy /\ Drops(txQueue)
  <2>1. /\ txQueue # <<>> /\ Head(txQueue) \in TxElement
        /\ Head(txQueue) = txQueue[1] /\ 1 \in 1 .. Len(txQueue)
    BY <1>2, <1>q DEF Drops
  <2>2. currentTxPacket = NoFrame
    BY <1>2 DEF DlTypeInv, Coupling, Phy!PhyIsBusy, Phy!BusyStates
  <2>3. IsOwn(Head(txQueue))
    <3>1. CASE Head(txQueue).kind = "oversize"
      BY <3>1 DEF IsOwn
    <3>2. CASE AckEnabled /\ Head(txQueue).attempts = 0
      <4>1. Head(txQueue).kind \notin {"forward", "ack"}
        BY <2>1, <2>2, <3>2 DEF AckedInv, InStep
      <4> QED
        BY <2>1, <4>1 DEF IsOwn, TxElement, Kinds
    <3> QED
      BY <1>2, <3>1, <3>2 DEF Drops
  <2>4. /\ OwnPackets(txQueue) # <<>>
        /\ Head(OwnPackets(txQueue)) = Head(txQueue).pkt
        /\ Tail(OwnPackets(txQueue)) = OwnPackets(Tail(txQueue))
    BY <1>q, <2>1, <2>3, OwnPacketsOfQueue
  <2> QED
    BY <1>2, <2>4 DEF Drops, ConfirmsFirst
<1>3. CASE Sends(txQueue)
  <2>1. txQueue # <<>> /\ (AckEnabled => Head(txQueue).attempts > 0)
    BY <1>3 DEF Sends
  <2>2. OwnPackets(<<Attempted(Head(txQueue))>> \o Tail(txQueue)) = OwnPackets(txQueue)
    BY <1>q, <2>1, SentIsStillAccepted
  <2> QED
    BY <1>3, <2>2 DEF Sends, Undisturbed
<1>4. Keeps(txQueue) \/ (~Phy!PhyIsBusy /\ Drops(txQueue)) \/ Sends(txQueue)
  BY <1>q, RequestOutcomes
<1> QED
  BY <1>1, <1>2, <1>3, <1>4

\* An acknowledgement at the front of the queue does not disturb them.
LEMMA AnswerServes ==
  ASSUME AckEnabled, DlTypeInv, NEW f \in RxFrame, AnswerWithAck(f)
  PROVE  Undisturbed
<1> DEFINE e == [pkt |-> f.pkt, kind |-> "ack", attempts |-> 1]
           r == <<e>> \o txQueue
<1>q. txQueue \in Seq(TxElement)
  BY DEF DlTypeInv, QueueTypes
<1>1. /\ e \in TxElement /\ e.kind = "ack" /\ e.attempts = 1
      /\ r \in Seq(TxElement) /\ r # <<>> /\ Head(r) = e /\ Tail(r) = txQueue
  BY <1>q, AckElement
<1>2. ProcessTrxStateRequest("TX_ON", r)
  BY DEF AnswerWithAck
<1> HIDE DEF e, r
<1>3. OwnPackets(r) = OwnPackets(txQueue)
  BY <1>1, OwnPacketsOfQueue DEF IsOwn
<1>4. OwnPackets(<<Attempted(Head(r))>> \o Tail(r)) = OwnPackets(r)
  BY <1>1, SentIsStillAccepted
<1>5. /\ txQueue' \in {r, <<Attempted(Head(r))>> \o Tail(r)}
      /\ upcall' = NoCall
  BY <1>1, <1>2, AnswerSends
<1> QED
  BY <1>3, <1>4, <1>5 DEF Undisturbed

\* A received acknowledgement confirms the first of them or none.
LEMMA ProcessAckServes ==
  ASSUME DlTypeInv, AckedInv, AnswersInv, rxIndications # <<>>,
         ProcessAck(Head(rxIndications))
  PROVE  Undisturbed \/ ConfirmsFirst("SUCCESS")
<1> DEFINE f == Head(rxIndications)
<1>q. txQueue \in Seq(TxElement) /\ rxIndications \in Seq(RxFrame)
  BY DEF DlTypeInv, QueueTypes, RxTypes
<1>1. f = rxIndications[1] /\ 1 \in 1 .. Len(rxIndications)
  BY <1>q
<1> HIDE DEF f
<1>2. CASE AckedPositions(f.pkt) = {}
  <2>1. txQueue' = txQueue /\ upcall' = NoCall
    BY <1>2 DEF ProcessAck, queueVars, f
  <2> QED
    BY <2>1 DEF Undisturbed
<1>3. CASE AckedPositions(f.pkt) # {}
  <2>1. PICK i \in AckedPositions(f.pkt) :
          /\ \A j \in AckedPositions(f.pkt) : i <= j
          /\ txQueue' = RemoveAt(txQueue, i)
          /\ upcall' = Confirm(f.pkt, "SUCCESS")
    BY <1>3 DEF ProcessAck, f
  <2>2. SentFirst(txQueue, f.pkt)
    BY <1>1 DEF AnswersInv, ProcessAck, f
  <2>3. PICK k \in 1 .. Len(txQueue) :
          /\ txQueue[k].kind # "ack" /\ txQueue[k].pkt = f.pkt
          /\ \A j \in 1 .. k - 1 : txQueue[j].kind = "ack"
    BY <2>2 DEF SentFirst
  <2>4. i \in 1 .. Len(txQueue) /\ txQueue[i].kind # "ack" /\ txQueue[i].pkt = f.pkt
    BY DEF AckedPositions
  <2>5. \A j \in 1 .. i - 1 : txQueue[j].kind = "ack"
    <3>1. i <= k
      BY <2>1, <2>3 DEF AckedPositions
    <3> QED
      BY <1>q, <2>3, <2>4, <3>1
  <2>6. IsOwn(txQueue[i])
    <3>1. txQueue[i] \in TxElement /\ txQueue[i].kind # "forward"
      BY <1>q, <2>4 DEF AckedInv, InStep
    <3> QED
      BY <2>4, <3>1 DEF IsOwn, TxElement, Kinds
  <2>7. /\ OwnPackets(txQueue) # <<>>
        /\ Head(OwnPackets(txQueue)) = txQueue[i].pkt
        /\ Tail(OwnPackets(txQueue)) = OwnPackets(RemoveAt(txQueue, i))
    <3>1. \A j \in 1 .. i - 1 : ~IsOwn(txQueue[j])
      BY <2>5 DEF IsOwn
    <3> QED
      BY <1>q, <2>4, <2>6, <3>1, AckedIsFirst
  <2> QED
    BY <2>1, <2>4, <2>7 DEF ConfirmsFirst
<1> QED
  BY <1>2, <1>3

\* EndTx confirms the first of them or none: with acknowledgements no packet of the
\* upper layer leaves the queue, without them whichever packet is at the front.
LEMMA EndTxServes ==
  ASSUME DlTypeInv, EndTx
  PROVE  Undisturbed \/ ConfirmsFirst("SUCCESS")
<1>q. txQueue \in Seq(TxElement)
  BY DEF DlTypeInv, QueueTypes
<1>1. /\ txQueue # <<>> /\ Head(txQueue) \in TxElement /\ currentTxPacket # NoFrame
      /\ Head(txQueue) = txQueue[1] /\ 1 \in 1 .. Len(txQueue)
  BY <1>q DEF EndTx, TxDone, Phy!EndTx
<1>2. /\ IsOwn(Head(txQueue)) =>
           /\ OwnPackets(txQueue) # <<>>
           /\ Head(OwnPackets(txQueue)) = Head(txQueue).pkt
           /\ Tail(OwnPackets(txQueue)) = OwnPackets(Tail(txQueue))
      /\ ~IsOwn(Head(txQueue)) => OwnPackets(Tail(txQueue)) = OwnPackets(txQueue)
  BY <1>q, <1>1, OwnPacketsOfQueue
<1>3. CASE AckEnabled
  <2>1. /\ txQueue' = IF Head(txQueue).kind = "ack" THEN Tail(txQueue) ELSE txQueue
        /\ upcall' = NoCall
    BY <1>3 DEF EndTx, TxDone
  <2>2. Head(txQueue).kind = "ack" => ~IsOwn(Head(txQueue))
    BY DEF IsOwn
  <2> QED
    BY <1>2, <2>1, <2>2 DEF Undisturbed
<1>4. CASE ~AckEnabled
  <2>1. /\ txQueue' = Tail(txQueue)
        /\ upcall' = IF IsOwn(Head(txQueue))
                       THEN Confirm(Head(txQueue).pkt, "SUCCESS") ELSE NoCall
    BY <1>4 DEF EndTx, TxDone, IsOwn
  <2>2. CASE IsOwn(Head(txQueue))
    BY <1>2, <2>1, <2>2 DEF ConfirmsFirst
  <2>3. CASE ~IsOwn(Head(txQueue))
    BY <1>2, <2>1, <2>3 DEF Undisturbed
  <2> QED
    BY <2>2, <2>3
<1> QED
  BY <1>3, <1>4

\* What acknowledgements need: see the README for what goes wrong without it.
Serving == AckEnabled => Aligned /\ ~LateAcks /\ ~FlushAllowed

\* A received frame is delivered, forwarded, answered or dropped.
LEMMA IndicationServes ==
  ASSUME DlTypeInv, AckEnabled => AckedInv /\ AnswersInv, ProcessPdDataIndication
  PROVE  \/ Undisturbed
         \/ ConfirmsFirst("SUCCESS")
         \/ \E p \in Packets :
              upcall' = Indication(p) /\ OwnPackets(txQueue') = OwnPackets(txQueue)
<1> DEFINE f == Head(rxIndications)
<1>q. /\ txQueue \in Seq(TxElement) /\ rxIndications # <<>> /\ f \in RxFrame
      /\ f.pkt \in Packets
  <2>1. /\ txQueue \in Seq(TxElement) /\ rxIndications \in Seq(RxFrame)
        /\ rxIndications # <<>>
    BY DEF DlTypeInv, QueueTypes, RxTypes, ProcessPdDataIndication
  <2>2. f \in RxFrame
    BY <2>1
  <2> QED
    BY <2>1, <2>2 DEF RxFrame
<1>1. CASE ProcessAck(f)
  BY <1>1, <1>q, ProcessAckServes DEF ProcessAck
<1>2. CASE AnswerWithAck(f)
  <2>1. AckEnabled
    BY <1>2 DEF AnswerWithAck
  <2> HIDE DEF f
  <2> QED
    BY <1>q, <1>2, <2>1, AnswerServes
<1>3. CASE ForwardOn(f)
  <2> DEFINE e == [pkt |-> f.pkt, kind |-> "forward", attempts |-> MaxFrameRetries + 1]
  <2>1. e \in TxElement /\ ~IsOwn(e)
    BY <1>q, DlAssumption DEF TxElement, Kinds, Attempts, IsOwn
  <2>2. txQueue' = Append(txQueue, e) /\ upcall' = NoCall
    BY <1>3 DEF ForwardOn, NoTrxRequest
  <2> HIDE DEF e
  <2> QED
    BY <1>q, <2>1, <2>2, OwnPacketsOfQueue DEF Undisturbed
<1>4. CASE DeliverUp(f)
  BY <1>q, <1>4 DEF DeliverUp, queueVars
<1>5. CASE DropOverheard(f)
  BY <1>5 DEF DropOverheard, NoTrxRequest, Undisturbed
<1> QED
  BY <1>1, <1>2, <1>3, <1>4, <1>5 DEF ProcessPdDataIndication

\* A packet submitted is not among those accepted: no element of the queue names it.
LEMMA SubmissionServes ==
  ASSUME DlTypeInv, NEW p \in Packets, NEW kind \in {"own", "oversize"},
         DlDataRequest(p, kind)
  PROVE  /\ p \notin Range(OwnPackets(txQueue))
         /\ OwnPackets(txQueue') = Append(OwnPackets(txQueue), p)
         /\ upcall' = NoCall
<1> DEFINE e == [pkt |-> p, kind |-> kind,
                 attempts |-> IF AckEnabled THEN MaxFrameRetries + 1 ELSE 0]
<1>q. txQueue \in Seq(TxElement)
  BY DEF DlTypeInv, QueueTypes
<1>1. e \in TxElement /\ IsOwn(e) /\ e.pkt = p
  BY DlAssumption DEF TxElement, Kinds, Attempts, IsOwn
<1>2. txQueue' = Append(txQueue, e) /\ upcall' = NoCall /\ ~InUse(p)
  BY DEF DlDataRequest
<1> HIDE DEF e
<1>3. OwnPackets(txQueue') = Append(OwnPackets(txQueue), p)
  BY <1>q, <1>1, <1>2, OwnPacketsOfQueue
<1>4. p \notin Range(OwnPackets(txQueue))
  <2>1. OwnPackets(txQueue) \in Seq(Packets)
    BY <1>q, <1>1, OwnPacketsOfQueue
  <2>2. Len(txQueue) \in 0 .. Len(txQueue)
    BY <1>q
  <2>3. \A k \in 1 .. Len(OwnPackets(txQueue)) :
          \E i \in 1 .. Len(txQueue) :
            IsOwn(txQueue[i]) /\ txQueue[i].pkt = OwnPackets(txQueue)[k]
    BY <1>q, <2>2, OwnUpToTypes, Zenon DEF OwnPackets
  <2>4. \A i \in 1 .. Len(txQueue) : IsOwn(txQueue[i]) => txQueue[i].pkt # p
    BY <1>2 DEF InUse, IsOwn
  <2>5. \A k \in 1 .. Len(OwnPackets(txQueue)) : OwnPackets(txQueue)[k] # p
    BY <2>3, <2>4
  <2> QED
    BY <2>1, <2>5 DEF Range
<1> QED
  BY <1>2, <1>3, <1>4

\* What the invariants of the node give the service to rest on.
ServiceInv ==
  /\ DlTypeInv
  /\ AckEnabled => AckedInv /\ AnswersInv

\* Every step of the node is a step of the service, or one it does not see.
LEMMA ServiceStep ==
  ASSUME Serving, ServiceInv, [Next]_vars
  PROVE  [Service!Next]_<<Accepted, upcall>>
<1> DEFINE Goal == [Service!Next]_<<Accepted, upcall>>
<1>q. txQueue \in Seq(TxElement) /\ DlTypeInv
  BY DEF ServiceInv, DlTypeInv, QueueTypes
<1>a. Accepted = OwnPackets(txQueue) /\ Accepted' = OwnPackets(txQueue')
  BY DEF Accepted, OwnPackets, OwnUpTo
<1>u. ASSUME Undisturbed PROVE Goal
  BY <1>a, <1>u DEF Undisturbed, Service!Next, Service!Internal, NoCall, Service!NoCall
<1>c. ASSUME NEW st \in {"SUCCESS", "FAILURE"}, ConfirmsFirst(st) PROVE Goal
  BY <1>a, <1>c DEF ConfirmsFirst, Service!Next, Service!ConfirmFirst, Confirm
<1>k. ASSUME UNCHANGED txQueue, upcall' = NoCall PROVE Goal
  BY <1>k, <1>u DEF Undisturbed
<1>r. ASSUME NEW s \in Phy!RequestStates, ProcessTrxStateRequest(s, txQueue) PROVE Goal
  BY <1>r, <1>u, <1>c, RequestServes DEF ServiceInv
<1>1. CASE ProcessLink
  <2>1. PICK type : HopAndRequest(HopPattern[hopIndex], LinkRequest(type))
    BY <1>1 DEF ProcessLink
  <2> QED
    BY <2>1, <1>r, <1>k, RequestValues DEF HopAndRequest, NoTrxRequest, queueVars
<1>2. CASE IdleSlot
  BY <1>2, <1>r, <1>k, RequestValues DEF IdleSlot, NoTrxRequest
<1>3. CASE TurnTransmitterOn
  BY <1>3, <1>r, RequestValues DEF TurnTransmitterOn
<1>4. CASE CallPlmeCcaRequest
  BY <1>4, <1>r, <1>k, RequestValues DEF CallPlmeCcaRequest, Backoff, queueVars
<1>5. CASE EndCca
  BY <1>5, <1>r, <1>k, RequestValues DEF EndCca, Backoff, NoTrxRequest
<1>6. CASE EndTx
  BY <1>6, <1>u, <1>c, EndTxServes DEF ServiceInv
<1>7. CASE EndTxWithoutElement \/ DecrementChannelRxSignals \/ EndRx
           \/ \E f \in RxFrame : StartRx(f)
  BY <1>7, <1>k DEF EndTxWithoutElement, DecrementChannelRxSignals, EndRx, StartRx, queueVars
<1>8. CASE ProcessPdDataIndication
  <2>1. ASSUME NEW p \in Packets, upcall' = Indication(p),
               OwnPackets(txQueue') = OwnPackets(txQueue)
        PROVE  Goal
    BY <1>a, <2>1 DEF Service!Next, Service!Indicate, Indication
  <2> QED
    BY <1>8, <1>u, <1>c, <2>1, IndicationServes DEF ServiceInv
<1>9. ASSUME NEW p \in Packets, NEW kind \in {"own", "oversize"}, DlDataRequest(p, kind)
      PROVE  Goal
  <2>1. /\ p \notin Range(OwnPackets(txQueue))
        /\ OwnPackets(txQueue') = Append(OwnPackets(txQueue), p)
        /\ upcall' = NoCall
    BY <1>q, <1>9, SubmissionServes
  <2> QED
    BY <1>a, <2>1 DEF Service!Next, Service!Submit, Service!NoCall, NoCall, Range, Service!Range
<1>10. CASE FlushTxQueue
  <2>1. FlushAllowed /\ txQueue' = <<>> /\ upcall' = NoCall
    BY <1>10 DEF FlushTxQueue
  <2>2. OwnPackets(<<>>) = <<>>
    <3>1. /\ <<>> \in Seq(TxElement) /\ Len(<<>>) = 0
      OBVIOUS
    <3> QED
      BY <3>1, OwnUpToNext DEF OwnPackets
  <2> QED
    BY <1>a, <2>1, <2>2 DEF Service!Next, Service!Flush, Service!NoCall, NoCall
<1>11. CASE UNCHANGED vars
  BY <1>11, <1>a DEF vars, queueVars
<1> QED
  BY <1>1, <1>2, <1>3, <1>4, <1>5, <1>6, <1>7, <1>8, <1>9, <1>10, <1>11
  DEF Next, SlotBoundary, RadioEvent, Reception, UpperLayer

-----------------------------------------------------------------------------
(* The invariants of a run *)

LEMMA SlotEventsInvariance == Spec => []SlotEvents
<1>1. Init => SlotEvents
  BY DEF Init, Phy!PhyInit, SlotEvents
<1>2. DlTypeInv /\ SlotEvents /\ [Next]_vars => SlotEvents'
  BY NextSlotEvents DEF DlTypeInv
<1> QED
  BY <1>1, <1>2, TypeInvariance, PTL DEF Spec

\* With acknowledgements and aligned slots, queue and air stay in step as long as
\* nothing is flushed.
LEMMA AckedInvariance ==
  ASSUME AckEnabled, Aligned, ~FlushAllowed
  PROVE  Spec => []AckedInv
<1>1. Init => AckedInv
  BY DEF Init, Phy!PhyInit, AckedInv, InStep, InTurn
<1>2. DlTypeInv /\ AlignedInv /\ SlotEvents /\ AckedInv /\ [Next]_vars => AckedInv'
  <2> SUFFICES ASSUME DlTypeInv, AlignedInv, SlotEvents, AckedInv, [Next]_vars
               PROVE  AckedInv'
    OBVIOUS
  <2>1. InStep(txQueue', currentTxPacket') /\ InTurn'
    BY NextInStep, NextInTurn
  <2>2. InStep(txQueue, currentTxPacket)' <=> InStep(txQueue', currentTxPacket')
    BY DEF InStep
  <2> QED
    BY <2>1, <2>2 DEF AckedInv
<1> QED
  BY <1>1, <1>2, TypeInvariance, AlignedInvariance, SlotEventsInvariance, PTL DEF Spec

\* So do the acknowledgements on their way to this node, if none comes late.
LEMMA AnswersInvariance ==
  ASSUME AckEnabled, Aligned, ~LateAcks, ~FlushAllowed
  PROVE  Spec => []AnswersInv
<1>1. Init => AnswersInv
  BY DEF Init, Phy!PhyInit, AnswersInv, NoAckReceived, IsAck
<1>2. DlTypeInv /\ AlignedInv /\ AckedInv /\ AnswersInv /\ [Next]_vars => AnswersInv'
  BY NextAnswers
<1> QED
  BY <1>1, <1>2, TypeInvariance, AlignedInvariance, AckedInvariance, PTL DEF Spec

LEMMA ServiceInvariance ==
  ASSUME Serving
  PROVE  Spec => []ServiceInv
<1>1. CASE AckEnabled
  <2>1. DlTypeInv /\ AckedInv /\ AnswersInv => ServiceInv
    BY <1>1 DEF ServiceInv
  <2>2. Aligned /\ ~LateAcks /\ ~FlushAllowed
    BY <1>1 DEF Serving
  <2>3. Spec => []AckedInv
    BY <1>1, <2>2, AckedInvariance
  <2>4. Spec => []AnswersInv
    BY <1>1, <2>2, AnswersInvariance
  <2> QED
    BY <2>1, <2>3, <2>4, TypeInvariance, PTL
<1>2. CASE ~AckEnabled
  <2>1. DlTypeInv => ServiceInv
    BY <1>2 DEF ServiceInv
  <2> QED
    BY <2>1, TypeInvariance, PTL
<1> QED
  BY <1>1, <1>2

\* What the upper layer sees is the DL service: every packet it submits is confirmed
\* once, in order, and nothing else is confirmed, whatever the slots, the medium and
\* flushes do; with acknowledgements the slots must be aligned, acknowledgements come in
\* the slot of their frame, and the queue is not flushed.
THEOREM UpperLayerIsServed ==
  ASSUME Serving
  PROVE  Spec => ServiceSafety
<1>1. Init => Service!Init
  <2> SUFFICES ASSUME Init PROVE Service!Init
    OBVIOUS
  <2>1. <<>> \in Seq(TxElement) /\ Len(<<>>) = 0
    OBVIOUS
  <2>2. OwnPackets(<<>>) = <<>>
    BY <2>1, OwnUpToNext DEF OwnPackets
  <2>3. Accepted = <<>> /\ upcall = NoCall
    BY <2>2 DEF Init, Accepted
  <2> QED
    BY <2>3 DEF Service!Init, NoCall, Service!NoCall
<1>2. ServiceInv /\ [Next]_vars => [Service!Next]_<<Accepted, upcall>>
  BY ServiceStep
<1>3. Spec => []ServiceInv
  BY ServiceInvariance
<1>4. Spec => [][Service!Next]_<<Accepted, upcall>>
  BY <1>2, <1>3, PTL DEF Spec
<1>5. Spec => Service!Init
  BY <1>1 DEF Spec
<1> QED
  BY <1>4, <1>5 DEF ServiceSafety, Service!SafetySpec

\* PdDataConfirm acts on the packet the PHY sent: the front of the queue is the frame
\* on the air until EndTx, as long as nothing is flushed and, with acknowledgements,
\* slots are aligned.
THEOREM FrameOnAirIsFront ==
  ASSUME ~FlushAllowed, AckEnabled => Aligned
  PROVE  Spec => []InFlightIsFront
<1>1. CASE AckEnabled
  <2>1. AckedInv => InFlightIsFront
    BY DEF AckedInv, InStep, InFlightIsFront
  <2> QED
    BY <1>1, <2>1, AckedInvariance, PTL
<1>2. CASE ~AckEnabled
  <2>1. Init => InFlightIsFront
    BY DEF Init, Phy!PhyInit, InFlightIsFront
  <2>2. DlTypeInv /\ InFlightIsFront /\ [Next]_vars => InFlightIsFront'
    BY <1>2, NextInFlight
  <2> QED
    BY <2>1, <2>2, TypeInvariance, PTL DEF Spec
<1> QED
  BY <1>1, <1>2

\* A success is confirmed by EndTx and by a received acknowledgement only.
LEMMA SuccessIsConfirmed ==
  ASSUME DlTypeInv, Next, NEW p \in Packets, upcall' = Confirm(p, "SUCCESS")
  PROVE  EndTx \/ (ProcessPdDataIndication /\ ProcessAck(Head(rxIndications)))
<1>1. NoCall # Confirm(p, "SUCCESS") /\ \A r : Indication(r) # Confirm(p, "SUCCESS")
  BY DEF NoCall, Confirm, Indication
<1>2. ASSUME NEW s \in Phy!RequestStates, NEW q \in Seq(TxElement),
             ProcessTrxStateRequest(s, q)
      PROVE  FALSE
  BY <1>2, RequestNeverConfirmsSuccess
<1>q. txQueue \in Seq(TxElement) /\ rxIndications \in Seq(RxFrame)
  BY DEF DlTypeInv, QueueTypes, RxTypes
<1>3. CASE ProcessLink
  <2>1. PICK type : HopAndRequest(HopPattern[hopIndex], LinkRequest(type))
    BY <1>3 DEF ProcessLink
  <2> QED
    BY <2>1, <1>1, <1>2, <1>q, RequestValues DEF HopAndRequest, NoTrxRequest
<1>4. CASE IdleSlot
  BY <1>4, <1>1, <1>2, <1>q, RequestValues DEF IdleSlot, NoTrxRequest
<1>5. CASE TurnTransmitterOn
  BY <1>5, <1>2, <1>q, RequestValues DEF TurnTransmitterOn
<1>6. CASE CallPlmeCcaRequest
  BY <1>6, <1>1, <1>2, <1>q, RequestValues DEF CallPlmeCcaRequest, Backoff
<1>7. CASE EndCca
  BY <1>7, <1>1, <1>2, <1>q, RequestValues DEF EndCca, Backoff, NoTrxRequest
<1>8. CASE ProcessPdDataIndication
  <2> DEFINE f == Head(rxIndications)
             r == <<[pkt |-> f.pkt, kind |-> "ack", attempts |-> 1]>> \o txQueue
  <2>1. CASE AnswerWithAck(f)
    <3>1. f \in RxFrame
      BY <1>8, <1>q DEF ProcessPdDataIndication
    <3>2. r \in Seq(TxElement)
      BY <1>q, <3>1, AckElement
    <3>3. ProcessTrxStateRequest("TX_ON", r)
      BY <2>1 DEF AnswerWithAck
    <3> HIDE DEF r
    <3> QED
      BY <1>2, <3>2, <3>3, RequestValues
  <2>2. CASE ForwardOn(f) \/ DeliverUp(f) \/ DropOverheard(f)
    BY <1>1, <2>2 DEF ForwardOn, DeliverUp, DropOverheard, NoTrxRequest
  <2> QED
    BY <1>8, <2>1, <2>2 DEF ProcessPdDataIndication
<1>9. CASE EndTxWithoutElement \/ DecrementChannelRxSignals \/ EndRx \/ UpperLayer
           \/ \E f \in RxFrame : StartRx(f)
  BY <1>9, <1>1 DEF EndTxWithoutElement, DecrementChannelRxSignals, EndRx, UpperLayer,
     DlDataRequest, FlushTxQueue, StartRx
<1> QED
  BY <1>3, <1>4, <1>5, <1>6, <1>7, <1>8, <1>9 DEF Next, SlotBoundary, RadioEvent, Reception

\* A packet confirmed with SUCCESS was sent: without acknowledgements it is the one
\* whose transmission just ended, with them one of its attempts was used (EndTx,
\* PdDataConfirm, ProcessPdDataIndication).
THEOREM SuccessFollowsTransmission ==
  ASSUME ~FlushAllowed, AckEnabled => Aligned /\ ~LateAcks
  PROVE  Spec => SuccessMeansSent
<1> DEFINE Sent(p) == \E i \in 1 .. Len(txQueue) :
                        /\ txQueue[i].pkt = p
                        /\ IF AckEnabled THEN txQueue[i].attempts <= MaxFrameRetries
                                         ELSE txQueue[i] = currentTxPacket
           A == \A p \in Packets : upcall' = Confirm(p, "SUCCESS") => Sent(p)
<1>1. ServiceInv /\ InFlightIsFront /\ [Next]_vars => [A]_vars
  <2> SUFFICES ASSUME ServiceInv, InFlightIsFront, Next, NEW p \in Packets,
                      upcall' = Confirm(p, "SUCCESS")
               PROVE  Sent(p)
    OBVIOUS
  <2>q. /\ txQueue \in Seq(TxElement) /\ rxIndications \in Seq(RxFrame) /\ DlTypeInv
        /\ NoCall # Confirm(p, "SUCCESS")
    BY DEF ServiceInv, DlTypeInv, QueueTypes, RxTypes, NoCall, Confirm
  <2>1. CASE EndTx
    <3>1. currentTxPacket # NoFrame /\ txQueue # <<>>
      BY <2>1 DEF EndTx, TxDone, Phy!EndTx
    <3>2. ~AckEnabled /\ Head(txQueue).pkt = p
      BY <2>1, <2>q DEF EndTx, TxDone, Confirm
    <3>3. Head(txQueue) = currentTxPacket
      BY <3>1 DEF InFlightIsFront
    <3>4. 1 \in 1 .. Len(txQueue) /\ txQueue[1] = Head(txQueue)
      BY <2>q, <3>1
    <3> QED
      BY <3>2, <3>3, <3>4
  <2>2. CASE ProcessPdDataIndication /\ ProcessAck(Head(rxIndications))
    <3> DEFINE f == Head(rxIndications)
    <3>1. /\ f = rxIndications[1] /\ 1 \in 1 .. Len(rxIndications)
          /\ f.kind = "ack" /\ AckEnabled
      BY <2>2, <2>q DEF ProcessPdDataIndication, ProcessAck
    <3>2. f.pkt = p
      BY <2>2, <2>q DEF ProcessAck, Confirm
    <3> HIDE DEF f
    <3>3. SentFirst(txQueue, p)
      BY <3>1, <3>2 DEF ServiceInv, AnswersInv
    <3> QED
      BY <3>1, <3>3 DEF SentFirst
  <2> QED
    BY <2>q, <2>1, <2>2, SuccessIsConfirmed
<1>2. Serving /\ (Spec => []InFlightIsFront)
  BY FrameOnAirIsFront DEF Serving
<1>3. Spec => [][A]_vars
  <2> HIDE DEF A
  <2> QED
    BY <1>1, <1>2, ServiceInvariance, PTL DEF Spec
<1> QED
  BY <1>3 DEF SuccessMeansSent

\* Frames go on the air in TRANSMIT and SHARED slots only, and acknowledgements in
\* RECEIVE slots, whatever the schedule, the backoffs, the retries and the pending
\* requests; with acknowledgements slots must be aligned.
THEOREM OwnSlotsOnly ==
  ASSUME AckEnabled => Aligned
  PROVE  Spec => TransmitsInOwnSlots
<1> DEFINE A == currentTxPacket = NoFrame /\ currentTxPacket' # NoFrame =>
                  \/ slotType' \in {"TRANSMIT", "SHARED"}
                  \/ slotType' = "RECEIVE" /\ currentTxPacket'.kind = "ack"
<1> DEFINE Answering == Aligned => AlignedInv
<1>1. DlTypeInv /\ SlotEvents /\ Answering /\ [Next]_vars => [A]_vars
  <2> SUFFICES ASSUME DlTypeInv, SlotEvents, Answering, Next,
                      currentTxPacket = NoFrame, currentTxPacket' # NoFrame
               PROVE  \/ slotType' \in {"TRANSMIT", "SHARED"}
                      \/ slotType' = "RECEIVE" /\ currentTxPacket'.kind = "ack"
    OBVIOUS
  <2>1. CASE ProcessLink
    <3>1. PICK type : /\ type = LinkTypes[linkIndex] /\ slotType' = type
                      /\ HopAndRequest(HopPattern[hopIndex], LinkRequest(type))
      BY <2>1 DEF ProcessLink
    <3>2. LinkRequest(type) # "none" /\ ProcessTrxStateRequest(LinkRequest(type), txQueue)
      BY <3>1 DEF HopAndRequest, NoTrxRequest, trxVars, Phy!AbortAndRetune
    <3>3. LinkRequest(type) = "TX_ON"
      BY <3>2, OnlyTxOnSends, RequestValues
    <3> QED BY <3>1, <3>3 DEF LinkRequest
  <2>2. CASE IdleSlot
    BY <2>2, OnlyTxOnSends, RequestValues DEF IdleSlot, NoTrxRequest, trxVars
  <2>3. CASE TurnTransmitterOn
    BY <2>3 DEF TurnTransmitterOn, SlotEvents, slotVars
  <2>4. CASE CallPlmeCcaRequest
    BY <2>4 DEF CallPlmeCcaRequest, SlotEvents, slotVars
  <2>5. CASE EndCca
    BY <2>5 DEF EndCca, Phy!EndCca, SlotEvents, slotVars
  <2>6. CASE ProcessPdDataIndication
    <3> DEFINE f == Head(rxIndications)
               r == <<[pkt |-> f.pkt, kind |-> "ack", attempts |-> 1]>> \o txQueue
    <3>1. AnswerWithAck(f)
      BY <2>6 DEF ProcessPdDataIndication, ProcessAck, ForwardOn, DeliverUp, DropOverheard,
         NoTrxRequest, trxVars
    <3>2. /\ txQueue \in Seq(TxElement) /\ rxIndications \in Seq(RxFrame)
          /\ rxIndications # <<>> /\ slotType \in SlotTypes \cup {"IDLE"}
          /\ slotType' = slotType
      BY <2>6 DEF DlTypeInv, QueueTypes, RxTypes, CounterTypes, ProcessPdDataIndication,
         slotVars
    <3>3. f \in RxFrame /\ AckEnabled /\ ProcessTrxStateRequest("TX_ON", r)
      BY <3>1, <3>2 DEF AnswerWithAck
    <3>4. slotType # "IDLE"
      BY <3>2, <3>3 DEF AlignedInv
    <3>5. r \in Seq(TxElement) /\ r # <<>> /\ Head(r).kind = "ack" /\ Head(r).attempts = 1
      BY <3>2, <3>3, AckElement
    <3> HIDE DEF f, r
    <3>6. currentTxPacket'.kind = "ack"
      BY <3>3, <3>5, AnswerSends
    <3> QED
      BY <3>2, <3>4, <3>6 DEF SlotTypes
  <2>7. CASE EndTx \/ EndTxWithoutElement \/ DecrementChannelRxSignals \/ EndRx
             \/ UpperLayer \/ \E f \in RxFrame : StartRx(f)
    BY <2>7 DEF EndTx, TxDone, Phy!EndTx, EndTxWithoutElement, DecrementChannelRxSignals,
       EndRx, Phy!EndRx, UpperLayer, DlDataRequest, FlushTxQueue, StartRx, Phy!StartRx,
       trxVars
  <2> QED
    BY <2>1, <2>2, <2>3, <2>4, <2>5, <2>6, <2>7
    DEF Next, SlotBoundary, RadioEvent, Reception
<1>2. Spec => []Answering
  <2>1. CASE Aligned
    <3>1. AlignedInv => Answering
      OBVIOUS
    <3> QED
      BY <2>1, <3>1, AlignedInvariance, PTL
  <2>2. CASE ~Aligned
    <3>1. Answering
      BY <2>2
    <3> QED
      BY <3>1, PTL
  <2> QED
    BY <2>1, <2>2
<1>3. Spec => [][A]_vars
  <2> HIDE DEF A, Answering
  <2> QED
    BY <1>1, <1>2, TypeInvariance, SlotEventsInvariance, PTL DEF Spec
<1> QED
  BY <1>3 DEF TransmitsInOwnSlots
=============================================================================
