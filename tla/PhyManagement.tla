--------------------------- MODULE PhyManagement ---------------------------
(***************************************************************************)
(* The management requests of the PHY (model/zigbee-phy.cc) on top of its  *)
(* data and transceiver services (ZigbeePhy): energy detection, and the    *)
(* attributes besides the channel.  A power is told by where it comes      *)
(* from: the frame being received, the noise, or the constructor, which    *)
(* writes the transmit power, 4, into a variable that is in watts.         *)
(***************************************************************************)
EXTENDS ZigbeePhy

CONSTANTS
  MaxEd  \* bound: energy detections under way at the same time

ASSUME MaxEdAssumption == MaxEd \in Nat

VARIABLES
  rxTotalPower,     \* m_rxTotalPower: "CONSTRUCTED", "NOISE" or "SIGNAL"
  rxEdPeakPower,    \* m_rxEdPeakPower, "NONE" before the first detection
  endEd,            \* number of EndEd events scheduled
  energyLevel,      \* the level last confirmed
  pib,              \* m_phyPIBAttributes: the attributes the requests below set
  attributeStatus   \* the status last confirmed of a request for an attribute

energyVars  == <<rxTotalPower, rxEdPeakPower, endEd, energyLevel>>
pibVars     == <<pib, attributeStatus>>
managedVars == <<phyVars, energyVars, pibVars>>

ManagedInit ==
  /\ PhyInit
  /\ rxTotalPower = "CONSTRUCTED" /\ rxEdPeakPower = "NONE"
  /\ endEd = 0 /\ energyLevel = 0
  /\ pib = [phyChannelsSupported |-> 0 .. 26, phyTransmitPower |-> 4, phyCCAMode |-> 2]
  /\ attributeStatus = "NONE"

-----------------------------------------------------------------------------
(* Received power *)

StartRxMeasured ==
  /\ SignalStarts
  /\ rxTotalPower' = IF trxState = "RX_ON" THEN "SIGNAL" ELSE rxTotalPower
  /\ UNCHANGED <<rxEdPeakPower, endEd, energyLevel, pibVars>>

\* Mutant of EndRxMeasured: the power of the frame stays.
EndRxUnmeasured == ReceptionEnds /\ UNCHANGED <<energyVars, pibVars>>

EndRxMeasured ==
  /\ ReceptionEnds
  /\ rxTotalPower' = "NOISE"
  /\ UNCHANGED <<rxEdPeakPower, endEd, energyLevel, pibVars>>

-----------------------------------------------------------------------------
(* Energy detection *)

\* The levels of IEEE 802.15.4, 6.9.7: the noise is less than 10 dB, four watts
\* are more than 40 dB above the sensitivity.
EnergyLevels(power) ==
  CASE power = "CONSTRUCTED" -> {255}
    [] power = "NOISE" -> {0}
    [] OTHER -> 0 .. 255

\* Like an assessment, a detection requested of a sleeping PHY is confirmed
\* with SLEEP and goes on in the state the callback leaves: woken.  In a state
\* other than RX_ON the request is only confirmed (twice, of a sleeping PHY).
PlmeEdRequest(woken) ==
  /\ endEd < MaxEd
  /\ IF trxState = "SLEEP"
       THEN woken \in RequestStates /\ trxState' = woken /\ trxStatePending' = "IDLE"
       ELSE woken = trxState /\ UNCHANGED <<trxState, trxStatePending>>
  /\ IF woken = "RX_ON"
       THEN rxEdPeakPower' = rxTotalPower /\ endEd' = endEd + 1
       ELSE UNCHANGED <<rxEdPeakPower, endEd>>
  /\ UNCHANGED <<currentTxPacket, rxVars, endCca, phyCurrentChannel,
                 rxTotalPower, energyLevel, pibVars>>

EndEd ==
  /\ endEd > 0
  /\ endEd' = endEd - 1
  /\ energyLevel' \in EnergyLevels(rxEdPeakPower)
  /\ UNCHANGED <<phyVars, rxTotalPower, rxEdPeakPower, pibVars>>

-----------------------------------------------------------------------------
(* Attributes *)

\* A request is carried out in SLEEP, but its status says so.
Status(ok) ==
  CASE ~ok -> "INVALID_PARAMETER"
    [] ok /\ trxState = "SLEEP" -> "SLEEP"
    [] ok /\ trxState # "SLEEP" -> "SUCCESS"

\* Of the 32 masks, each the set of its bits, only the first one is ever set: the
\* others keep all 27 channels.
ChannelSupported(channel) == channel \in pib.phyChannelsSupported \cup 0 .. 26

\* Setting the channel in use; the channel changes with Retune and AbortAndRetune,
\* whether or not it is supported.
SetSameChannel ==
  attributeStatus' = Status(ChannelSupported(phyCurrentChannel)) /\ UNCHANGED pib

ChannelStatus ==
  IF phyCurrentChannel' # phyCurrentChannel
    THEN Status(ChannelSupported(phyCurrentChannel')) ELSE attributeStatus

\* An attribute that is set if its new value is valid.
SetIf(valid, new) ==
  /\ pib' = IF valid THEN new ELSE pib
  /\ attributeStatus' = Status(valid)

\* The five most significant bits of the mask are reserved.
SetChannelsSupported(mask) ==
  SetIf(mask \cap 27 .. 31 = {}, [pib EXCEPT !.phyChannelsSupported = mask])

SetTransmitPower(octet) == SetIf(octet <= 191, [pib EXCEPT !.phyTransmitPower = octet])

SetCCAMode(mode) == SetIf(mode \in 1 .. 3, [pib EXCEPT !.phyCCAMode = mode])

PlmeSetAttributeRequest ==
  /\ \/ SetSameChannel
     \/ \E mask \in {0 .. 26, {11}, 27 .. 31} : SetChannelsSupported(mask)
     \/ \E octet \in {4, 191, 192} : SetTransmitPower(octet)
     \/ \E mode \in {0, 2, 3, 4} : SetCCAMode(mode)
     \/ attributeStatus' = "UNSUPPORTED_ATTRIBUTE" /\ UNCHANGED pib
  /\ UNCHANGED <<phyVars, energyVars>>

\* Asleep, the status does not say whether there is such an attribute.
PlmeGetAttributeRequest ==
  /\ \E known \in BOOLEAN :
       attributeStatus' = CASE trxState = "SLEEP" -> "SLEEP"
                            [] trxState # "SLEEP" /\ known -> "SUCCESS"
                            [] trxState # "SLEEP" /\ ~known -> "UNSUPPORTED_ATTRIBUTE"
  /\ UNCHANGED <<phyVars, energyVars, pib>>

-----------------------------------------------------------------------------
ManagedNext ==
  \/ StartRxMeasured
  \/ EndRxMeasured
  \/ (SignalStops \/ TransmissionEnds \/ CcaEnds) /\ UNCHANGED <<energyVars, pibVars>>
  \/ MacRequest /\ attributeStatus' = ChannelStatus /\ UNCHANGED <<energyVars, pib>>
  \/ \E woken \in RequestStates \cup BusyStates : PlmeEdRequest(woken)
  \/ EndEd
  \/ PlmeSetAttributeRequest \/ PlmeGetAttributeRequest

\* The simulator runs the scheduled end of every frame.
FrameEndsMeasured ==
  EndRxMeasured \/ (TransmissionEnds /\ UNCHANGED <<energyVars, pibVars>>)

ManagedSpec ==
  ManagedInit /\ [][ManagedNext]_managedVars /\ WF_managedVars(FrameEndsMeasured)

-----------------------------------------------------------------------------
(* Properties *)

\* The energy of a frame counts exactly while the frame is received, through
\* collisions, channel changes and requests that come in between.  That is, while
\* PhyIsBusy: no assessment by energy (modes 1 and 3) and no energy detection,
\* which starts in RX_ON and never looks again, comes upon a signal.
EnergyOnlyWhileReceiving ==
  /\ rxTotalPower = "SIGNAL" <=> currentRxPacket # NoFrame
  /\ ~PhyIsBusy => rxTotalPower # "SIGNAL"
  /\ rxEdPeakPower # "SIGNAL"
=============================================================================
