----------------------------- MODULE NodePower -----------------------------
(***************************************************************************)
(* The field application, the sensor, the processor and the battery of one *)
(* node (model/isa100-application.cc, -sensor.cc, -processor.cc,           *)
(* -battery.cc) and the energy the transceiver draws (UpdateBattery of     *)
(* model/zigbee-phy.cc).  Two masters switch the processor: the DL with    *)
(* every transceiver request, and the application around a sample.  The    *)
(* battery is debited only when somebody changes state, for the time since *)
(* his last change.                                                        *)
(*                                                                         *)
(* Time is counted in ticks, SlotTicks of them in a timeslot.  The DL      *)
(* appears by the requests it makes in the slots of its superframe, see    *)
(* Isa100Dl.                                                               *)
(***************************************************************************)
EXTENDS NodeSetup, Integers

CONSTANTS
  SlotTicks,      \* m_slotDuration
  SamplePeriod,   \* SENSOR_SAMPLE_PERIOD
  LinkSlots,      \* the slots of the superframe that have a link
  SharedSlots,    \* those of them with a SHARED link
  SensingTime,    \* m_sensingTime
  MultiFrames,    \* number of frames of a superframe, GetFrameBounds()->size()
  ProcessorCurrent, SensorCurrent, TrxCurrent,  \* current drawn in each state
  DefaultTrxCurrent,  \* the same of the transceiver without SetTrxCurrentAttributes
  TxPowers,       \* transmit powers that are set (dBm)
  Slope, Offset,  \* of the transmit current over the transmit power
  InitEnergy,     \* m_initEnergy
  StopTimes,      \* when the application may be stopped
  MaxTime,        \* bound: end of the simulation
  Never           \* a time that does not come

TrxStates == {"TRX_OFF", "RX_ON", "BUSY_RX", "BUSY_TX", "SLEEP"}

\* numSlotsPerFrame: the superframe has as many slots as the sampling period takes.
SfPeriod == (SamplePeriod + SlotTicks - 1) \div SlotTicks

Superframe   == SlotTicks * SfPeriod
UpdatePeriod == Superframe \div MultiFrames

\* The sample ends two slots before the frame does.
DelayUntilSample == UpdatePeriod - SensingTime - 2 * SlotTicks

\* UpdateTxCurrent ends the simulation when the current is negative.
UpdateTxCurrent(txPowerDbm) == txPowerDbm * Slope + Offset
TxCurrents == {UpdateTxCurrent(p) : p \in TxPowers}

ASSUME PowerAssumption ==
  /\ SlotTicks \in Nat \ {0} /\ SamplePeriod \in Nat \ {0} /\ MultiFrames \in Nat \ {0}
  /\ SharedSlots \subseteq LinkSlots /\ LinkSlots \subseteq 0 .. SfPeriod - 1
  /\ SensingTime \in Nat \ {0} /\ DelayUntilSample >= 0
  /\ ProcessorCurrent \in [{"ACTIVE", "SLEEP"} -> Nat]
  /\ SensorCurrent \in [{"ACTIVE", "IDLE"} -> Nat]
  /\ {TrxCurrent, DefaultTrxCurrent} \subseteq [TrxStates \ {"BUSY_TX"} -> Nat]
  /\ TxPowers \subseteq Int /\ {Slope, Offset} \subseteq Int
  /\ TxCurrents \subseteq Nat
  /\ InitEnergy \in Nat \ {0}
  /\ StopTimes \subseteq Nat /\ MaxTime \in Nat
  /\ Never \in Int /\ Never < 0

VARIABLES
  now,
  power,        \* per consumer: state, energy category, current and last update
  txCurrent,    \* m_busyTxCurrentA
  battery,      \* energy left, energy per category, time of the first depletion callback
  sampleAt,     \* when m_sampleTaskId expires, or Never
  sensedAt,     \* when EndSensing is due, or Never
  stopAt,       \* when StopApplication is due, or Never
  stopped,      \* StopApplication has run
  sent,         \* packets handed to the DL since then
  link,         \* this slot's event of the DL: due, to transmit, or done
  terminateAt,  \* when TerminateSimulation is due
  running,      \* Simulator::IsFinished is false
  entered,      \* history: consumers that have changed state
  used,         \* history: energy drawn per category
  emptyAt       \* history: when the battery was really empty, or Never

meterVars == <<power, txCurrent, battery, entered>>
appVars   == <<sampleAt, sensedAt, stopAt, stopped, sent>>
simVars   == <<terminateAt, running>>
drawnVars == <<used, emptyAt>>
vars == <<setupVars, now, meterVars, appVars, link, simVars, drawnVars>>

-----------------------------------------------------------------------------
(* Metering *)

\* Energy category of every state.
Category(c, state) ==
  CASE c = "processor" -> (IF state = "ACTIVE" THEN "ProcessorActive" ELSE "ProcessorSleeping")
    [] c = "sensor"    -> (IF state = "ACTIVE" THEN "SensorActive" ELSE "SensorIdle")
    [] c = "phy"       -> (CASE state = "TRX_OFF" -> "TrxOff"
                             [] state = "RX_ON"   -> "RxOn"
                             [] state = "BUSY_RX" -> "BusyRx"
                             [] state = "BUSY_TX" -> "BusyTx"
                             [] state = "SLEEP"   -> "PhySleep")

Categories ==
  {"ProcessorActive", "ProcessorSleeping", "ProcessorSleep", "SensorActive", "SensorIdle",
   "TrxOff", "RxOn", "BusyRx", "BusyTx", "PhySleep"}

\* The transceiver currents the helper has set, or the default ones.
InstalledCurrent == IF "trx" \in device.attributes THEN TrxCurrent ELSE DefaultTrxCurrent

\* The current of a state when the transmit current is tx.
Current(c, state, tx) ==
  CASE c = "processor" -> ProcessorCurrent[state]
    [] c = "sensor"    -> SensorCurrent[state]
    [] c = "phy"       -> (IF state = "BUSY_TX" THEN tx ELSE InstalledCurrent[state])

\* What the constructors leave: processor and sensor draw nothing, the processor
\* under a category of its own, the transceiver the default current.
Constructed(c) ==
  CASE c = "phy"       -> [state |-> "TRX_OFF", category |-> "TrxOff",
                           current |-> DefaultTrxCurrent["TRX_OFF"], since |-> 0]
    [] c = "processor" -> [state |-> "SLEEP", category |-> "ProcessorSleep",
                           current |-> 0, since |-> 0]
    [] c = "sensor"    -> [state |-> "IDLE", category |-> "SensorIdle",
                           current |-> 0, since |-> 0]

\* Asked for the state it is in, processor and sensor (SetState) and the transceiver
\* (PlmeSetTRXStateRequest) return before they update the battery.  The transceiver
\* is only turned off from TX_ON, though, and UpdateBattery has run on the way there.
ReturnsEarly(c, state) ==
  state = power[c].state /\ ~(c = "phy" /\ state = "TRX_OFF")

\* Mutant of Metered: the time of the update is not recorded.
MeteredWithoutTime(c, state, tx) ==
  IF ReturnsEarly(c, state) THEN power[c]
  ELSE [state |-> state, category |-> Category(c, state),
        current |-> Current(c, state, tx), since |-> power[c].since]

\* Consumer c entering the state, its current cached until the next change.
Metered(c, state, tx) ==
  IF ReturnsEarly(c, state) THEN power[c]
  ELSE [state |-> state, category |-> Category(c, state),
        current |-> Current(c, state, tx), since |-> now]

\* Mutant of DecrementEnergy: the energy is not set to zero.
UnclampedEnergy(b, category, amount) ==
  LET left == b.energy - amount
  IN  [energy    |-> left,
       breakdown |-> [b.breakdown EXCEPT ![category] = @ + amount],
       lifetime  |-> IF left <= 0 /\ b.lifetime = Never THEN now ELSE b.lifetime]

\* An empty battery stays at zero and calls back on every debit; the example
\* keeps the time of the first call as the lifetime of the network.
DecrementEnergy(b, category, amount) ==
  LET left == b.energy - amount
  IN  [energy    |-> IF left <= 0 THEN 0 ELSE left,
       breakdown |-> [b.breakdown EXCEPT ![category] = @ + amount],
       lifetime  |-> IF left <= 0 /\ b.lifetime = Never THEN now ELSE b.lifetime]

\* Mutant of Debited: the energy is booked under the state entered.
DebitedToNewState(b, c, state) ==
  IF c \notin metered \/ ReturnsEarly(c, state) THEN b
  ELSE DecrementEnergy(b, Category(c, state), power[c].current * (now - power[c].since))

\* The battery b after c has paid for the time in the state it leaves.
Debited(b, c, state) ==
  IF c \notin metered \/ ReturnsEarly(c, state) THEN b
  ELSE DecrementEnergy(b, power[c].category, power[c].current * (now - power[c].since))

Changing(c, state) == IF ReturnsEarly(c, state) THEN {} ELSE {c}

SetState(c, state) ==
  /\ power' = [power EXCEPT ![c] = Metered(c, state, txCurrent)]
  /\ battery' = Debited(battery, c, state)
  /\ entered' = entered \cup Changing(c, state)
  /\ UNCHANGED txCurrent

\* Two consumers change state in one event, while the transmit current becomes tx.
SetStates(c1, s1, c2, s2, tx) ==
  /\ power' = [power EXCEPT ![c1] = Metered(c1, s1, tx), ![c2] = Metered(c2, s2, tx)]
  /\ battery' = Debited(Debited(battery, c1, s1), c2, s2)
  /\ entered' = entered \cup Changing(c1, s1) \cup Changing(c2, s2)
  /\ txCurrent' = tx

-----------------------------------------------------------------------------
\* States, categories and energies keep their types; the battery never goes below
\* zero.
PowerTypeOK ==
  /\ SetupTypeOK
  /\ now \in 0 .. MaxTime
  /\ power \in [Consumers -> [state : TrxStates \cup {"ACTIVE", "IDLE"}, category : Categories,
                              current : Nat, since : 0 .. MaxTime]]
  /\ power["processor"].state \in {"ACTIVE", "SLEEP"}
  /\ power["sensor"].state \in {"ACTIVE", "IDLE"}
  /\ power["phy"].state \in TrxStates
  /\ txCurrent \in TxCurrents
  /\ battery \in [energy : 0 .. InitEnergy, breakdown : [Categories -> Nat],
                  lifetime : 0 .. MaxTime \cup {Never}]
  /\ {sampleAt, sensedAt, stopAt} \subseteq Nat \cup {Never}
  /\ sent \in Nat
  /\ {stopped, running} \subseteq BOOLEAN
  /\ link \in {"DUE", "SENDING", "DONE"}
  /\ terminateAt \in Nat
  /\ entered \subseteq Consumers
  /\ used \in [Categories -> Nat]
  /\ emptyAt \in 0 .. MaxTime \cup {Never}

PowerInit ==
  /\ SetupInit
  /\ now = 0
  /\ txCurrent \in TxCurrents
  /\ power = [c \in Consumers |-> Constructed(c)]
  /\ battery = [energy |-> InitEnergy, breakdown |-> [k \in Categories |-> 0],
                lifetime |-> Never]
  /\ sampleAt = Never /\ sensedAt = Never
  /\ stopAt \in StopTimes \cup {Never}
  /\ stopped = FALSE /\ sent = 0
  /\ link = "DUE"
  /\ terminateAt = Superframe \div 2
  /\ running = TRUE
  /\ entered = {}
  /\ used = [k \in Categories |-> 0]
  /\ emptyAt = Never

Started == wired /\ running

\* The node is put together before the simulation starts; StartApplication runs
\* when it does.
Assemble ==
  /\ Setup
  /\ sampleAt' = IF wired' THEN DelayUntilSample ELSE Never
  /\ UNCHANGED <<now, meterVars, sensedAt, stopAt, stopped, sent, link, simVars, drawnVars>>

-----------------------------------------------------------------------------
(* The application and the sensor *)

StartSensing ==
  /\ Started /\ sampleAt = now
  /\ SetStates("processor", "ACTIVE", "sensor", "ACTIVE", txCurrent)
  /\ sensedAt' = now + SensingTime
  /\ sampleAt' = now + UpdatePeriod
  /\ UNCHANGED <<setupVars, now, stopAt, stopped, sent, link, simVars, drawnVars>>

\* Mutant of EndSensing: the callback leaves the processor on.
EndSensingStaysAwake ==
  /\ Started /\ sensedAt = now
  /\ SetState("sensor", "IDLE")
  /\ sensedAt' = Never
  /\ sent' = IF stopped THEN sent + 1 ELSE sent
  /\ UNCHANGED <<setupVars, now, sampleAt, stopAt, stopped, link, simVars, drawnVars>>

\* EndSensing calls SensorSampleCallback, which hands the packet to the DL and
\* puts the processor to sleep, whatever the DL is doing.
EndSensing ==
  /\ Started /\ sensedAt = now
  /\ SetStates("sensor", "IDLE", "processor", "SLEEP", txCurrent)
  /\ sensedAt' = Never
  /\ sent' = IF stopped THEN sent + 1 ELSE sent
  /\ UNCHANGED <<setupVars, now, sampleAt, stopAt, stopped, link, simVars, drawnVars>>

\* Mutant of StopApplication: nothing is cancelled.
StopWithoutCancel ==
  /\ Started /\ stopAt = now /\ ~stopped
  /\ stopped' = TRUE
  /\ UNCHANGED <<setupVars, now, meterVars, sampleAt, sensedAt, stopAt, sent, link, simVars,
                 drawnVars>>

\* Only the next sample is cancelled; one under way is sent when it ends.
StopApplication ==
  /\ Started /\ stopAt = now /\ ~stopped
  /\ stopped' = TRUE
  /\ sampleAt' = Never
  /\ UNCHANGED <<setupVars, now, meterVars, sensedAt, stopAt, sent, link, simVars, drawnVars>>

-----------------------------------------------------------------------------
(* The DL and the transceiver *)

AtSlotStart == now % SlotTicks = 0
LastTick    == (now + 1) % SlotTicks = 0
SlotNumber  == (now \div SlotTicks) % SfPeriod
HasLink     == SlotNumber \in LinkSlots
\* ProcessLink has scheduled the transceiver off for this slot.
FirstIdle   == now > 0 /\ (SlotNumber - 1) % SfPeriod \in LinkSlots

\* The processor sleeps with the transceiver and is on for every other request.
ProcessTrxStateRequest(s) ==
  SetStates("processor", IF s = "SLEEP" THEN "SLEEP" ELSE "ACTIVE", "phy", s, txCurrent)

\* A slot with a link: the receiver is turned on, a transmission or an assessment
\* is scheduled, or, in a shared slot, the node is in backoff and does nothing.
ProcessLink ==
  /\ Started /\ AtSlotStart /\ link = "DUE" /\ HasLink
  /\ \/ ProcessTrxStateRequest("RX_ON") /\ link' = "DONE"
     \/ UNCHANGED meterVars /\ link' = "SENDING"
     \/ SlotNumber \in SharedSlots /\ UNCHANGED meterVars /\ link' = "DONE"
  /\ UNCHANGED <<setupVars, now, appVars, simVars, drawnVars>>

\* A slot without one: in the first of them the transceiver is put to sleep.
IdleSlot ==
  /\ Started /\ AtSlotStart /\ link = "DUE" /\ ~HasLink
  /\ IF FirstIdle THEN ProcessTrxStateRequest("SLEEP") ELSE UNCHANGED meterVars
  /\ link' = "DONE"
  /\ UNCHANGED <<setupVars, now, appVars, simVars, drawnVars>>

\* TX_ON, whose confirm sets the transmit power (UpdateTxCurrent) and hands the
\* packet to the PHY at the same instant.
Transmit ==
  /\ Started /\ link = "SENDING" /\ ~LastTick
  /\ \E p \in TxPowers :
       SetStates("processor", "ACTIVE", "phy", "BUSY_TX", UpdateTxCurrent(p))
  /\ link' = "DONE"
  /\ UNCHANGED <<setupVars, now, appVars, simVars, drawnVars>>

\* Nothing is sent after all: no packet, so that TX_ON is followed by TRX_OFF at once,
\* or a busy medium.
NothingSent ==
  /\ Started /\ link = "SENDING"
  /\ \E s \in {"TRX_OFF", "RX_ON"} : ProcessTrxStateRequest(s)
  /\ link' = "DONE"
  /\ UNCHANGED <<setupVars, now, appVars, simVars, drawnVars>>

\* The PHY alone: StartRx, EndRx and EndTx.
FrameOnAir ==
  /\ Started
  /\ \/ power["phy"].state = "RX_ON" /\ ~LastTick /\ HasLink /\ link = "DONE"
        /\ SetState("phy", "BUSY_RX")
     \/ power["phy"].state = "BUSY_RX" /\ power["phy"].since < now /\ SetState("phy", "RX_ON")
     \/ power["phy"].state = "BUSY_TX" /\ power["phy"].since < now /\ SetState("phy", "TRX_OFF")
  /\ UNCHANGED <<setupVars, now, appVars, link, simVars, drawnVars>>

-----------------------------------------------------------------------------
(* Time *)

\* Mutant of TerminateSimulation: the flag is not looked at again.
TerminateOnce ==
  /\ Started /\ terminateAt = now
  /\ IF battery.lifetime # Never /\ now < Superframe
       THEN running' = FALSE /\ UNCHANGED terminateAt
       ELSE terminateAt' = now + Superframe /\ UNCHANGED running
  /\ UNCHANGED <<setupVars, now, meterVars, appVars, link, drawnVars>>

\* The example looks once per superframe whether a node has run out of energy.
TerminateSimulation ==
  /\ Started /\ terminateAt = now
  /\ IF battery.lifetime # Never
       THEN running' = FALSE /\ UNCHANGED terminateAt
       ELSE terminateAt' = now + Superframe /\ UNCHANGED running
  /\ UNCHANGED <<setupVars, now, meterVars, appVars, link, drawnVars>>

\* Something has to happen before time goes on; frames end within their slot.
EventDue ==
  \/ now \in {sampleAt, sensedAt, terminateAt}
  \/ stopAt = now /\ ~stopped
  \/ link = "DUE"
  \/ LastTick /\ (link = "SENDING" \/ power["phy"].state \in {"BUSY_RX", "BUSY_TX"})

\* What a consumer really draws, and in which category.
Draw(c) == IF c \in entered THEN Current(c, power[c].state, txCurrent) ELSE Constructed(c).current
DrawCategory(c) ==
  IF c \in entered THEN Category(c, power[c].state) ELSE Constructed(c).category

DrawnIn(c, k) == IF DrawCategory(c) = k THEN Draw(c) ELSE 0

Drawn == used["ProcessorActive"] + used["ProcessorSleeping"] + used["SensorActive"]
         + used["SensorIdle"] + used["TrxOff"] + used["RxOn"] + used["BusyRx"]
         + used["BusyTx"] + used["PhySleep"]

Tick ==
  /\ Started /\ ~EventDue /\ now < MaxTime
  /\ now' = now + 1
  /\ link' = IF LastTick THEN "DUE" ELSE link
  /\ used' = [k \in Categories |->
               used[k] + DrawnIn("phy", k) + DrawnIn("processor", k) + DrawnIn("sensor", k)]
  /\ emptyAt' = IF emptyAt = Never /\ Drawn' >= InitEnergy THEN now' ELSE emptyAt
  /\ UNCHANGED <<setupVars, meterVars, appVars, simVars>>

Next ==
  \/ Assemble
  \/ StartSensing \/ EndSensing \/ StopApplication
  \/ ProcessLink \/ IdleSlot \/ Transmit \/ NothingSent \/ FrameOnAir
  \/ TerminateSimulation
  \/ Tick

PowerSpec == PowerInit /\ [][Next]_vars

-----------------------------------------------------------------------------
(* Properties *)

\* Every tick of every consumer is paid for once, in the category of the state it
\* was spent in: what the battery has booked and what the consumer in that category
\* still owes is what has been drawn, although the two masters of the processor and
\* the frames on the air change states at any time and SetState may return early.
EnergyAccounted ==
  wired => \A k \in Categories :
    LET owed(c) == IF power[c].category = k THEN power[c].current * (now - power[c].since) ELSE 0
    IN  used[k] = battery.breakdown[k] + owed("phy") + owed("processor") + owed("sensor")

\* The battery is only looked at when somebody changes state.  While the
\* application samples, the lifetime recorded is still within a superframe of the
\* moment the energy was used up, and it never comes before that.
DepletionNoticed ==
  /\ battery.lifetime # Never => emptyAt # Never /\ emptyAt <= battery.lifetime
  /\ ~stopped /\ battery.lifetime # Never => battery.lifetime <= emptyAt + Superframe
  /\ ~stopped /\ emptyAt # Never /\ now > emptyAt + Superframe => battery.lifetime # Never

\* The simulation stops within a superframe of the lifetime it reports.
StopsAfterDepletion ==
  Started /\ battery.lifetime # Never => now <= battery.lifetime + Superframe

\* A node with nothing to do sleeps: with the radio asleep and no sample under
\* way the processor is asleep, whichever of DL and application switched last.
NoIdleProcessor ==
  power["phy"].state = "SLEEP" /\ power["sensor"].state = "IDLE" =>
    power["processor"].state = "SLEEP"

\* A stopped application hands at most the sample under way to the DL.
StoppedNodeSendsAtMostOne == sent <= 1
=============================================================================
