--------------------------- MODULE NodePowerProofs ---------------------------
(***************************************************************************)
(* Proofs about the field application, the processor and the battery of a  *)
(* node, for every superframe, schedule, current and stop time.            *)
(***************************************************************************)
EXTENDS NodePower, TLAPS

-----------------------------------------------------------------------------
(* Putting the node together *)

\* What the Install calls have connected so far: with a battery the PHY and every
\* other part, without one nothing; applications are installed on whole nodes.
SetupInv ==
  /\ parts \subseteq Parts
  /\ metered = IF "battery" \in parts THEN {"phy"} \cup (parts \ {"battery"}) ELSE {}
  /\ dlHasProcessor <=> "processor" \in parts
  /\ device = NoDevice => parts = {}
  /\ wired => parts = Parts

LEMMA SetupInvNext == SetupInv /\ (Setup \/ UNCHANGED setupVars) => SetupInv'
<1> SUFFICES ASSUME SetupInv, Setup \/ UNCHANGED setupVars PROVE SetupInv'
  OBVIOUS
<1> USE DEF SetupInv
<1>1. ASSUME NEW kind \in AttributeKinds, SetAttribute(kind) PROVE SetupInv'
  BY <1>1 DEF SetAttribute
<1>2. CASE Install
  BY <1>2 DEF Install
<1>3. CASE InstallApplication
  BY <1>3 DEF InstallApplication
<1>4. ASSUME NEW part \in Parts, InstallPart(part) PROVE SetupInv'
  <2>1. device # NoDevice /\ device' = device
    BY <1>4 DEF InstallPart, NoDevice
  <2>2. CASE part = "battery"
    BY <1>4, <2>1, <2>2 DEF InstallPart, ConnectedBy, Parts
  <2>3. CASE part # "battery"
    BY <1>4, <2>1, <2>3 DEF InstallPart, ConnectedBy, Parts
  <2> QED BY <2>2, <2>3
<1>5. CASE UNCHANGED setupVars
  BY <1>5 DEF setupVars
<1> QED BY <1>1, <1>2, <1>3, <1>4, <1>5 DEF Setup

\* Once the application is wired only the helper's attributes could change, and
\* it takes no more.
LEMMA SetupIsOver == SetupInv /\ wired => ~Setup
BY DEF SetupInv, Setup, SetAttribute, Install, InstallPart, InstallApplication, Parts

LEMMA StepOfSetup == [Next]_vars => Setup \/ UNCHANGED setupVars
BY DEF Next, vars, Assemble, StartSensing, EndSensing, StopApplication, ProcessLink, IdleSlot,
   Transmit, NothingSent, FrameOnAir, TerminateSimulation, Tick

LEMMA SetupInvCorrect == PowerSpec => []SetupInv
<1>1. PowerInit => SetupInv
  BY DEF PowerInit, SetupInit, SetupInv
<1>2. SetupInv /\ [Next]_vars => SetupInv'
  BY SetupInvNext, StepOfSetup
<1> QED BY <1>1, <1>2, PTL DEF PowerSpec

\* In whatever order a processor, a sensor and a battery are installed, all that
\* draws current debits the battery (InstallProcessor, InstallSensor,
\* InstallBattery).
THEOREM AllConsumersMetered == PowerSpec => []EverythingMetered
<1>1. SetupInv => EverythingMetered
  BY DEF SetupInv, EverythingMetered, Parts, Consumers
<1> QED BY <1>1, SetupInvCorrect, PTL

-----------------------------------------------------------------------------
(* The processor and its two masters *)

\* A change of state enters the state.
LEMMA EntersState ==
  ASSUME NEW c, NEW s, NEW tx PROVE Metered(c, s, tx).state = s
BY DEF Metered, ReturnsEarly

\* An asked-for state is entered now, unless nothing changes.
LEMMA EntersNow ==
  ASSUME NEW c, NEW s, NEW tx
  PROVE  Metered(c, s, tx) = power[c] \/ Metered(c, s, tx).since = now
BY DEF Metered

\* What NoIdleProcessor needs to be inductive: power is a function of consumers.
SleepInv == DOMAIN power = Consumers /\ NoIdleProcessor

LEMMA SleepInvNext == SleepInv /\ [Next]_vars => SleepInv'
<1> SUFFICES ASSUME SleepInv, [Next]_vars PROVE SleepInv'
  OBVIOUS
<1> USE DEF SleepInv, NoIdleProcessor, Consumers
<1>1. CASE StartSensing \/ EndSensing
  BY <1>1, EntersState DEF StartSensing, EndSensing, SetStates
<1>2. ASSUME NEW s, ProcessTrxStateRequest(s) PROVE SleepInv'
  BY <1>2, EntersState DEF ProcessTrxStateRequest, SetStates
<1>3. CASE Transmit
  BY <1>3, EntersState DEF Transmit, SetStates
<1>4. CASE FrameOnAir
  BY <1>4, EntersState DEF FrameOnAir, SetState
<1>5. CASE UNCHANGED power
  BY <1>5
<1> QED BY <1>1, <1>2, <1>3, <1>4, <1>5
        DEF Next, vars, meterVars, Assemble, StopApplication, ProcessLink, IdleSlot,
            NothingSent, TerminateSimulation, Tick

\* A node with its radio asleep and no sample under way has its processor asleep,
\* although DL and application switch it without asking each other
\* (ProcessTrxStateRequest, StartSensing, SensorSampleCallback).
THEOREM ProcessorSleepsWhenIdle == PowerSpec => []NoIdleProcessor
<1>1. PowerInit => SleepInv
  BY DEF PowerInit, SleepInv, NoIdleProcessor, Constructed, Consumers
<1>2. SleepInv => NoIdleProcessor
  BY DEF SleepInv
<1> QED BY <1>1, <1>2, SleepInvNext, PTL DEF PowerSpec

-----------------------------------------------------------------------------
(* The end of the application *)

\* A stopped application schedules no sample, and has handed a packet to the DL
\* only if the sample that was under way is over.
StopInv ==
  /\ SetupInv
  /\ now \in Nat
  /\ stopped => wired /\ sampleAt = Never
  /\ sent \in {0, 1}
  /\ sent = 1 => stopped /\ sensedAt = Never

LEMMA StopInvNext == StopInv /\ [Next]_vars => StopInv'
<1> SUFFICES ASSUME StopInv, [Next]_vars PROVE StopInv'
  OBVIOUS
<1> USE PowerAssumption DEF StopInv, appVars, simVars, drawnVars
<1>1. SetupInv'
  BY SetupInvNext, StepOfSetup
<1>2. now # Never
  OBVIOUS
<1>3. CASE Assemble
  <2>1. ~wired
    BY <1>3, SetupIsOver DEF Assemble
  <2> QED BY <1>1, <1>3, <2>1 DEF Assemble
<1>4. CASE StartSensing
  BY <1>1, <1>2, <1>4 DEF StartSensing, setupVars
<1>5. CASE EndSensing
  BY <1>1, <1>2, <1>5 DEF EndSensing, setupVars
<1>6. CASE StopApplication
  BY <1>1, <1>2, <1>6 DEF StopApplication, Started, setupVars
<1>7. CASE Tick
  BY <1>1, <1>7 DEF Tick, setupVars
<1>8. CASE UNCHANGED <<setupVars, now, appVars>>
  BY <1>1, <1>8 DEF setupVars
<1> QED BY <1>3, <1>4, <1>5, <1>6, <1>7, <1>8
        DEF Next, vars, ProcessLink, IdleSlot, Transmit, NothingSent, FrameOnAir,
            TerminateSimulation

\* StopApplication leaves at most the sample under way to be sent.
THEOREM StopLeavesOneSample == PowerSpec => []StoppedNodeSendsAtMostOne
<1>1. PowerInit => StopInv
  BY PowerAssumption DEF PowerInit, SetupInit, SetupInv, StopInv
<1>2. StopInv => StoppedNodeSendsAtMostOne
  BY DEF StopInv, StoppedNodeSendsAtMostOne
<1> QED BY <1>1, <1>2, StopInvNext, PTL DEF PowerSpec

-----------------------------------------------------------------------------
(* The end of the simulation *)

LEMMA SuperframeType == Superframe \in Nat /\ Superframe \div 2 \in 0 .. Superframe
<1>1. SfPeriod \in Nat
  BY PowerAssumption DEF SfPeriod
<1>2. Superframe \in Nat
  BY <1>1, PowerAssumption DEF Superframe
<1> QED BY <1>2

Lifetimes == Nat \cup {Never}

\* A lifetime once recorded is kept, and a new one is the time of the debit.
KeepsLifetime(old, new) ==
  /\ new \in Lifetimes
  /\ old # Never => new = old
  /\ old = Never => new \in {Never, now}

LEMMA DebitedLifetime ==
  ASSUME now \in Nat, NEW b, b.lifetime \in Lifetimes, NEW c, NEW s
  PROVE  KeepsLifetime(b.lifetime, Debited(b, c, s).lifetime)
BY DEF Debited, DecrementEnergy, KeepsLifetime, Lifetimes

LEMMA SetStatesLifetime ==
  ASSUME now \in Nat, battery.lifetime \in Lifetimes, NEW c, NEW s,
         \/ SetState(c, s)
         \/ \E c2, s2, tx : SetStates(c, s, c2, s2, tx)
  PROVE  KeepsLifetime(battery.lifetime, battery'.lifetime)
<1>1. KeepsLifetime(battery.lifetime, Debited(battery, c, s).lifetime)
  BY DebitedLifetime
<1>2. CASE SetState(c, s)
  BY <1>1, <1>2 DEF SetState
<1>3. ASSUME NEW c2, NEW s2, NEW tx, SetStates(c, s, c2, s2, tx)
      PROVE  KeepsLifetime(battery.lifetime, battery'.lifetime)
  <2> DEFINE b == Debited(battery, c, s)
  <2>1. KeepsLifetime(b.lifetime, Debited(b, c2, s2).lifetime)
    <3> b.lifetime \in Lifetimes
      BY <1>1 DEF KeepsLifetime
    <3> QED BY DebitedLifetime
  <2>2. battery' = Debited(b, c2, s2)
    BY <1>3 DEF SetStates
  <2> QED BY <1>1, <2>1, <2>2 DEF KeepsLifetime
<1> QED BY <1>2, <1>3

\* While the simulation runs, the next look at the battery lies ahead, at most a
\* superframe from now, and at most a superframe after a lifetime was recorded.
DeadlineInv ==
  /\ now \in Nat /\ terminateAt \in Nat /\ battery.lifetime \in Lifetimes
  /\ now <= terminateAt
  /\ terminateAt <= now + Superframe
  /\ battery.lifetime # Never => terminateAt <= battery.lifetime + Superframe

\* A step that debits the battery at most.
LEMMA DebitKeepsDeadline ==
  ASSUME DeadlineInv, UNCHANGED <<now, terminateAt>>,
         KeepsLifetime(battery.lifetime, battery'.lifetime)
  PROVE  DeadlineInv'
BY SuperframeType DEF DeadlineInv, KeepsLifetime

LEMMA DeadlineInvNext == DeadlineInv /\ [Next]_vars => DeadlineInv'
<1> SUFFICES ASSUME DeadlineInv, [Next]_vars PROVE DeadlineInv'
  OBVIOUS
<1>1. now \in Nat /\ battery.lifetime \in Lifetimes
  BY DEF DeadlineInv
<1>2. ASSUME UNCHANGED <<now, battery, terminateAt>> PROVE DeadlineInv'
  BY <1>2 DEF DeadlineInv
<1>3. ASSUME UNCHANGED <<now, terminateAt>>, NEW c, NEW s,
             SetState(c, s) \/ \E c2, s2, tx : SetStates(c, s, c2, s2, tx)
      PROVE  DeadlineInv'
  BY <1>1, <1>3, SetStatesLifetime, DebitKeepsDeadline
<1>4. CASE StartSensing \/ EndSensing
  BY <1>3, <1>4 DEF StartSensing, EndSensing, simVars
<1>5. CASE ProcessLink \/ IdleSlot \/ NothingSent \/ Transmit
  BY <1>2, <1>3, <1>5
     DEF ProcessLink, IdleSlot, NothingSent, Transmit, ProcessTrxStateRequest, simVars, meterVars
<1>6. CASE FrameOnAir
  BY <1>3, <1>6 DEF FrameOnAir, simVars
<1>7. CASE TerminateSimulation
  BY <1>7, SuperframeType DEF TerminateSimulation, DeadlineInv, meterVars
<1>8. CASE Tick
  BY <1>8, SuperframeType DEF Tick, EventDue, DeadlineInv, meterVars, simVars
<1>9. CASE Assemble \/ StopApplication \/ UNCHANGED vars
  BY <1>2, <1>9 DEF Assemble, StopApplication, vars, meterVars, simVars
<1> QED BY <1>4, <1>5, <1>6, <1>7, <1>8, <1>9 DEF Next

\* The simulation stops within a superframe of the lifetime it reports
\* (TerminateSimulation), however the lifetime falls between two looks.
THEOREM SimulationStops == PowerSpec => []StopsAfterDepletion
<1>1. PowerInit => DeadlineInv
  BY SuperframeType, PowerAssumption DEF PowerInit, DeadlineInv, Lifetimes
<1>2. DeadlineInv => StopsAfterDepletion
  BY SuperframeType, PowerAssumption DEF DeadlineInv, StopsAfterDepletion, Lifetimes
<1> QED BY <1>1, <1>2, DeadlineInvNext, PTL DEF PowerSpec

-----------------------------------------------------------------------------
(* The energy *)

Records == [state : TrxStates \cup {"ACTIVE", "IDLE"}, category : Categories,
            current : Nat, since : Nat]

\* The states of a consumer.
StatesOf(c) ==
  CASE c = "processor" -> {"ACTIVE", "SLEEP"}
    [] c = "sensor"    -> {"ACTIVE", "IDLE"}
    [] c = "phy"       -> TrxStates

\* What a consumer owes in a category since it last paid.
Owed(r, k, t) == IF r.category = k THEN r.current * (t - r.since) ELSE 0

\* Every state has a category and a current, once the transmit current is known.
LEMMA StateTypes ==
  ASSUME NEW c \in Consumers, NEW s \in StatesOf(c), NEW tx \in Nat
  PROVE  Category(c, s) \in Categories /\ Current(c, s, tx) \in Nat
<1> USE PowerAssumption DEF Category, Categories, Current, InstalledCurrent, StatesOf, TrxStates
<1>1. CASE c = "phy"
  BY <1>1
<1>2. CASE c = "processor"
  BY <1>2
<1>3. CASE c = "sensor"
  BY <1>3
<1> QED BY <1>1, <1>2, <1>3 DEF Consumers

\* A consumer that enters a state pays what it owes, in the category it owes it.
LEMMA DebitedBalance ==
  ASSUME now \in Nat, power \in [Consumers -> Records],
         NEW b, b.breakdown \in [Categories -> Int],
         NEW c \in metered \cap Consumers, NEW s \in StatesOf(c), NEW tx \in Nat
  PROVE  /\ Metered(c, s, tx) \in Records /\ Metered(c, s, tx).since \in {power[c].since, now}
         /\ Debited(b, c, s).breakdown \in [Categories -> Int]
         /\ \A k \in Categories :
              Debited(b, c, s).breakdown[k] + Owed(Metered(c, s, tx), k, now)
                = b.breakdown[k] + Owed(power[c], k, now)
<1> DEFINE r == power[c]
<1> DEFINE amount == r.current * (now - r.since)
<1>1. r \in Records /\ r.category \in Categories /\ amount \in Int
  BY DEF Records
<1>2. CASE ReturnsEarly(c, s)
  BY <1>1, <1>2 DEF Metered, Debited, Owed
<1>3. CASE ~ReturnsEarly(c, s)
  <2> DEFINE m == Metered(c, s, tx)
  <2>1. /\ m = [state |-> s, category |-> Category(c, s), current |-> Current(c, s, tx),
                since |-> now]
        /\ Category(c, s) \in Categories /\ Current(c, s, tx) \in Nat
    BY <1>3, StateTypes DEF Metered
  <2>2. m \in Records
    <3>1. s \in TrxStates \cup {"ACTIVE", "IDLE"}
      BY DEF StatesOf, Consumers, TrxStates
    <3> QED BY <2>1, <3>1 DEF Records
  <2>3. \A k \in Categories : Owed(m, k, now) = 0
    BY <2>1 DEF Owed
  <2>4. Debited(b, c, s).breakdown = [b.breakdown EXCEPT ![r.category] = @ + amount]
    BY <1>3 DEF Debited, DecrementEnergy
  <2>5. \A k \in Categories : Owed(r, k, now) = IF r.category = k THEN amount ELSE 0
    BY DEF Owed
  <2> HIDE DEF amount, m, r
  <2>6. ASSUME NEW k \in Categories
        PROVE  Debited(b, c, s).breakdown[k] + Owed(m, k, now)
                 = b.breakdown[k] + Owed(r, k, now)
    BY <1>1, <2>3, <2>4, <2>5, <2>6
  <2>7. Debited(b, c, s).breakdown \in [Categories -> Int]
    BY <1>1, <2>4
  <2> QED BY <2>1, <2>2, <2>6, <2>7 DEF m, r
<1> QED BY <1>2, <1>3

\* Every consumer is metered in the category and at the current of the state it
\* really is in.
Cached == \A c \in Consumers :
  power[c].category = DrawCategory(c) /\ power[c].current = Draw(c)

Balanced == \A k \in Categories :
  used[k] = battery.breakdown[k] + Owed(power["phy"], k, now)
              + Owed(power["processor"], k, now) + Owed(power["sensor"], k, now)

MeterTypes ==
  /\ now \in Nat
  /\ power \in [Consumers -> Records]
  /\ \A c \in Consumers : power[c].state \in StatesOf(c) /\ power[c].since <= now
  /\ txCurrent \in TxCurrents
  /\ used \in [Categories -> Int]
  /\ battery.breakdown \in [Categories -> Int]

MeterInv == MeterTypes /\ Cached /\ Balanced

\* A change of the transmit current that does not come in the middle of a frame
\* leaves what everybody else draws as it is.
CurrentsKept(tx) ==
  /\ tx \in TxCurrents
  /\ tx = txCurrent \/ power["phy"].state # "BUSY_TX"

\* A consumer that enters a state is metered for it from now on.
LEMMA MeteredCached ==
  ASSUME MeterTypes, Cached, NEW c \in Consumers, NEW s, NEW tx, CurrentsKept(tx)
  PROVE  /\ Metered(c, s, tx).category =
              IF c \in entered \cup Changing(c, s) THEN Category(c, Metered(c, s, tx).state)
                                                 ELSE Constructed(c).category
         /\ Metered(c, s, tx).current =
              IF c \in entered \cup Changing(c, s) THEN Current(c, Metered(c, s, tx).state, tx)
                                                 ELSE Constructed(c).current
<1>1. CASE ReturnsEarly(c, s)
  <2>1. Metered(c, s, tx) = power[c] /\ Changing(c, s) = {}
    BY <1>1 DEF Metered, Changing
  <2>2. Current(c, power[c].state, tx) = Current(c, power[c].state, txCurrent)
    BY DEF Current, CurrentsKept, Consumers
  <2> QED BY <2>1, <2>2 DEF Cached, Draw, DrawCategory
<1>2. CASE ~ReturnsEarly(c, s)
  BY <1>2 DEF Metered, Changing
<1> QED BY <1>1, <1>2

\* The same for a consumer whose state stays.
LEMMA OthersCached ==
  ASSUME MeterTypes, Cached, NEW c \in Consumers, NEW tx, CurrentsKept(tx)
  PROVE  power[c].current =
           IF c \in entered THEN Current(c, power[c].state, tx) ELSE Constructed(c).current
BY DEF Cached, Draw, Current, CurrentsKept, Consumers

\* Whichever two of the three pay, the sum stays.
LEMMA SumAfterPayment ==
  ASSUME NEW old \in [Consumers -> Int], NEW new \in [Consumers -> Int],
         NEW before \in Int, NEW after \in Int, NEW c1 \in Consumers, NEW c2 \in Consumers \ {c1},
         after + new[c1] + new[c2] = before + old[c1] + old[c2],
         \A c \in Consumers \ {c1, c2} : new[c] = old[c]
  PROVE  after + new["phy"] + new["processor"] + new["sensor"]
           = before + old["phy"] + old["processor"] + old["sensor"]
<1>1. CASE c1 = "phy" \/ c2 = "phy"
  <2>1. CASE c1 = "processor" \/ c2 = "processor"
    BY <1>1, <2>1 DEF Consumers
  <2>2. CASE c1 = "sensor" \/ c2 = "sensor"
    BY <1>1, <2>2 DEF Consumers
  <2> QED BY <1>1, <2>1, <2>2 DEF Consumers
<1>2. CASE c1 # "phy" /\ c2 # "phy"
  BY <1>2 DEF Consumers
<1> QED BY <1>1, <1>2

\* Two consumers change state.
LEMMA SetStatesInv ==
  ASSUME MeterInv, metered = Consumers, UNCHANGED <<now, used, device>>,
         NEW c1 \in Consumers, NEW s1 \in StatesOf(c1),
         NEW c2 \in Consumers \ {c1}, NEW s2 \in StatesOf(c2),
         NEW tx, CurrentsKept(tx), SetStates(c1, s1, c2, s2, tx)
  PROVE  MeterInv'
<1> DEFINE b == Debited(battery, c1, s1)
<1>1. MeterTypes /\ Cached /\ Balanced /\ tx \in Nat
  BY PowerAssumption DEF MeterInv, CurrentsKept
<1>2. /\ Metered(c1, s1, tx) \in Records
      /\ Metered(c1, s1, tx).since \in {power[c1].since, now}
      /\ b.breakdown \in [Categories -> Int]
      /\ \A k \in Categories :
           b.breakdown[k] + Owed(Metered(c1, s1, tx), k, now)
             = battery.breakdown[k] + Owed(power[c1], k, now)
  BY <1>1, DebitedBalance DEF MeterTypes
<1>3. /\ Metered(c2, s2, tx) \in Records
      /\ Metered(c2, s2, tx).since \in {power[c2].since, now}
      /\ Debited(b, c2, s2).breakdown \in [Categories -> Int]
      /\ \A k \in Categories :
           Debited(b, c2, s2).breakdown[k] + Owed(Metered(c2, s2, tx), k, now)
             = b.breakdown[k] + Owed(power[c2], k, now)
  <2> HIDE DEF b
  <2> QED BY <1>1, <1>2, DebitedBalance DEF MeterTypes
<1>4. /\ power' = [power EXCEPT ![c1] = Metered(c1, s1, tx), ![c2] = Metered(c2, s2, tx)]
      /\ battery' = Debited(b, c2, s2)
      /\ entered' = entered \cup Changing(c1, s1) \cup Changing(c2, s2)
      /\ txCurrent' = tx
  BY DEF SetStates
<1> HIDE DEF b
<1>5. /\ power'[c1] = Metered(c1, s1, tx) /\ power'[c2] = Metered(c2, s2, tx)
      /\ \A c \in Consumers \ {c1, c2} : power'[c] = power[c]
      /\ power' \in [Consumers -> Records]
  BY <1>1, <1>2, <1>3, <1>4 DEF MeterTypes
<1>6. MeterTypes'
  <2>1. power'[c1].state \in StatesOf(c1) /\ power'[c2].state \in StatesOf(c2)
    BY <1>5, EntersState
  <2>2. \A c \in Consumers : power'[c].state \in StatesOf(c) /\ power'[c].since <= now
    BY <1>1, <1>2, <1>3, <1>5, <2>1 DEF MeterTypes
  <2> QED BY <1>1, <1>3, <1>4, <1>5, <2>2 DEF MeterTypes, CurrentsKept
<1>7. Cached'
  <2>1. ASSUME NEW c \in Consumers
        PROVE  /\ DrawCategory(c)' = IF c \in entered' THEN Category(c, power'[c].state)
                                                      ELSE Constructed(c).category
               /\ Draw(c)' = IF c \in entered' THEN Current(c, power'[c].state, tx)
                                               ELSE Constructed(c).current
    <3>1. InstalledCurrent' = InstalledCurrent
      BY DEF InstalledCurrent
    <3> QED BY <1>4, <3>1 DEF DrawCategory, Draw, Current
  <2>2. ASSUME NEW c \in {c1, c2}, NEW s, power'[c] = Metered(c, s, tx),
               c \in entered' <=> c \in entered \cup Changing(c, s)
        PROVE  power'[c].category = DrawCategory(c)' /\ power'[c].current = Draw(c)'
    BY <1>1, <2>1, <2>2, MeteredCached
  <2>3. ASSUME NEW c \in Consumers \ {c1, c2}
        PROVE  power'[c].category = DrawCategory(c)' /\ power'[c].current = Draw(c)'
    <3>1. c \in entered' <=> c \in entered
      BY <1>4 DEF Changing
    <3>2. power[c].category = DrawCategory(c)
      BY <1>1 DEF Cached
    <3> QED BY <1>1, <1>5, <2>1, <3>1, <3>2, OthersCached DEF DrawCategory
  <2>4. /\ c1 \in entered' <=> c1 \in entered \cup Changing(c1, s1)
        /\ c2 \in entered' <=> c2 \in entered \cup Changing(c2, s2)
    BY <1>4 DEF Changing
  <2> QED BY <1>5, <2>2, <2>3, <2>4 DEF Cached
<1>8. Balanced'
  <2>1. ASSUME NEW k \in Categories
        PROVE  used[k] = battery'.breakdown[k] + Owed(power'["phy"], k, now)
                 + Owed(power'["processor"], k, now) + Owed(power'["sensor"], k, now)
    <3>1. \A c \in Consumers : Owed(power[c], k, now) \in Int
      BY <1>1 DEF MeterTypes, Records, Owed
    <3>2. \A c \in Consumers : Owed(power'[c], k, now) \in Int
      BY <1>1, <1>5 DEF MeterTypes, Records, Owed
    <3>3. battery.breakdown[k] \in Int /\ b.breakdown[k] \in Int /\ battery'.breakdown[k] \in Int
      BY <1>1, <1>2, <1>6 DEF MeterTypes
    <3>4. /\ b.breakdown[k] + Owed(power'[c1], k, now)
               = battery.breakdown[k] + Owed(power[c1], k, now)
          /\ battery'.breakdown[k] + Owed(power'[c2], k, now)
               = b.breakdown[k] + Owed(power[c2], k, now)
      BY <1>2, <1>3, <1>4, <1>5
    <3>5. used[k] = battery.breakdown[k] + Owed(power["phy"], k, now)
                      + Owed(power["processor"], k, now) + Owed(power["sensor"], k, now)
      BY <1>1 DEF Balanced
    <3>6. \A c \in Consumers \ {c1, c2} : Owed(power'[c], k, now) = Owed(power[c], k, now)
      BY <1>5
    <3> DEFINE old == [c \in Consumers |-> Owed(power[c], k, now)]
               new == [c \in Consumers |-> Owed(power'[c], k, now)]
    <3>7. old \in [Consumers -> Int] /\ new \in [Consumers -> Int]
      BY <3>1, <3>2
    <3>8. battery'.breakdown[k] + new[c1] + new[c2] = battery.breakdown[k] + old[c1] + old[c2]
      BY <3>1, <3>2, <3>3, <3>4
    <3>9. \A c \in Consumers \ {c1, c2} : new[c] = old[c]
      BY <3>6
    <3>10. \A c \in {"phy", "processor", "sensor"} :
             old[c] = Owed(power[c], k, now) /\ new[c] = Owed(power'[c], k, now)
      BY DEF Consumers
    <3> HIDE DEF old, new
    <3>11. battery'.breakdown[k] + new["phy"] + new["processor"] + new["sensor"]
             = battery.breakdown[k] + old["phy"] + old["processor"] + old["sensor"]
      BY <3>3, <3>7, <3>8, <3>9, SumAfterPayment
    <3> QED BY <3>5, <3>10, <3>11
  <2> QED BY <2>1 DEF Balanced
<1> QED BY <1>6, <1>7, <1>8 DEF MeterInv

\* Where one consumer changes state, processor or sensor enters the state it is in.
LEMMA OneIsTwo ==
  ASSUME power \in [Consumers -> Records], NEW c \in Consumers, NEW s, SetState(c, s),
         NEW c2 \in Consumers \ {c, "phy"}
  PROVE  SetStates(c, s, c2, power[c2].state, txCurrent)
<1>1. c2 # c /\ c2 # "phy" /\ power[c2] \in Records
  OBVIOUS
<1>2. \A m \in Records : [power EXCEPT ![c] = m] = [power EXCEPT ![c] = m, ![c2] = power[c2]]
  BY <1>1
<1>3. /\ Metered(c2, power[c2].state, txCurrent) = power[c2]
      /\ Changing(c2, power[c2].state) = {}
      /\ \A b : Debited(b, c2, power[c2].state) = b
  BY <1>1 DEF Metered, Changing, Debited, ReturnsEarly
<1>4. power' = [power EXCEPT ![c] = Metered(c, s, txCurrent), ![c2] = power[c2]]
  BY <1>1 DEF SetState
<1> QED BY <1>3, <1>4 DEF SetState, SetStates

\* One consumer changes state.
LEMMA SetStateInv ==
  ASSUME MeterInv, metered = Consumers, UNCHANGED <<now, used, device>>,
         NEW c \in Consumers, NEW s \in StatesOf(c), SetState(c, s)
  PROVE  MeterInv'
<1>1. PICK c2 \in Consumers : c2 \notin {c, "phy"}
  BY DEF Consumers
<1>2. power \in [Consumers -> Records] /\ power[c2].state \in StatesOf(c2)
      /\ txCurrent \in TxCurrents
  BY <1>1 DEF MeterInv, MeterTypes
<1>3. SetStates(c, s, c2, power[c2].state, txCurrent)
  BY <1>1, <1>2, OneIsTwo
<1>4. CurrentsKept(txCurrent)
  BY <1>2 DEF CurrentsKept
<1> QED BY <1>1, <1>2, <1>3, <1>4, SetStatesInv

\* Nobody has changed state before the simulation starts, and a slot whose event
\* is still to come finds no frame on the air.
EnergyInv ==
  /\ SetupInv /\ MeterInv
  /\ ~wired => entered = {}
  /\ link # "DONE" => power["phy"].state \notin {"BUSY_RX", "BUSY_TX"}

\* What a current adds in a tick.
LEMMA OneTickMore ==
  ASSUME NEW current \in Int, NEW time \in Int
  PROVE  current * (time + 1) = current * time + current /\ current * time \in Int
OBVIOUS

\* Time passes, and everybody draws the current of the state it is in.
LEMMA TickInv == EnergyInv /\ Tick => MeterInv'
<1> SUFFICES ASSUME EnergyInv, Tick PROVE MeterInv'
  OBVIOUS
<1>1. MeterTypes /\ Cached /\ Balanced
  BY DEF EnergyInv, MeterInv
<1>2. now' = now + 1 /\ UNCHANGED <<device, power, txCurrent, battery, entered>>
  BY DEF Tick, setupVars, meterVars
<1>3. /\ \A c \in Consumers : power[c].current \in Int /\ power[c].since \in Int
      /\ now \in Int
      /\ \A k \in Categories : battery.breakdown[k] \in Int
  BY <1>1 DEF MeterTypes, Records
<1>4. ASSUME NEW c \in Consumers, NEW k \in Categories
      PROVE  /\ Owed(power[c], k, now) \in Int /\ DrawnIn(c, k) \in Int
             /\ Owed(power[c], k, now + 1) = Owed(power[c], k, now) + DrawnIn(c, k)
  <2>1. power[c].category = DrawCategory(c) /\ power[c].current = Draw(c)
    BY <1>1 DEF Cached
  <2>2. (now + 1) - power[c].since = (now - power[c].since) + 1
        /\ now - power[c].since \in Int
    BY <1>3
  <2>3. /\ power[c].current * ((now + 1) - power[c].since)
             = power[c].current * (now - power[c].since) + power[c].current
        /\ power[c].current * (now - power[c].since) \in Int
    BY <1>3, <2>2, OneTickMore
  <2> DEFINE before == power[c].current * (now - power[c].since)
             after  == power[c].current * ((now + 1) - power[c].since)
  <2>4. DrawnIn(c, k) = IF power[c].category = k THEN power[c].current ELSE 0
    BY <2>1 DEF DrawnIn
  <2>5. /\ Owed(power[c], k, now) = IF power[c].category = k THEN before ELSE 0
        /\ Owed(power[c], k, now + 1) = IF power[c].category = k THEN after ELSE 0
    BY DEF Owed
  <2>6. before \in Int /\ after = before + power[c].current
    BY <2>3
  <2> HIDE DEF before, after
  <2> QED BY <1>3, <2>4, <2>5, <2>6
<1>5. used' = [k \in Categories |->
                 used[k] + DrawnIn("phy", k) + DrawnIn("processor", k) + DrawnIn("sensor", k)]
  BY DEF Tick
<1>6. ASSUME NEW k \in Categories
      PROVE  /\ used'[k] \in Int
             /\ used'[k] = battery.breakdown[k] + Owed(power["phy"], k, now + 1)
                  + Owed(power["processor"], k, now + 1) + Owed(power["sensor"], k, now + 1)
  <2>1. used[k] = battery.breakdown[k] + Owed(power["phy"], k, now)
                    + Owed(power["processor"], k, now) + Owed(power["sensor"], k, now)
    BY <1>1 DEF Balanced
  <2> HIDE DEF Owed
  <2>2. \A c \in {"phy", "processor", "sensor"} :
          /\ Owed(power[c], k, now) \in Int /\ DrawnIn(c, k) \in Int
          /\ Owed(power[c], k, now + 1) = Owed(power[c], k, now) + DrawnIn(c, k)
    BY <1>4 DEF Consumers
  <2> QED BY <1>3, <1>5, <2>1, <2>2
<1>7. MeterTypes'
  <2>1. \A c \in Consumers : power'[c].state \in StatesOf(c) /\ power'[c].since <= now'
    BY <1>1, <1>2, <1>3 DEF MeterTypes
  <2>2. used' \in [Categories -> Int]
    BY <1>5, <1>6
  <2> QED BY <1>1, <1>2, <2>1, <2>2 DEF MeterTypes
<1>8. Cached'
  BY <1>1, <1>2 DEF Cached, Draw, DrawCategory, Current, InstalledCurrent
<1>9. Balanced'
  BY <1>2, <1>6 DEF Balanced
<1> QED BY <1>7, <1>8, <1>9 DEF MeterInv

\* Once the application is wired, everything is metered.
LEMMA WiredMetered == SetupInv /\ wired => metered = Consumers
BY DEF SetupInv, Parts, Consumers

\* A step of a node that is wired changes states of consumers, or lets time pass.
LEMMA MeterInvNext ==
  ASSUME EnergyInv, [Next]_vars
  PROVE  MeterInv'
<1> DEFINE Same == UNCHANGED <<now, used, device>>
<1>1. SetupInv /\ MeterInv
  BY DEF EnergyInv
<1>2. txCurrent \in TxCurrents
  BY <1>1 DEF MeterInv, MeterTypes
<1>3. CurrentsKept(txCurrent)
  BY <1>2 DEF CurrentsKept
<1>4. /\ {"ACTIVE", "SLEEP"} \subseteq StatesOf("processor")
      /\ {"ACTIVE", "IDLE"} \subseteq StatesOf("sensor")
      /\ StatesOf("phy") = {"TRX_OFF", "RX_ON", "BUSY_RX", "BUSY_TX", "SLEEP"}
      /\ Consumers = {"phy", "processor", "sensor"}
  BY DEF StatesOf, TrxStates, Consumers
<1>5. ASSUME Started, Same, NEW s \in {"TRX_OFF", "RX_ON", "SLEEP"}, ProcessTrxStateRequest(s)
      PROVE  MeterInv'
  <2>1. metered = Consumers
    BY <1>1, <1>5, WiredMetered DEF Started
  <2>2. PICK p \in {"ACTIVE", "SLEEP"} : SetStates("processor", p, "phy", s, txCurrent)
    BY <1>5 DEF ProcessTrxStateRequest
  <2>3. p \in StatesOf("processor") /\ s \in StatesOf("phy")
    BY <1>4
  <2> QED BY <1>1, <1>3, <1>4, <1>5, <2>1, <2>2, <2>3, SetStatesInv
<1>6. CASE StartSensing
  <2>1. /\ metered = Consumers /\ Same
        /\ SetStates("processor", "ACTIVE", "sensor", "ACTIVE", txCurrent)
    BY <1>1, <1>6, WiredMetered DEF StartSensing, Started, setupVars, drawnVars
  <2> QED BY <1>1, <1>3, <1>4, <2>1, SetStatesInv
<1>7. CASE EndSensing
  <2>1. metered = Consumers /\ Same /\ SetStates("sensor", "IDLE", "processor", "SLEEP", txCurrent)
    BY <1>1, <1>7, WiredMetered DEF EndSensing, Started, setupVars, drawnVars
  <2> QED BY <1>1, <1>3, <1>4, <2>1, SetStatesInv
<1>8. CASE Transmit
  <2>1. PICK p \in TxPowers :
          SetStates("processor", "ACTIVE", "phy", "BUSY_TX", UpdateTxCurrent(p))
    BY <1>8 DEF Transmit
  <2>2. metered = Consumers /\ Same
    BY <1>1, <1>8, WiredMetered DEF Transmit, Started, setupVars, drawnVars
  <2>3. CurrentsKept(UpdateTxCurrent(p))
    BY <1>8 DEF Transmit, EnergyInv, CurrentsKept, TxCurrents
  <2> QED BY <1>1, <1>4, <2>1, <2>2, <2>3, SetStatesInv
<1>9. CASE FrameOnAir
  <2>1. PICK s \in {"BUSY_RX", "RX_ON", "TRX_OFF"} : SetState("phy", s)
    BY <1>9 DEF FrameOnAir
  <2>2. metered = Consumers /\ Same
    BY <1>1, <1>9, WiredMetered DEF FrameOnAir, Started, setupVars, drawnVars
  <2> QED BY <1>1, <1>4, <2>1, <2>2, SetStateInv
<1>10. ASSUME UNCHANGED <<now, meterVars, drawnVars>>,
              UNCHANGED device \/ entered = {}
       PROVE  MeterInv'
  <2>1. MeterTypes' /\ Balanced'
    BY <1>1, <1>10 DEF MeterInv, MeterTypes, Balanced, meterVars, drawnVars
  <2>2. Cached'
    BY <1>1, <1>10 DEF MeterInv, Cached, Draw, DrawCategory, Current, InstalledCurrent, meterVars
  <2> QED BY <2>1, <2>2 DEF MeterInv
<1>11. CASE ProcessLink \/ IdleSlot \/ NothingSent
  BY <1>5, <1>10, <1>11 DEF ProcessLink, IdleSlot, NothingSent, setupVars, drawnVars
<1>12. CASE Assemble
  <2>1. ~wired
    BY <1>1, <1>12, SetupIsOver DEF Assemble
  <2>2. entered = {}
    BY <2>1 DEF EnergyInv
  <2> QED BY <1>10, <1>12, <2>2 DEF Assemble
<1>13. CASE StopApplication \/ TerminateSimulation \/ UNCHANGED vars
  BY <1>10, <1>13 DEF StopApplication, TerminateSimulation, vars, setupVars
<1>14. CASE Tick
  BY <1>14, TickInv
<1> QED BY <1>6, <1>7, <1>8, <1>9, <1>11, <1>12, <1>13, <1>14 DEF Next

\* Frames end within their slot, and nothing is drawn before the node is wired.
LEMMA EnergyInvNext == EnergyInv /\ [Next]_vars => EnergyInv'
<1> SUFFICES ASSUME EnergyInv, [Next]_vars PROVE EnergyInv'
  OBVIOUS
<1>1. SetupInv'
  BY SetupInvNext, StepOfSetup DEF EnergyInv
<1>2. MeterInv'
  BY MeterInvNext
<1>3. (~wired => entered = {})'
  BY DEF EnergyInv, Next, vars, setupVars, meterVars, Assemble, Setup, SetAttribute, Install,
     InstallPart, InstallApplication, Started, StartSensing, EndSensing, StopApplication,
     ProcessLink, IdleSlot, Transmit, NothingSent, FrameOnAir, TerminateSimulation, Tick
<1>4. (link # "DONE" => power["phy"].state \notin {"BUSY_RX", "BUSY_TX"})'
  <2>1. link # "DONE" => power["phy"].state \notin {"BUSY_RX", "BUSY_TX"}
    BY DEF EnergyInv
  <2>2. DOMAIN power = Consumers
    BY DEF EnergyInv, MeterInv, MeterTypes
  <2>3. CASE StartSensing \/ EndSensing
    BY <2>1, <2>2, <2>3 DEF StartSensing, EndSensing, SetStates, Consumers
  <2>4. CASE ProcessLink \/ IdleSlot \/ Transmit \/ NothingSent
    BY <2>1, <2>4 DEF ProcessLink, IdleSlot, Transmit, NothingSent, meterVars
  <2>5. CASE FrameOnAir
    BY <2>1, <2>2, <2>5, EntersState DEF FrameOnAir, SetState, Consumers
  <2>6. CASE Tick
    BY <2>1, <2>6 DEF Tick, EventDue, meterVars
  <2>7. CASE Assemble \/ StopApplication \/ TerminateSimulation \/ UNCHANGED vars
    BY <2>1, <2>7 DEF Assemble, StopApplication, TerminateSimulation, vars, meterVars
  <2> QED BY <2>3, <2>4, <2>5, <2>6, <2>7 DEF Next
<1> QED BY <1>1, <1>2, <1>3, <1>4 DEF EnergyInv

\* What the constructors and StartApplication leave.
LEMMA EnergyInit == PowerInit => EnergyInv
<1> SUFFICES ASSUME PowerInit PROVE EnergyInv
  OBVIOUS
<1>1. SetupInv /\ entered = {} /\ ~wired
  BY DEF PowerInit, SetupInit, SetupInv
<1>2. /\ power["phy"] = Constructed("phy") /\ power["processor"] = Constructed("processor")
      /\ power["sensor"] = Constructed("sensor")
      /\ power = [c \in Consumers |-> Constructed(c)]
  BY DEF PowerInit, Consumers
<1>3. \A c \in Consumers : Constructed(c) \in Records /\ Constructed(c).state \in StatesOf(c)
  BY PowerAssumption DEF Consumers, Constructed, Records, StatesOf, TrxStates, Categories
<1>4. MeterTypes
  <2>1. \A c \in Consumers : power[c].state \in StatesOf(c) /\ power[c].since <= now
    BY <1>2, <1>3 DEF PowerInit, Constructed, Consumers
  <2>2. power \in [Consumers -> Records]
    BY <1>2, <1>3
  <2> QED BY <2>1, <2>2 DEF PowerInit, MeterTypes
<1>5. Cached
  BY <1>1, <1>2 DEF Cached, Draw, DrawCategory
<1>6. Balanced
  <2>1. \A c \in Consumers, k \in Categories : Owed(power[c], k, now) = 0
    BY <1>2, <1>3, PowerAssumption DEF PowerInit, Constructed, Owed, Consumers, Records
  <2> QED BY <2>1 DEF PowerInit, Balanced, Consumers
<1>7. power["phy"].state = "TRX_OFF"
  BY <1>2 DEF Constructed
<1> QED BY <1>1, <1>4, <1>5, <1>6, <1>7 DEF EnergyInv, MeterInv

\* Every tick of every consumer is paid for once, in the category of the state it
\* was spent in (SetState of processor, sensor and PHY, DecrementEnergy), whatever
\* currents, schedule and sampling period the node has.
THEOREM EnergyIsAccounted == PowerSpec => []EnergyAccounted
<1>1. EnergyInv => EnergyAccounted
  BY DEF EnergyInv, MeterInv, Balanced, EnergyAccounted, Owed
<1> QED BY <1>1, EnergyInit, EnergyInvNext, PTL DEF PowerSpec

-----------------------------------------------------------------------------
(* The types *)

LEMMA SetupTypesNext ==
  SetupTypeOK /\ (Setup \/ UNCHANGED setupVars) => SetupTypeOK'
<1> SUFFICES ASSUME SetupTypeOK, Setup \/ UNCHANGED setupVars PROVE SetupTypeOK'
  OBVIOUS
<1> USE DEF SetupTypeOK
<1>1. ASSUME NEW kind \in AttributeKinds, SetAttribute(kind) PROVE SetupTypeOK'
  BY <1>1 DEF SetAttribute
<1>2. CASE Install
  <2>1. device' = [node |-> TRUE, channel |-> TRUE, configComplete |-> TRUE,
                   attributes |-> attributes]
    BY <1>2 DEF Install, Configured, SetNode, SetChannel, CompleteConfig, NoDevice
  <2> QED BY <1>2, <2>1 DEF Install
<1>3. CASE InstallApplication
  BY <1>3 DEF InstallApplication
<1>4. ASSUME NEW part \in Parts, InstallPart(part) PROVE SetupTypeOK'
  <2>1. ConnectedBy(part) \subseteq Consumers
    BY <1>4 DEF InstallPart, ConnectedBy, Parts, Consumers
  <2>2. dlHasProcessor' \in BOOLEAN
    BY <1>4, Zenon DEF InstallPart
  <2> QED BY <1>4, <2>1, <2>2 DEF InstallPart
<1>5. CASE UNCHANGED setupVars
  BY <1>5 DEF setupVars
<1> QED BY <1>1, <1>2, <1>3, <1>4, <1>5 DEF Setup

BatteryTypes == [energy : 0 .. InitEnergy, breakdown : [Categories -> Nat],
                 lifetime : 0 .. MaxTime \cup {Never}]

LEMMA DebitedTypes ==
  ASSUME MeterTypes, now <= MaxTime, NEW b \in BatteryTypes, NEW c \in Consumers, NEW s
  PROVE  Debited(b, c, s) \in BatteryTypes
<1> DEFINE amount == power[c].current * (now - power[c].since)
<1>1. power[c].current \in Nat /\ now - power[c].since \in Nat /\ power[c].category \in Categories
  BY DEF MeterTypes, Records
<1>2. amount \in Nat
  BY <1>1
<1>3. Debited(b, c, s) \in {b, DecrementEnergy(b, power[c].category, amount)}
  BY DEF Debited
<1>4. now \in 0 .. MaxTime
  BY DEF MeterTypes
<1> HIDE DEF amount
<1>5. DecrementEnergy(b, power[c].category, amount) \in BatteryTypes
  BY <1>1, <1>2, <1>4, PowerAssumption DEF DecrementEnergy, BatteryTypes
<1> QED BY <1>3, <1>5

LEMMA SetStatesBattery ==
  ASSUME MeterTypes, now <= MaxTime, battery \in BatteryTypes, entered \subseteq Consumers,
         NEW c \in Consumers, NEW s,
         \/ SetState(c, s)
         \/ \E c2 \in Consumers : \E s2, tx : SetStates(c, s, c2, s2, tx)
  PROVE  battery' \in BatteryTypes /\ entered' \subseteq Consumers
<1>1. CASE SetState(c, s)
  BY <1>1, DebitedTypes DEF SetState, Changing
<1>2. ASSUME NEW c2 \in Consumers, NEW s2, NEW tx, SetStates(c, s, c2, s2, tx)
      PROVE  battery' \in BatteryTypes /\ entered' \subseteq Consumers
  <2>1. Debited(Debited(battery, c, s), c2, s2) \in BatteryTypes
    BY DebitedTypes
  <2> QED BY <1>2, <2>1 DEF SetStates, Changing
<1> QED BY <1>1, <1>2

\* What is left of PowerTypeOK once EnergyInv is known.
TimerTypes ==
  /\ now \in 0 .. MaxTime
  /\ {sampleAt, sensedAt, stopAt} \subseteq Nat \cup {Never}
  /\ sent \in Nat
  /\ link \in {"DUE", "SENDING", "DONE"}
  /\ terminateAt \in Nat

FlagTypes == {stopped, running} \subseteq BOOLEAN

HistoryTypes ==
  /\ used \in [Categories -> Nat]
  /\ emptyAt \in 0 .. MaxTime \cup {Never}

TypeInv ==
  /\ EnergyInv
  /\ SetupTypeOK /\ TimerTypes /\ FlagTypes /\ HistoryTypes
  /\ battery \in BatteryTypes /\ entered \subseteq Consumers

LEMMA PeriodTypes ==
  Superframe \in Nat /\ UpdatePeriod \in Nat /\ DelayUntilSample \in Nat
<1>1. Superframe \in Nat
  BY SuperframeType
<1>2. UpdatePeriod \in Nat
  BY <1>1, PowerAssumption DEF UpdatePeriod
<1> QED BY <1>1, <1>2, PowerAssumption DEF DelayUntilSample

LEMMA TimerTypesNext == TimerTypes /\ [Next]_vars => TimerTypes'
<1> SUFFICES ASSUME TimerTypes, [Next]_vars PROVE TimerTypes'
  OBVIOUS
<1> USE PowerAssumption DEF TimerTypes, appVars, simVars
<1>1. CASE Assemble
  BY <1>1, PeriodTypes DEF Assemble
<1>2. CASE StartSensing
  BY <1>2, PeriodTypes DEF StartSensing
<1>3. CASE EndSensing
  BY <1>3 DEF EndSensing
<1>4. CASE StopApplication
  BY <1>4 DEF StopApplication
<1>5. CASE ProcessLink \/ IdleSlot \/ Transmit \/ NothingSent
  BY <1>5 DEF ProcessLink, IdleSlot, Transmit, NothingSent
<1>6. CASE FrameOnAir
  BY <1>6 DEF FrameOnAir
<1>7. CASE TerminateSimulation
  BY <1>7, PeriodTypes DEF TerminateSimulation
<1>8. CASE Tick
  BY <1>8 DEF Tick
<1>9. CASE UNCHANGED vars
  BY <1>9 DEF vars
<1> QED BY <1>1, <1>2, <1>3, <1>4, <1>5, <1>6, <1>7, <1>8, <1>9 DEF Next

LEMMA FlagTypesNext == FlagTypes /\ [Next]_vars => FlagTypes'
<1> SUFFICES ASSUME FlagTypes, [Next]_vars PROVE FlagTypes'
  OBVIOUS
<1>1. CASE StopApplication
  BY <1>1, Zenon DEF StopApplication, FlagTypes, simVars
<1>2. CASE TerminateSimulation
  BY <1>2, Zenon DEF TerminateSimulation, FlagTypes, appVars
<1>3. CASE UNCHANGED <<stopped, running>>
  BY <1>3, Zenon DEF FlagTypes
<1> QED BY <1>1, <1>2, <1>3
        DEF Next, vars, appVars, simVars, Assemble, StartSensing, EndSensing, ProcessLink,
            IdleSlot, Transmit, NothingSent, FrameOnAir, Tick

LEMMA HistoryTypesNext ==
  ASSUME HistoryTypes, TimerTypes', MeterTypes, Cached, [Next]_vars
  PROVE  HistoryTypes'
<1>1. CASE Tick
  <2>1. \A c \in Consumers, k \in Categories : DrawnIn(c, k) \in Nat
    <3>1. \A c \in Consumers : Draw(c) \in Nat
      BY DEF MeterTypes, Cached, Records
    <3> QED BY <3>1 DEF DrawnIn
  <2>2. \A k \in Categories :
          used[k] + DrawnIn("phy", k) + DrawnIn("processor", k) + DrawnIn("sensor", k) \in Nat
    BY <2>1 DEF Consumers, HistoryTypes
  <2>3. used' \in [Categories -> Nat]
    BY <1>1, <2>2 DEF Tick
  <2>4. emptyAt' \in {emptyAt, now'}
    BY <1>1 DEF Tick
  <2> QED BY <2>3, <2>4 DEF HistoryTypes, TimerTypes
<1>2. CASE UNCHANGED drawnVars
  BY <1>2 DEF HistoryTypes, drawnVars
<1> QED BY <1>1, <1>2
        DEF Next, vars, drawnVars, Assemble, StartSensing, EndSensing, StopApplication,
            ProcessLink, IdleSlot, Transmit, NothingSent, FrameOnAir, TerminateSimulation

LEMMA BatteryTypesNext ==
  ASSUME MeterTypes, TimerTypes, battery \in BatteryTypes, entered \subseteq Consumers,
         [Next]_vars
  PROVE  battery' \in BatteryTypes /\ entered' \subseteq Consumers
<1>1. now <= MaxTime
  BY PowerAssumption DEF TimerTypes
<1>2. ASSUME NEW c \in Consumers, NEW s,
             SetState(c, s) \/ \E c2 \in Consumers : \E s2, tx : SetStates(c, s, c2, s2, tx)
      PROVE  battery' \in BatteryTypes /\ entered' \subseteq Consumers
  BY <1>1, <1>2, SetStatesBattery
<1>3. CASE StartSensing \/ EndSensing
  BY <1>2, <1>3 DEF StartSensing, EndSensing, Consumers
<1>4. CASE ProcessLink \/ IdleSlot \/ NothingSent \/ Transmit
  BY <1>2, <1>4
     DEF ProcessLink, IdleSlot, NothingSent, Transmit, ProcessTrxStateRequest, meterVars, Consumers
<1>5. CASE FrameOnAir
  BY <1>2, <1>5 DEF FrameOnAir, Consumers
<1>6. CASE UNCHANGED meterVars
  BY <1>6 DEF meterVars
<1> QED BY <1>3, <1>4, <1>5, <1>6
        DEF Next, vars, Assemble, StopApplication, TerminateSimulation, Tick

LEMMA TypeInvNext == TypeInv /\ [Next]_vars => TypeInv'
<1> SUFFICES ASSUME TypeInv, [Next]_vars PROVE TypeInv'
  OBVIOUS
<1>1. EnergyInv' /\ TimerTypes' /\ FlagTypes'
  BY EnergyInvNext, TimerTypesNext, FlagTypesNext DEF TypeInv
<1>2. SetupTypeOK'
  BY SetupTypesNext, StepOfSetup DEF TypeInv
<1>3. MeterTypes /\ Cached
  BY DEF TypeInv, EnergyInv, MeterInv
<1>4. HistoryTypes'
  BY <1>1, <1>3, HistoryTypesNext DEF TypeInv
<1>5. battery' \in BatteryTypes /\ entered' \subseteq Consumers
  BY <1>3, BatteryTypesNext DEF TypeInv
<1> QED BY <1>1, <1>2, <1>4, <1>5 DEF TypeInv

LEMMA TypeInit == PowerInit => TypeInv
<1> SUFFICES ASSUME PowerInit PROVE TypeInv
  OBVIOUS
<1>1. EnergyInv
  BY EnergyInit
<1>2. SetupTypeOK
  <2>1. NoDevice \in [node : BOOLEAN, channel : BOOLEAN, configComplete : BOOLEAN,
                      attributes : SUBSET AttributeKinds]
    BY DEF NoDevice
  <2> QED BY <2>1 DEF PowerInit, SetupInit, SetupTypeOK
<1>3. TimerTypes
  BY SuperframeType, PowerAssumption DEF PowerInit, TimerTypes
<1>4. FlagTypes
  BY DEF PowerInit, FlagTypes
<1>5. HistoryTypes
  BY DEF PowerInit, HistoryTypes
<1>6. battery \in BatteryTypes /\ entered \subseteq Consumers
  BY PowerAssumption DEF PowerInit, BatteryTypes
<1> QED BY <1>1, <1>2, <1>3, <1>4, <1>5, <1>6 DEF TypeInv

\* States, categories and times keep their types, and the battery never goes below
\* zero (DecrementEnergy).
THEOREM PowerTypeCorrect == PowerSpec => []PowerTypeOK
<1>1. TypeInv => PowerTypeOK
  <2> SUFFICES ASSUME TypeInv PROVE PowerTypeOK
    OBVIOUS
  <2>1. MeterTypes
    BY DEF TypeInv, EnergyInv, MeterInv
  <2>2. power \in [Consumers -> [state : TrxStates \cup {"ACTIVE", "IDLE"},
                                category : Categories, current : Nat, since : 0 .. MaxTime]]
    <3>1. ASSUME NEW c \in Consumers
          PROVE  power[c] \in [state : TrxStates \cup {"ACTIVE", "IDLE"},
                               category : Categories, current : Nat, since : 0 .. MaxTime]
      <4>1. power[c] \in Records /\ power[c].since <= now /\ now \in 0 .. MaxTime
        BY <2>1 DEF MeterTypes, TypeInv, TimerTypes
      <4> QED BY <4>1, PowerAssumption DEF Records
    <3> QED BY <2>1, <3>1 DEF MeterTypes
  <2>3. /\ power["processor"].state \in {"ACTIVE", "SLEEP"}
        /\ power["sensor"].state \in {"ACTIVE", "IDLE"}
        /\ power["phy"].state \in TrxStates
    BY <2>1 DEF MeterTypes, StatesOf, Consumers
  <2>4. {stopped, running} \subseteq BOOLEAN
    BY Zenon DEF TypeInv, FlagTypes
  <2>5. SetupTypeOK
    BY Zenon DEF TypeInv
  <2> QED BY <2>1, <2>2, <2>3, <2>4, <2>5
          DEF PowerTypeOK, TypeInv, TimerTypes, HistoryTypes, BatteryTypes, MeterTypes
<1> QED BY <1>1, TypeInit, TypeInvNext, PTL DEF PowerSpec

-----------------------------------------------------------------------------
(* Slots and superframes *)

\* The quotient and the remainder of a division are the ones of its equation.
LEMMA QuotientIsUnique ==
  ASSUME NEW q \in Nat, NEW m \in Nat \ {0}, NEW r \in 0 .. m - 1
  PROVE  (m * q + r) \div m = q /\ (m * q + r) % m = r
OBVIOUS

LEMMA MultipleHasNoRemainder ==
  ASSUME NEW q \in Nat, NEW m \in Nat \ {0} PROVE (m * q) % m = 0
OBVIOUS

LEMMA Division ==
  ASSUME NEW n \in Nat, NEW m \in Nat \ {0}
  PROVE  \E q \in Nat, r \in 0 .. m - 1 : n = m * q + r
<1>1. n \div m \in Nat /\ n >= m * (n \div m) /\ n < m * (n \div m) + m
  OBVIOUS
<1> DEFINE q == n \div m
<1>2. q \in Nat /\ m * q \in Nat /\ n >= m * q /\ n < m * q + m
  BY <1>1
<1> HIDE DEF q
<1>3. n - m * q \in 0 .. m - 1 /\ n = m * q + (n - m * q)
  BY <1>2
<1> QED BY <1>2, <1>3

LEMMA SlotTypes ==
  /\ SlotTicks \in Nat \ {0} /\ SfPeriod \in Nat \ {0} /\ Superframe \in Nat \ {0}
  /\ SensingTime \in Nat /\ UpdatePeriod \in Nat /\ UpdatePeriod <= Superframe
  /\ SensingTime < UpdatePeriod
<1>1. SlotTicks \in Nat \ {0} /\ SamplePeriod \in Nat \ {0} /\ MultiFrames \in Nat \ {0}
      /\ SensingTime \in Nat /\ UpdatePeriod - SensingTime - 2 * SlotTicks >= 0
  BY PowerAssumption DEF DelayUntilSample
<1>2. SfPeriod \in Nat \ {0}
  <2> DEFINE a == SamplePeriod + SlotTicks - 1
  <2>0. a \in Nat
    BY <1>1
  <2>1. PICK q \in Nat, r \in 0 .. SlotTicks - 1 : a = SlotTicks * q + r
    <3> HIDE DEF a
    <3> QED BY <1>1, <2>0, Division
  <2>2. SfPeriod = q
    BY <1>1, <2>1, QuotientIsUnique DEF SfPeriod
  <2>3. q # 0
    BY <1>1, <2>1
  <2> QED BY <2>2, <2>3
<1>3. Superframe \in Nat \ {0}
  BY <1>1, <1>2 DEF Superframe
<1>4. UpdatePeriod \in Nat /\ UpdatePeriod <= Superframe
  <2>1. PICK q \in Nat, r \in 0 .. MultiFrames - 1 : Superframe = MultiFrames * q + r
    BY <1>1, <1>3, Division
  <2>2. UpdatePeriod = q
    BY <1>1, <2>1, QuotientIsUnique DEF UpdatePeriod
  <2>3. q <= MultiFrames * q
    BY <1>1, <2>1
  <2> QED BY <1>1, <1>3, <2>1, <2>2, <2>3
<1> QED BY <1>1, <1>2, <1>3, <1>4

\* The slot n of a superframe begins at t.
BeginsAt(n, t) == \E p \in Nat : t = Superframe * p + SlotTicks * n

Slots == 0 .. SfPeriod - 1

\* What is so in the first and in the last tick of a slot.
LEMMA FirstTickOfSlot ==
  ASSUME NEW n \in Slots, now \in Nat, BeginsAt(n, now)
  PROVE  AtSlotStart /\ SlotNumber = n
<1>1. PICK p \in Nat : now = Superframe * p + SlotTicks * n
  BY DEF BeginsAt
<1>2. SlotTicks \in Nat \ {0} /\ SfPeriod \in Nat \ {0}
  BY SlotTypes
<1> DEFINE q == SfPeriod * p + n
<1>3. q \in Nat /\ now = SlotTicks * q + 0 /\ 0 \in 0 .. SlotTicks - 1
  BY <1>1, <1>2 DEF Superframe, Slots
<1>4. q % SfPeriod = n
  BY <1>2, QuotientIsUnique DEF Slots
<1> HIDE DEF q
<1>5. now \div SlotTicks = q /\ now % SlotTicks = 0
  BY <1>2, <1>3, QuotientIsUnique
<1> QED BY <1>4, <1>5 DEF AtSlotStart, SlotNumber

LEMMA LastTickOfSlot ==
  ASSUME NEW n \in Slots, now \in Nat, NEW t \in Nat, BeginsAt(n, t), t + SlotTicks = now + 1
  PROVE  LastTick /\ SlotNumber = n
<1>1. PICK p \in Nat : t = Superframe * p + SlotTicks * n
  BY DEF BeginsAt
<1>2. SlotTicks \in Nat \ {0} /\ SfPeriod \in Nat \ {0}
  BY SlotTypes
<1> DEFINE q == SfPeriod * p + n
<1>3. q \in Nat /\ t = SlotTicks * q
  BY <1>1, <1>2 DEF Superframe, Slots
<1>4. q % SfPeriod = n
  BY <1>2, QuotientIsUnique DEF Slots
<1> HIDE DEF q
<1>5. now = SlotTicks * q + (SlotTicks - 1) /\ SlotTicks - 1 \in 0 .. SlotTicks - 1
  BY <1>2, <1>3
<1>6. now \div SlotTicks = q
  BY <1>2, <1>3, <1>5, QuotientIsUnique
<1>7. now + 1 = SlotTicks * (q + 1) /\ q + 1 \in Nat
  BY <1>2, <1>3, <1>5
<1>8. (now + 1) % SlotTicks = 0
  <2> DEFINE p1 == q + 1
  <2>1. p1 \in Nat /\ now + 1 = SlotTicks * p1
    BY <1>7
  <2> HIDE DEF p1
  <2> QED BY <1>2, <2>1, MultipleHasNoRemainder
<1> QED BY <1>4, <1>6, <1>8 DEF LastTick, SlotNumber

LEMMA BeginsAfterLastTick ==
  ASSUME NEW n \in Slots, now \in Nat, BeginsAt(n, now + 1)
  PROVE  LastTick
<1>1. PICK p \in Nat : now + 1 = Superframe * p + SlotTicks * n
  BY DEF BeginsAt
<1>2. SlotTicks \in Nat \ {0} /\ SfPeriod \in Nat \ {0}
  BY SlotTypes
<1> DEFINE q == SfPeriod * p + n
<1>3. q \in Nat /\ now + 1 = SlotTicks * q
  BY <1>1, <1>2 DEF Superframe, Slots
<1> HIDE DEF q
<1> QED BY <1>2, <1>3, MultipleHasNoRemainder DEF LastTick

LEMMA SameSlot ==
  ASSUME now \in Nat, ~LastTick
  PROVE  (now + 1) \div SlotTicks = now \div SlotTicks
<1>1. SlotTicks \in Nat \ {0}
  BY SlotTypes
<1>2. PICK q \in Nat, r \in 0 .. SlotTicks - 1 : now = SlotTicks * q + r
  BY <1>1, Division
<1>3. CASE r + 1 = SlotTicks
  <2>1. now + 1 = SlotTicks * (q + 1) + 0 /\ 0 \in 0 .. SlotTicks - 1 /\ q + 1 \in Nat
    BY <1>1, <1>2, <1>3
  <2> QED BY <1>1, <2>1, QuotientIsUnique DEF LastTick
<1>4. CASE r + 1 # SlotTicks
  <2>1. now + 1 = SlotTicks * q + (r + 1) /\ r + 1 \in 0 .. SlotTicks - 1
    BY <1>1, <1>2, <1>4
  <2> QED BY <1>1, <1>2, <2>1, QuotientIsUnique
<1> QED BY <1>3, <1>4

\* Every slot has begun, and every slot has ended, once in the superframe before t.
LEMMA BegunLately ==
  ASSUME NEW n \in Slots, NEW t \in Nat, t > Superframe
  PROVE  \E b \in Nat : BeginsAt(n, b) /\ b < t /\ t <= b + Superframe
<1>1. SlotTicks \in Nat \ {0} /\ SfPeriod \in Nat \ {0} /\ Superframe \in Nat \ {0}
  BY SlotTypes
<1> DEFINE x == SlotTicks * n
<1>2. x \in Nat /\ x < Superframe
  <2>1. n \in Nat /\ n < SfPeriod
    BY <1>1 DEF Slots
  <2>2. SlotTicks * n < SlotTicks * SfPeriod
    BY <1>1, <2>1
  <2> QED BY <1>1, <2>1, <2>2 DEF Superframe
<1> HIDE DEF x
<1> DEFINE a == t - 1 - x
<1>3. a \in Nat
  BY <1>1, <1>2
<1>4. PICK p \in Nat, r \in 0 .. Superframe - 1 : a = Superframe * p + r
  <2> HIDE DEF a
  <2> QED BY <1>1, <1>3, Division
<1>5. Superframe * p \in Nat
  BY <1>1
<1> DEFINE b == Superframe * p + x
<1>6. b \in Nat /\ b < t /\ t <= b + Superframe
  BY <1>1, <1>2, <1>4, <1>5
<1>7. BeginsAt(n, b)
  BY DEF BeginsAt, x
<1> QED BY <1>6, <1>7

LEMMA EndedLately ==
  ASSUME NEW n \in Slots, NEW t \in Nat, t > Superframe
  PROVE  \E b \in Nat : BeginsAt(n, b) /\ b + SlotTicks <= t /\ t <= b + SlotTicks + Superframe
<1>1. SlotTicks \in Nat \ {0} /\ SfPeriod \in Nat \ {0} /\ Superframe \in Nat \ {0}
  BY SlotTypes
<1> DEFINE x == SlotTicks * n
<1>2. x \in Nat /\ x + SlotTicks <= Superframe
  <2>1. n \in Nat /\ n + 1 <= SfPeriod
    BY <1>1 DEF Slots
  <2>2. SlotTicks * (n + 1) <= SlotTicks * SfPeriod
    BY <1>1, <2>1
  <2> QED BY <1>1, <2>1, <2>2 DEF Superframe
<1> HIDE DEF x
<1> DEFINE a == t - SlotTicks - x
<1>3. a \in Nat
  BY <1>1, <1>2
<1>4. PICK p \in Nat, r \in 0 .. Superframe - 1 : a = Superframe * p + r
  <2> HIDE DEF a
  <2> QED BY <1>1, <1>3, Division
<1>5. Superframe * p \in Nat
  BY <1>1
<1> DEFINE b == Superframe * p + x
<1>6. b \in Nat /\ b + SlotTicks <= t /\ t <= b + SlotTicks + Superframe
  BY <1>1, <1>2, <1>4, <1>5
<1>7. BeginsAt(n, b)
  BY DEF BeginsAt, x
<1> QED BY <1>6, <1>7

-----------------------------------------------------------------------------
(* The transceiver changes state in every superframe *)

\* A slot idle after one with a link, and a slot with a link that is not shared.
IdleAfterLink(n) == n \in Slots \ LinkSlots /\ (n - 1) % SfPeriod \in LinkSlots
DedicatedSlot(n) == n \in Slots /\ n \in LinkSlots \ SharedSlots

\* The transceiver enters SLEEP in every slot idle after a link, and leaves it in
\* every dedicated slot.
RadioInv(idle, dedicated) ==
  /\ power["phy"].state # "SLEEP" =>
       \A t \in 1 .. now :
         BeginsAt(idle, t) /\ (t = now => link # "DUE") => t <= power["phy"].since
  /\ power["phy"].state = "SLEEP" =>
       \A t \in 0 .. now :
         BeginsAt(dedicated, t) /\ t + SlotTicks <= now => t + SlotTicks <= power["phy"].since
  /\ SlotNumber = dedicated /\ link = "DONE" => power["phy"].state # "SLEEP"

\* The transceiver enters the state s, or stays in it.
LEMMA RadioEnters ==
  ASSUME NEW i, NEW d, RadioInv(i, d), now \in Nat, now' = now,
         NEW s, NEW tx,
         \/ power'["phy"] = Metered("phy", s, tx)
         \/ power'["phy"] = power["phy"] /\ power["phy"].state = s,
         s # "SLEEP" /\ now > 0 /\ BeginsAt(i, now) => (link' = "DUE" <=> link = "DUE"),
         SlotNumber = d /\ link' = "DONE" => s # "SLEEP"
  PROVE  RadioInv(i, d)'
<1>1. power'["phy"].state = s
  BY EntersState
<1>2. SlotNumber' = SlotNumber
  BY DEF SlotNumber
<1>3. \A n, t : BeginsAt(n, t)' <=> BeginsAt(n, t)
  BY DEF BeginsAt
<1>4. CASE power'["phy"] = power["phy"]
  <2> HIDE DEF BeginsAt
  <2>1. power["phy"].state = s
    BY <1>1, <1>4
  <2>2. s # "SLEEP" => \A t \in 1 .. now :
          BeginsAt(i, t) /\ (t = now => link' # "DUE") => t <= power["phy"].since
    BY <2>1 DEF RadioInv
  <2> QED BY <1>1, <1>2, <1>3, <1>4, <2>1, <2>2 DEF RadioInv
<1>5. CASE power'["phy"].since = now
  BY <1>1, <1>2, <1>5 DEF RadioInv
<1> QED BY <1>4, <1>5, EntersNow

LEMMA RadioTick ==
  ASSUME NEW i \in Slots, NEW d, DedicatedSlot(d), RadioInv(i, d), Tick, now \in Nat,
         link \in {"DUE", "SENDING", "DONE"}
  PROVE  RadioInv(i, d)'
<1>1. now' = now + 1 /\ power' = power /\ link # "DUE" /\ (LastTick => link = "DONE")
      /\ link' = IF LastTick THEN "DUE" ELSE link
  BY DEF Tick, EventDue, meterVars
<1>2. \A n, t : BeginsAt(n, t)' <=> BeginsAt(n, t)
  BY DEF BeginsAt
<1>3. ASSUME power["phy"].state # "SLEEP", NEW t \in 1 .. now + 1, BeginsAt(i, t),
             t = now + 1 => link' # "DUE"
      PROVE  t <= power["phy"].since
  <2>1. t # now + 1
    BY <1>1, <1>3, BeginsAfterLastTick
  <2> QED BY <1>1, <1>3, <2>1 DEF RadioInv
<1>4. ASSUME power["phy"].state = "SLEEP", NEW t \in 0 .. now + 1, BeginsAt(d, t),
             t + SlotTicks <= now + 1
      PROVE  t + SlotTicks <= power["phy"].since
  <2>1. t \in 0 .. now
    BY <1>4, SlotTypes
  <2>2. CASE t + SlotTicks = now + 1
    <3>1. LastTick /\ SlotNumber = d
      BY <1>4, <2>2, LastTickOfSlot DEF DedicatedSlot
    <3> QED BY <1>1, <1>4, <3>1 DEF RadioInv
  <2>3. CASE t + SlotTicks # now + 1
    <3>1. t + SlotTicks <= now
      BY <1>4, <2>3, SlotTypes
    <3> QED BY <1>4, <2>1, <3>1 DEF RadioInv
  <2> QED BY <2>2, <2>3
<1>5. ASSUME SlotNumber' = d, link' = "DONE" PROVE power["phy"].state # "SLEEP"
  <2>1. ~LastTick /\ link = "DONE"
    BY <1>1, <1>5
  <2>2. SlotNumber' = SlotNumber
    BY <1>1, <2>1, SameSlot DEF SlotNumber
  <2> QED BY <1>5, <2>1, <2>2 DEF RadioInv
<1> QED BY <1>1, <1>2, <1>3, <1>4, <1>5 DEF RadioInv

LEMMA RadioInvNext ==
  ASSUME NEW i, IdleAfterLink(i), NEW d, DedicatedSlot(d), RadioInv(i, d), TypeInv, [Next]_vars
  PROVE  RadioInv(i, d)'
<1>1. now \in Nat /\ link \in {"DUE", "SENDING", "DONE"} /\ power \in [Consumers -> Records]
  BY DEF TypeInv, TimerTypes, EnergyInv, MeterInv, MeterTypes
<1>2. {"phy", "processor", "sensor"} = Consumers
  BY DEF Consumers
<1>3. BeginsAt(i, now) => AtSlotStart /\ SlotNumber = i
  BY <1>1, FirstTickOfSlot DEF IdleAfterLink
<1>4. ASSUME UNCHANGED <<now, link>>, power'["phy"] = power["phy"] PROVE RadioInv(i, d)'
  <2>1. SlotNumber = d /\ link' = "DONE" => power["phy"].state # "SLEEP"
    BY <1>4 DEF RadioInv
  <2> QED BY <1>1, <1>4, <2>1, RadioEnters
<1>5. ASSUME NEW s, ProcessTrxStateRequest(s) PROVE power'["phy"] = Metered("phy", s, txCurrent)
  BY <1>1, <1>2, <1>5 DEF ProcessTrxStateRequest, SetStates
<1>6. CASE StartSensing \/ EndSensing
  BY <1>1, <1>2, <1>4, <1>6 DEF StartSensing, EndSensing, SetStates
<1>7. CASE ProcessLink
  <2>1. now' = now /\ ~BeginsAt(i, now)
    BY <1>3, <1>7 DEF ProcessLink, HasLink, IdleAfterLink
  <2>2. CASE ProcessTrxStateRequest("RX_ON")
    BY <1>1, <1>5, <2>1, <2>2, RadioEnters
  <2>3. CASE UNCHANGED meterVars /\ link' = "SENDING"
    BY <1>1, <2>1, <2>3, RadioEnters DEF meterVars
  <2>4. CASE SlotNumber \in SharedSlots /\ UNCHANGED meterVars
    BY <1>1, <2>1, <2>4, RadioEnters DEF meterVars, DedicatedSlot
  <2> QED BY <1>7, <2>2, <2>3, <2>4 DEF ProcessLink
<1>8. CASE IdleSlot
  <2>1. now' = now /\ SlotNumber # d
    BY <1>8, PowerAssumption DEF IdleSlot, HasLink, DedicatedSlot
  <2>2. CASE FirstIdle
    <3>1. ProcessTrxStateRequest("SLEEP")
      BY <1>8, <2>2 DEF IdleSlot
    <3> QED BY <1>1, <1>5, <2>1, <3>1, RadioEnters
  <2>3. CASE ~FirstIdle
    <3>1. power' = power
      BY <1>8, <2>3 DEF IdleSlot, meterVars
    <3>2. ~(now > 0 /\ BeginsAt(i, now))
      BY <1>3, <2>3 DEF FirstIdle, IdleAfterLink
    <3> QED BY <1>1, <2>1, <3>1, <3>2, RadioEnters
  <2> QED BY <2>2, <2>3
<1>9. CASE Transmit
  <2>1. PICK p : SetStates("processor", "ACTIVE", "phy", "BUSY_TX", UpdateTxCurrent(p))
    BY <1>9 DEF Transmit
  <2>2. power'["phy"] = Metered("phy", "BUSY_TX", UpdateTxCurrent(p))
    BY <1>1, <1>2, <2>1 DEF SetStates
  <2>3. now' = now /\ link = "SENDING" /\ link' = "DONE"
    BY <1>9 DEF Transmit
  <2> QED BY <1>1, <2>2, <2>3, RadioEnters
<1>10. CASE NothingSent
  <2>1. PICK s \in {"TRX_OFF", "RX_ON"} : ProcessTrxStateRequest(s)
    BY <1>10 DEF NothingSent
  <2>2. now' = now /\ link = "SENDING" /\ link' = "DONE"
    BY <1>10 DEF NothingSent
  <2> QED BY <1>1, <1>5, <2>1, <2>2, RadioEnters
<1>11. CASE FrameOnAir
  <2>1. PICK s \in {"BUSY_RX", "RX_ON", "TRX_OFF"} : SetState("phy", s)
    BY <1>11 DEF FrameOnAir
  <2>2. power'["phy"] = Metered("phy", s, txCurrent) /\ UNCHANGED <<now, link>>
    BY <1>1, <1>2, <1>11, <2>1 DEF SetState, FrameOnAir
  <2> QED BY <1>1, <2>1, <2>2, RadioEnters
<1>12. CASE Assemble \/ StopApplication \/ TerminateSimulation \/ UNCHANGED vars
  BY <1>4, <1>12 DEF Assemble, StopApplication, TerminateSimulation, vars, meterVars
<1>13. CASE Tick
  BY <1>1, <1>13, RadioTick DEF IdleAfterLink
<1> QED BY <1>6, <1>7, <1>8, <1>9, <1>10, <1>11, <1>12, <1>13 DEF Next

\* So its last change is at most a superframe ago.
LEMMA RadioPaidLately ==
  ASSUME NEW i, IdleAfterLink(i), NEW d, DedicatedSlot(d), RadioInv(i, d),
         now \in Nat, power["phy"].since \in Nat
  PROVE  now <= power["phy"].since + Superframe
<1>1. SlotTicks \in Nat \ {0} /\ Superframe \in Nat
  BY SlotTypes
<1>2. CASE now <= Superframe
  BY <1>1, <1>2
<1>3. CASE now > Superframe /\ power["phy"].state # "SLEEP"
  <2>1. PICK b \in Nat : BeginsAt(i, b) /\ b < now /\ now <= b + Superframe
    BY <1>3, BegunLately DEF IdleAfterLink
  <2>2. b \in 1 .. now
    BY <1>1, <1>3, <2>1
  <2> QED BY <1>1, <1>3, <2>1, <2>2 DEF RadioInv
<1>4. CASE now > Superframe /\ power["phy"].state = "SLEEP"
  <2>1. PICK b \in Nat : /\ BeginsAt(d, b) /\ b + SlotTicks <= now
                         /\ now <= b + SlotTicks + Superframe
    BY <1>4, EndedLately DEF DedicatedSlot
  <2> QED BY <1>1, <1>4, <2>1 DEF RadioInv
<1> QED BY <1>1, <1>2, <1>3, <1>4

-----------------------------------------------------------------------------
(* Processor and sensor change state with every sample *)

\* Nothing has happened to a node that is not wired.
UnwiredInv ==
  ~wired => /\ power = [c \in Consumers |-> Constructed(c)] /\ now = 0
            /\ sensedAt = Never /\ ~stopped

LEMMA UnwiredInvNext ==
  ASSUME UnwiredInv, SetupInv, [Next]_vars PROVE UnwiredInv'
<1>1. CASE Assemble
  <2>1. ~wired
    BY <1>1, SetupIsOver DEF Assemble
  <2> QED BY <1>1, <2>1 DEF Assemble, UnwiredInv, meterVars
<1>2. CASE UNCHANGED vars
  BY <1>2 DEF UnwiredInv, vars, setupVars, meterVars, appVars
<1>3. CASE Started /\ wired' = wired
  BY <1>3 DEF Started, UnwiredInv
<1> QED BY <1>1, <1>2, <1>3
        DEF Next, setupVars, StartSensing, EndSensing, StopApplication, ProcessLink, IdleSlot,
            Transmit, NothingSent, FrameOnAir, TerminateSimulation, Tick

\* When the latest sample began.
LastSample == sampleAt - UpdatePeriod

\* While the application samples, the sensor changes state when a sample begins
\* and when it ends, and the processor at the latest after it.
SamplingInv ==
  wired /\ ~stopped =>
    /\ sampleAt \in Nat /\ now <= sampleAt
    /\ sensedAt = Never =>
         /\ LastSample + SensingTime <= now
         /\ power["sensor"].state = "IDLE"
         /\ LastSample + SensingTime <= power["sensor"].since
         /\ power["processor"].state = "ACTIVE" =>
              LastSample + SensingTime <= power["processor"].since
    /\ sensedAt # Never =>
         /\ sensedAt = LastSample + SensingTime
         /\ LastSample <= now /\ now <= sensedAt
         /\ power["sensor"].state = "ACTIVE"
         /\ LastSample <= power["sensor"].since
         /\ power["processor"].state = "ACTIVE" =>
              LastSample + SensingTime - UpdatePeriod <= power["processor"].since
    /\ power["processor"].state = "SLEEP" => LastSample <= power["processor"].since

\* The DL switches the processor, or nobody does.
LEMMA ProcessorEnters ==
  ASSUME SamplingInv, now \in Nat, UNCHANGED <<wired, now, appVars>>,
         power'["sensor"] = power["sensor"],
         NEW s, NEW tx, power'["processor"] = Metered("processor", s, tx)
  PROVE  SamplingInv'
<1>1. CASE power'["processor"] = power["processor"]
  BY <1>1 DEF SamplingInv, LastSample, appVars
<1>2. CASE power'["processor"].since = now
  <2>1. (LastSample' = LastSample /\ LastSample \in Int) \/ ~(wired /\ ~stopped)
    BY SlotTypes DEF LastSample, SamplingInv, appVars
  <2>2. LastSample \in Int => LastSample + SensingTime - UpdatePeriod <= LastSample
    BY SlotTypes
  <2> QED BY <1>2, <2>1, <2>2, SlotTypes DEF SamplingInv, appVars
<1> QED BY <1>1, <1>2, EntersNow

LEMMA SamplingInvNext ==
  ASSUME SamplingInv, UnwiredInv, TypeInv, [Next]_vars
  PROVE  SamplingInv'
<1>1. /\ now \in Nat /\ power \in [Consumers -> Records]
      /\ \A c \in Consumers : power[c].since \in Nat /\ power[c].since <= now
      /\ {"phy", "processor", "sensor"} = Consumers
  BY DEF TypeInv, EnergyInv, MeterInv, MeterTypes, Records, Consumers
<1>2. /\ power["processor"].state \in {"ACTIVE", "SLEEP"}
      /\ power["sensor"].state \in {"ACTIVE", "IDLE"}
  BY DEF TypeInv, EnergyInv, MeterInv, MeterTypes, StatesOf, Consumers
<1>3. power["processor"] = Metered("processor", power["processor"].state, txCurrent)
  BY DEF Metered, ReturnsEarly
<1>4. /\ SlotTicks \in Nat \ {0} /\ SensingTime \in Nat /\ UpdatePeriod \in Nat
      /\ SensingTime < UpdatePeriod /\ DelayUntilSample \in Nat
      /\ DelayUntilSample = UpdatePeriod - SensingTime - 2 * SlotTicks
      /\ Never \in Int /\ Never < 0
  BY SlotTypes, PeriodTypes, PowerAssumption DEF DelayUntilSample
<1>5. ASSUME UNCHANGED <<wired, now, appVars>>, power'["sensor"] = power["sensor"],
             power'["processor"] = power["processor"]
      PROVE  SamplingInv'
  BY <1>1, <1>3, <1>5, ProcessorEnters
<1>6. ASSUME UNCHANGED <<wired, now, appVars>>, NEW s, NEW s2, NEW tx,
             SetStates("processor", s, "phy", s2, tx)
      PROVE  SamplingInv'
  <2>1. power'["processor"] = Metered("processor", s, tx) /\ power'["sensor"] = power["sensor"]
    BY <1>1, <1>6 DEF SetStates
  <2> QED BY <1>1, <1>6, <2>1, ProcessorEnters
<1>7. CASE Assemble
  <2>1. ~wired /\ now = 0 /\ power = [c \in Consumers |-> Constructed(c)] /\ sensedAt = Never
        /\ ~stopped
    BY <1>7, SetupIsOver DEF Assemble, UnwiredInv, TypeInv, EnergyInv
  <2>2. power["sensor"] = Constructed("sensor") /\ power["processor"] = Constructed("processor")
    BY <1>1, <2>1
  <2>3. /\ power["sensor"].state = "IDLE" /\ power["sensor"].since = 0
        /\ power["processor"].state = "SLEEP" /\ power["processor"].since = 0
    BY <2>2 DEF Constructed
  <2>4. /\ UNCHANGED <<now, power, sensedAt, stopped>>
        /\ wired' => sampleAt' = UpdatePeriod - SensingTime - 2 * SlotTicks
    BY <1>4, <1>7 DEF Assemble, meterVars
  <2>5. wired' => LastSample' = 0 - SensingTime - 2 * SlotTicks
    BY <1>4, <2>4 DEF LastSample
  <2> QED BY <1>4, <1>7, <2>1, <2>3, <2>4, <2>5 DEF SamplingInv, Assemble
<1>8. CASE StartSensing
  <2> SUFFICES ASSUME wired, ~stopped PROVE SamplingInv'
    BY <1>8 DEF SamplingInv, StartSensing, setupVars
  <2>1. sampleAt = now /\ sampleAt' = now + UpdatePeriod /\ sensedAt' = now + SensingTime
        /\ UNCHANGED <<now, stopped, wired>>
    BY <1>8 DEF StartSensing, setupVars
  <2>2. LastSample = now - UpdatePeriod /\ LastSample' = now
    BY <1>1, <1>4, <2>1 DEF LastSample
  <2>3. sensedAt = Never
    BY <1>1, <1>4, <2>1, <2>2 DEF SamplingInv
  <2>4. /\ power'["processor"] = Metered("processor", "ACTIVE", txCurrent)
        /\ power'["sensor"] = Metered("sensor", "ACTIVE", txCurrent)
    BY <1>1, <1>8 DEF StartSensing, SetStates
  <2>5. power'["sensor"].state = "ACTIVE" /\ power'["sensor"].since = now
    BY <2>3, <2>4 DEF SamplingInv, Metered, ReturnsEarly
  <2>6. /\ power'["processor"].state = "ACTIVE"
        /\ power'["processor"].since
             = IF power["processor"].state = "ACTIVE" THEN power["processor"].since ELSE now
    BY <2>4 DEF Metered, ReturnsEarly
  <2>7. now - UpdatePeriod + SensingTime <= power'["processor"].since
    BY <1>1, <1>4, <2>2, <2>3, <2>6 DEF SamplingInv
  <2> QED BY <1>1, <1>4, <2>1, <2>2, <2>5, <2>6, <2>7 DEF SamplingInv
<1>9. CASE EndSensing
  <2> SUFFICES ASSUME wired, ~stopped PROVE SamplingInv'
    BY <1>9 DEF SamplingInv, EndSensing, setupVars
  <2>1. sensedAt = now /\ sensedAt' = Never /\ UNCHANGED <<now, sampleAt, stopped, wired>>
    BY <1>9 DEF EndSensing, setupVars
  <2>2. LastSample' = LastSample /\ now = LastSample + SensingTime /\ LastSample \in Int
    BY <1>1, <1>4, <2>1 DEF SamplingInv, LastSample
  <2>3. /\ power'["processor"] = Metered("processor", "SLEEP", txCurrent)
        /\ power'["sensor"] = Metered("sensor", "IDLE", txCurrent)
    BY <1>1, <1>9 DEF EndSensing, SetStates
  <2>4. power'["sensor"].state = "IDLE" /\ power'["sensor"].since = now
    BY <1>1, <1>4, <2>1, <2>3 DEF SamplingInv, Metered, ReturnsEarly
  <2>5. power'["processor"].state = "SLEEP" /\ LastSample <= power'["processor"].since
    BY <1>4, <2>2, <2>3 DEF SamplingInv, Metered, ReturnsEarly
  <2> QED BY <1>1, <1>4, <2>1, <2>2, <2>4, <2>5 DEF SamplingInv
<1>10. CASE StopApplication
  BY <1>10 DEF StopApplication, SamplingInv
<1>11. CASE Tick
  <2> SUFFICES ASSUME wired, ~stopped PROVE SamplingInv'
    BY <1>11 DEF SamplingInv, Tick, setupVars, appVars
  <2>1. now' = now + 1 /\ now # sampleAt /\ now # sensedAt
        /\ UNCHANGED <<power, sampleAt, sensedAt, stopped, wired>>
    BY <1>11 DEF Tick, EventDue, setupVars, meterVars, appVars
  <2>2. LastSample' = LastSample /\ LastSample \in Int
    BY <1>4, <2>1 DEF SamplingInv, LastSample
  <2>3. now' <= sampleAt /\ (sensedAt # Never => now' <= sensedAt)
    BY <1>1, <1>4, <2>1, <2>2 DEF SamplingInv
  <2> QED BY <1>1, <1>4, <2>1, <2>2, <2>3 DEF SamplingInv
<1>12. CASE Transmit
  <2>1. UNCHANGED <<wired, now, appVars>>
    BY <1>12 DEF Transmit, setupVars
  <2> QED BY <1>6, <1>12, <2>1 DEF Transmit
<1>13. CASE ProcessLink \/ IdleSlot \/ NothingSent
  <2>1. UNCHANGED <<wired, now, appVars>>
    BY <1>13 DEF ProcessLink, IdleSlot, NothingSent, setupVars
  <2>2. UNCHANGED power \/ \E s : ProcessTrxStateRequest(s)
    BY <1>13 DEF ProcessLink, IdleSlot, NothingSent, meterVars
  <2> QED BY <1>5, <1>6, <2>1, <2>2 DEF ProcessTrxStateRequest
<1>14. CASE FrameOnAir
  <2>1. UNCHANGED <<wired, now, appVars>>
    BY <1>14 DEF FrameOnAir, setupVars
  <2>2. power'["sensor"] = power["sensor"] /\ power'["processor"] = power["processor"]
    BY <1>1, <1>14 DEF FrameOnAir, SetState
  <2> QED BY <1>5, <2>1, <2>2
<1>15. CASE TerminateSimulation \/ UNCHANGED vars
  BY <1>5, <1>15 DEF TerminateSimulation, vars, setupVars, meterVars
<1> QED BY <1>7, <1>8, <1>9, <1>10, <1>11, <1>12, <1>13, <1>14, <1>15 DEF Next

\* Every consumer has paid in the last superframe.
PaidLately == wired /\ ~stopped => \A c \in Consumers : now <= power[c].since + Superframe

LEMMA AllPaidLately ==
  ASSUME NEW i, IdleAfterLink(i), NEW d, DedicatedSlot(d), RadioInv(i, d), SamplingInv, TypeInv
  PROVE  PaidLately
<1> SUFFICES ASSUME wired, ~stopped
             PROVE  \A c \in {"phy", "processor", "sensor"} : now <= power[c].since + Superframe
  BY DEF PaidLately, Consumers
<1>1. /\ now \in Nat
      /\ \A c \in {"phy", "processor", "sensor"} : power[c].since \in Nat
  BY DEF TypeInv, EnergyInv, MeterInv, MeterTypes, Records, Consumers
<1>2. /\ power["processor"].state \in {"ACTIVE", "SLEEP"}
      /\ power["sensor"].state \in {"ACTIVE", "IDLE"}
  BY DEF TypeInv, EnergyInv, MeterInv, MeterTypes, StatesOf, Consumers
<1>3. now <= power["phy"].since + Superframe
  BY <1>1, RadioPaidLately
<1>4. sampleAt \in Nat /\ now <= sampleAt /\ LastSample = sampleAt - UpdatePeriod
  BY DEF SamplingInv, LastSample
<1>5. now <= power["sensor"].since + Superframe
  BY <1>1, <1>4, SlotTypes DEF SamplingInv
<1>6. now <= power["processor"].since + Superframe
  <2>1. CASE power["processor"].state = "SLEEP"
    BY <1>1, <1>4, <2>1, SlotTypes DEF SamplingInv
  <2>2. CASE power["processor"].state = "ACTIVE" /\ sensedAt = Never
    BY <1>1, <1>4, <2>2, SlotTypes DEF SamplingInv
  <2>3. CASE power["processor"].state = "ACTIVE" /\ sensedAt # Never
    BY <1>1, <1>4, <2>3, SlotTypes DEF SamplingInv
  <2> QED BY <1>2, <2>1, <2>2, <2>3
<1> QED BY <1>3, <1>5, <1>6

-----------------------------------------------------------------------------
(* The end of the battery *)

\* The energy of all categories together.
Total(f) ==
  f["ProcessorActive"] + f["ProcessorSleeping"] + f["ProcessorSleep"] + f["SensorActive"]
  + f["SensorIdle"] + f["TrxOff"] + f["RxOn"] + f["BusyRx"] + f["BusyTx"] + f["PhySleep"]

LEMMA TotalType == ASSUME NEW f \in [Categories -> Int] PROVE Total(f) \in Int
BY DEF Total, Categories

\* Only one category is added to.
LEMMA TotalOfMore ==
  ASSUME NEW f \in [Categories -> Int], NEW g \in [Categories -> Int],
         NEW k \in Categories, NEW x \in Int,
         \A j \in Categories : g[j] = IF j = k THEN f[j] + x ELSE f[j]
  PROVE  Total(g) = Total(f) + x
<1>1. \A j \in Categories : f[j] \in Int
  OBVIOUS
<1>2. /\ k = "ProcessorActive" \/ k = "ProcessorSleeping" \/ k = "ProcessorSleep"
           \/ k = "SensorActive" \/ k = "SensorIdle" \/ k = "TrxOff" \/ k = "RxOn"
           \/ k = "BusyRx" \/ k = "BusyTx" \/ k = "PhySleep"
  BY DEF Categories
<1> QED BY <1>1, <1>2 DEF Total, Categories

LEMMA TotalOfExcept ==
  ASSUME NEW f \in [Categories -> Int], NEW k \in Categories, NEW x \in Int
  PROVE  Total([f EXCEPT ![k] = @ + x]) = Total(f) + x
<1> DEFINE g == [f EXCEPT ![k] = @ + x]
<1>1. f[k] \in Int
  OBVIOUS
<1>2. g \in [Categories -> Int]
  BY <1>1
<1>3. \A j \in Categories : g[j] = IF j = k THEN f[j] + x ELSE f[j]
  BY <1>1
<1> HIDE DEF g
<1>4. Total(g) = Total(f) + x
  BY ZenonT(60), <1>2, <1>3, TotalOfMore
<1> QED BY <1>4 DEF g

\* What a consumer owes for the time until t.
OwedUntil(r, t) == r.current * (IF r.since < t THEN t - r.since ELSE 0)

\* What has been booked, and what is still owed for the time until t.
DrawnUntil(t) ==
  Total(battery.breakdown) + OwedUntil(power["phy"], t) + OwedUntil(power["processor"], t)
  + OwedUntil(power["sensor"], t)

LEMMA OwedType ==
  ASSUME NEW r \in Records, NEW t \in Nat
  PROVE  /\ OwedUntil(r, t) \in Nat
         /\ t <= r.since => OwedUntil(r, t) = 0
         /\ r.since <= t => OwedUntil(r, t) = r.current * (t - r.since)
<1>1. r.current \in Nat /\ r.since \in Nat
  BY DEF Records
<1> QED BY <1>1 DEF OwedUntil

\* The longer, the more.
LEMMA OwedGrows ==
  ASSUME NEW r \in Records, NEW t \in Nat, NEW u \in Nat, t <= u
  PROVE  OwedUntil(r, t) <= OwedUntil(r, u)
<1>1. r.current \in Nat /\ r.since \in Nat
  BY DEF Records
<1> DEFINE x == IF r.since < t THEN t - r.since ELSE 0
           y == IF r.since < u THEN u - r.since ELSE 0
<1>2. x \in Nat /\ y \in Nat /\ x <= y
  BY <1>1
<1> HIDE DEF x, y
<1>3. r.current * x <= r.current * y
  BY <1>1, <1>2
<1> QED BY <1>3 DEF OwedUntil, x, y

\* A battery is empty, and has called back, when as much is booked as it held.
BatteryInv(b) ==
  /\ b.energy = IF Total(b.breakdown) >= InitEnergy THEN 0 ELSE InitEnergy - Total(b.breakdown)
  /\ b.lifetime # Never <=> Total(b.breakdown) >= InitEnergy

\* A consumer that changes state has paid for all of its time so far; nobody has
\* paid for the time after now.
LEMMA DebitedUntil ==
  ASSUME MeterTypes, now <= MaxTime, NEW t \in 0 .. now, NEW b \in BatteryTypes, BatteryInv(b),
         NEW c \in metered \cap Consumers, NEW s, NEW tx, Metered(c, s, tx) \in Records
  PROVE  /\ Total(Debited(b, c, s).breakdown) + OwedUntil(Metered(c, s, tx), t)
              >= Total(b.breakdown) + OwedUntil(power[c], t)
         /\ BatteryInv(Debited(b, c, s))
<1> DEFINE r == power[c]
           m == Metered(c, s, tx)
           d == Debited(b, c, s)
           amount == r.current * (now - r.since)
<1>1. /\ r \in Records /\ r.current \in Nat /\ r.since \in Nat /\ r.since <= now /\ now \in Nat
      /\ r.category \in Categories
  BY DEF MeterTypes, Records
<1>2. /\ b.breakdown \in [Categories -> Int] /\ Total(b.breakdown) \in Int
      /\ b.energy \in 0 .. InitEnergy
  BY TotalType DEF BatteryTypes
<1>3. t \in Nat /\ t <= now
  BY <1>1
<1>4. CASE ReturnsEarly(c, s)
  <2>1. m = r /\ d = b
    BY <1>4 DEF Metered, Debited
  <2>2. OwedUntil(r, t) \in Nat
    BY <1>1, <1>3, OwedType
  <2> HIDE DEF m, d, r
  <2>3. Total(d.breakdown) + OwedUntil(m, t) >= Total(b.breakdown) + OwedUntil(r, t)
    BY <1>2, <2>1, <2>2
  <2> QED BY <2>1, <2>3 DEF m, d, r
<1>5. CASE ~ReturnsEarly(c, s)
  <2>1. amount = OwedUntil(r, now) /\ amount \in Nat
    BY <1>1, OwedType
  <2>2. OwedUntil(r, t) \in Nat /\ OwedUntil(r, t) <= amount
    BY <1>1, <1>3, <2>1, OwedGrows, OwedType
  <2>3. m.since = now
    BY <1>5 DEF Metered
  <2>4. OwedUntil(m, t) = 0
    <3> HIDE DEF m
    <3>1. m \in Records
      BY DEF m
    <3> QED BY <1>1, <1>3, <2>3, <3>1, OwedType
  <2>5. d = DecrementEnergy(b, r.category, amount)
    BY <1>5 DEF Debited
  <2> HIDE DEF m, r, d, amount
  <2>6. d.breakdown = [b.breakdown EXCEPT ![r.category] = @ + amount]
        /\ d.energy = (IF b.energy - amount <= 0 THEN 0 ELSE b.energy - amount)
        /\ d.lifetime = (IF b.energy - amount <= 0 /\ b.lifetime = Never THEN now ELSE b.lifetime)
    BY <2>5 DEF DecrementEnergy
  <2>7. Total(d.breakdown) = Total(b.breakdown) + amount
    <3>1. r.category \in Categories /\ amount \in Int /\ b.breakdown \in [Categories -> Int]
      BY <1>1, <1>2, <2>1
    <3> QED BY <2>6, <3>1, TotalOfExcept
  <2>8. BatteryInv(d)
    <3>1. Never \in Int /\ Never < 0 /\ InitEnergy \in Nat \ {0} /\ now # Never
      BY <1>1, PowerAssumption
    <3> QED BY <1>1, <1>2, <2>1, <2>6, <2>7, <3>1 DEF BatteryInv
  <2>9. Total(d.breakdown) + OwedUntil(m, t) >= Total(b.breakdown) + OwedUntil(r, t)
    BY <1>2, <2>1, <2>2, <2>4, <2>7
  <2> QED BY <2>8, <2>9 DEF m, d, r
<1> QED BY <1>4, <1>5

\* What has been drawn is what is booked and owed now.
LEMMA DrawnIsTotal ==
  ASSUME MeterInv, battery \in BatteryTypes, used["ProcessorSleep"] = 0
  PROVE  DrawnUntil(now) = Drawn
<1>1. MeterTypes /\ Balanced
  BY DEF MeterInv
<1>2. battery.breakdown \in [Categories -> Int] /\ used \in [Categories -> Int]
  BY <1>1 DEF MeterTypes
<1> DEFINE p == [k \in Categories |-> Owed(power["phy"], k, now)]
           q == [k \in Categories |-> Owed(power["processor"], k, now)]
           s == [k \in Categories |-> Owed(power["sensor"], k, now)]
           z == [k \in Categories |-> 0]
<1>3. ASSUME NEW c \in Consumers, NEW f,
             f = [k \in Categories |-> Owed(power[c], k, now)]
      PROVE  f \in [Categories -> Int] /\ Total(f) = OwedUntil(power[c], now)
  <2>1. power[c] \in Records /\ power[c].since <= now /\ now \in Nat
        /\ power[c].category \in Categories
    BY <1>1 DEF MeterTypes, Records
  <2> DEFINE amount == power[c].current * (now - power[c].since)
  <2>2. amount = OwedUntil(power[c], now) /\ amount \in Nat
    BY <2>1, OwedType
  <2>3. \A k \in Categories : f[k] = IF k = power[c].category THEN amount ELSE 0
    BY <1>3 DEF Owed
  <2> HIDE DEF amount
  <2>4. f \in [Categories -> Int]
    <3>1. f = [k \in Categories |-> f[k]]
      BY <1>3
    <3> QED BY <2>2, <2>3, <3>1
  <2>5. z \in [Categories -> Int] /\ \A k \in Categories : z[k] = 0
    OBVIOUS
  <2>6. Total(z) = 0
    BY <2>5 DEF Total, Categories
  <2>7. \A k \in Categories : f[k] = IF k = power[c].category THEN z[k] + amount ELSE z[k]
    BY <2>2, <2>3, <2>5
  <2>8. Total(f) = Total(z) + amount
    <3> HIDE DEF z
    <3> QED BY <2>1, <2>2, <2>4, <2>5, <2>7, TotalOfMore
  <2> QED BY <2>2, <2>4, <2>6, <2>8
<1>4. /\ p \in [Categories -> Int] /\ Total(p) = OwedUntil(power["phy"], now)
      /\ q \in [Categories -> Int] /\ Total(q) = OwedUntil(power["processor"], now)
      /\ s \in [Categories -> Int] /\ Total(s) = OwedUntil(power["sensor"], now)
  BY <1>3 DEF Consumers
<1>5. \A k \in Categories : used[k] = battery.breakdown[k] + p[k] + q[k] + s[k]
  BY <1>1 DEF Balanced
<1> DEFINE b == battery.breakdown
<1>6. b \in [Categories -> Int]
  BY <1>2
<1> HIDE DEF p, q, s, z, b
<1>7. \A k \in Categories :
        /\ b[k] \in Int /\ p[k] \in Int /\ q[k] \in Int /\ s[k] \in Int
        /\ used[k] = b[k] + p[k] + q[k] + s[k]
  BY <1>4, <1>5, <1>6 DEF b
<1>8. Total(used) = Total(b) + Total(p) + Total(q) + Total(s)
  BY ONLY <1>7 DEF Total, Categories
<1>9. Total(used) = Drawn
  BY <1>2 DEF Total, Drawn, Categories
<1> QED BY <1>4, <1>8, <1>9 DEF DrawnUntil, b

\* What emptyAt records: what was booked and owed then is at least what the battery
\* held, and the battery does not call back earlier.
EmptyInv ==
  /\ used["ProcessorSleep"] = 0
  /\ emptyAt # Never <=> Drawn >= InitEnergy
  /\ emptyAt # Never => emptyAt <= now /\ DrawnUntil(emptyAt) >= InitEnergy
  /\ battery.lifetime # Never => emptyAt # Never /\ emptyAt <= battery.lifetime

LifetimeIsTimely ==
  ~stopped /\ battery.lifetime # Never => battery.lifetime <= emptyAt + Superframe

\* A step changes the states of two consumers, or lets time pass, or neither.
TwoChange ==
  /\ wired /\ UNCHANGED <<wired, now, drawnVars>>
  /\ \E c1 \in Consumers : \E c2 \in Consumers \ {c1} :
       \E s1, s2, tx : SetStates(c1, s1, c2, s2, tx)

LEMMA StepsOfMeters ==
  ASSUME TypeInv, [Next]_vars
  PROVE  TwoChange \/ Tick \/ UNCHANGED <<now, power, battery, drawnVars>>
<1>1. /\ power \in [Consumers -> Records]
      /\ "phy" \in Consumers /\ "processor" \in Consumers \ {"phy"}
      /\ "phy" \in Consumers \ {"processor"}
      /\ "sensor" \in Consumers \ {"processor"} /\ "processor" \in Consumers \ {"sensor"}
      /\ "sensor" \in Consumers
  BY DEF TypeInv, EnergyInv, MeterInv, MeterTypes, Consumers
<1>2. CASE StartSensing \/ EndSensing
  BY <1>1, <1>2 DEF StartSensing, EndSensing, TwoChange, Started, setupVars
<1>3. ASSUME NEW s, Started, UNCHANGED <<setupVars, now, drawnVars>>, ProcessTrxStateRequest(s)
      PROVE  TwoChange
  BY <1>1, <1>3 DEF ProcessTrxStateRequest, TwoChange, Started, setupVars
<1>4. CASE ProcessLink \/ IdleSlot \/ NothingSent
  BY <1>3, <1>4 DEF ProcessLink, IdleSlot, NothingSent, meterVars
<1>5. CASE Transmit
  BY <1>1, <1>5 DEF Transmit, TwoChange, Started, setupVars
<1>6. CASE FrameOnAir
  <2>1. PICK s : SetState("phy", s)
    BY <1>6 DEF FrameOnAir
  <2>2. SetStates("phy", s, "processor", power["processor"].state, txCurrent)
    BY <1>1, <2>1, OneIsTwo
  <2> QED BY <1>1, <1>6, <2>2 DEF FrameOnAir, TwoChange, Started, setupVars
<1>7. CASE Assemble \/ StopApplication \/ TerminateSimulation \/ UNCHANGED vars
  BY <1>7 DEF Assemble, StopApplication, TerminateSimulation, vars, meterVars
<1> QED BY <1>2, <1>4, <1>5, <1>6, <1>7 DEF Next

\* Nothing that was booked or owed is lost when states change.
LEMMA ChangesKeepDrawn ==
  ASSUME TypeInv, TypeInv', BatteryInv(battery), TwoChange
  PROVE  /\ \A t \in 0 .. now :
              DrawnUntil(t) \in Int /\ DrawnUntil(t)' \in Int /\ DrawnUntil(t)' >= DrawnUntil(t)
         /\ BatteryInv(battery)'
         /\ KeepsLifetime(battery.lifetime, battery'.lifetime)
<1>1. PICK c1 \in Consumers :
        \E c2 \in Consumers \ {c1} : \E s1, s2, tx : SetStates(c1, s1, c2, s2, tx)
  BY DEF TwoChange
<1>2. PICK c2 \in Consumers \ {c1} : \E s1, s2, tx : SetStates(c1, s1, c2, s2, tx)
  BY <1>1
<1>3. PICK s1, s2, tx : SetStates(c1, s1, c2, s2, tx)
  BY <1>2
<1>4. /\ MeterTypes /\ now <= MaxTime /\ battery \in BatteryTypes /\ metered = Consumers
      /\ power \in [Consumers -> Records] /\ power' \in [Consumers -> Records] /\ now \in Nat
      /\ battery' \in BatteryTypes
  BY WiredMetered DEF TypeInv, EnergyInv, MeterInv, MeterTypes, TimerTypes, TwoChange
<1> DEFINE b == Debited(battery, c1, s1)
           m1 == Metered(c1, s1, tx)
           m2 == Metered(c2, s2, tx)
<1>5. power' = [power EXCEPT ![c1] = m1, ![c2] = m2] /\ battery' = Debited(b, c2, s2)
  BY <1>3 DEF SetStates
<1> HIDE DEF m1, m2
<1>6. /\ power'[c1] = m1 /\ power'[c2] = m2
      /\ \A c \in Consumers \ {c1, c2} : power'[c] = power[c]
  BY <1>4, <1>5
<1>7. m1 \in Records /\ m2 \in Records
  BY <1>4, <1>6
<1>8. b \in BatteryTypes
  BY <1>4, DebitedTypes
<1>9. ASSUME NEW t \in 0 .. now
      PROVE  /\ Total(b.breakdown) + OwedUntil(m1, t)
                  >= Total(battery.breakdown) + OwedUntil(power[c1], t)
             /\ BatteryInv(b)
  BY <1>4, <1>7, DebitedUntil DEF m1
<1>10. BatteryInv(b)
  BY <1>4, <1>9
<1>11. ASSUME NEW t \in 0 .. now
       PROVE  /\ Total(Debited(b, c2, s2).breakdown) + OwedUntil(m2, t)
                   >= Total(b.breakdown) + OwedUntil(power[c2], t)
              /\ BatteryInv(Debited(b, c2, s2))
  <2> HIDE DEF b
  <2> QED BY <1>4, <1>7, <1>8, <1>10, DebitedUntil DEF m2
<1> HIDE DEF b
<1>12. BatteryInv(battery)'
  <2>1. BatteryInv(battery')
    BY <1>4, <1>5, <1>11
  <2> QED BY <2>1 DEF BatteryInv
<1>13. ASSUME NEW t \in 0 .. now
       PROVE  DrawnUntil(t) \in Int /\ DrawnUntil(t)' \in Int /\ DrawnUntil(t)' >= DrawnUntil(t)
  <2>1. t \in Nat
    BY <1>4
  <2> DEFINE old == [c \in Consumers |-> OwedUntil(power[c], t)]
             new == [c \in Consumers |-> OwedUntil(power'[c], t)]
  <2>2. old \in [Consumers -> Int] /\ new \in [Consumers -> Int]
    <3>1. \A r \in Records : OwedUntil(r, t) \in Int
      BY <2>1, OwedType
    <3> QED BY <1>4, <3>1
  <2>3. \A c \in Consumers \ {c1, c2} : new[c] = old[c]
    BY <1>6
  <2>4. /\ old[c1] = OwedUntil(power[c1], t) /\ old[c2] = OwedUntil(power[c2], t)
        /\ new[c1] = OwedUntil(m1, t) /\ new[c2] = OwedUntil(m2, t)
    BY <1>6
  <2>5. \A c \in {"phy", "processor", "sensor"} :
          old[c] = OwedUntil(power[c], t) /\ new[c] = OwedUntil(power'[c], t)
    BY DEF Consumers
  <2> DEFINE x == Total(battery.breakdown)
             y == Total(b.breakdown)
             z == Total(battery'.breakdown)
  <2>6. x \in Int /\ y \in Int /\ z \in Int
    BY <1>4, <1>8, TotalType DEF BatteryTypes
  <2> HIDE DEF old, new, x, y, z
  <2>7. y + new[c1] >= x + old[c1] /\ z + new[c2] >= y + old[c2]
    BY <1>5, <1>9, <1>11, <2>4 DEF x, y, z
  <2> DEFINE w == z + new[c1] + new[c2] - old[c1] - old[c2]
  <2>8. w \in Int /\ w >= x /\ z + new[c1] + new[c2] = w + old[c1] + old[c2]
    BY <2>2, <2>6, <2>7
  <2> HIDE DEF w
  <2>9. z + new["phy"] + new["processor"] + new["sensor"]
          = w + old["phy"] + old["processor"] + old["sensor"]
    BY <2>2, <2>3, <2>6, <2>8, SumAfterPayment
  <2>10. \A c \in {"phy", "processor", "sensor"} : old[c] \in Int /\ new[c] \in Int
    BY <2>2 DEF Consumers
  <2>11. z + new["phy"] + new["processor"] + new["sensor"]
           >= x + old["phy"] + old["processor"] + old["sensor"]
    BY <2>6, <2>8, <2>9, <2>10
  <2>12. DrawnUntil(t) = x + old["phy"] + old["processor"] + old["sensor"]
    BY <2>5 DEF DrawnUntil, x
  <2>13. DrawnUntil(t)' = z + new["phy"] + new["processor"] + new["sensor"]
    BY <2>5 DEF DrawnUntil, OwedUntil, Total, z
  <2> QED BY <2>6, <2>10, <2>11, <2>12, <2>13
<1>14. KeepsLifetime(battery.lifetime, battery'.lifetime)
  <2>1. battery.lifetime \in Lifetimes
    BY <1>4, PowerAssumption DEF BatteryTypes, Lifetimes
  <2> QED BY <1>4, <1>3, <2>1, SetStatesLifetime
<1> QED BY <1>12, <1>13, <1>14

\* A tick books nothing, and adds what everybody draws.
LEMMA TickDraws ==
  ASSUME TypeInv, TypeInv', EmptyInv, Tick
  PROVE  used'["ProcessorSleep"] = 0 /\ Drawn' >= Drawn
<1>1. /\ MeterTypes /\ Cached /\ used \in [Categories -> Nat] /\ used' \in [Categories -> Nat]
      /\ {"phy", "processor", "sensor"} = Consumers
  BY DEF TypeInv, EnergyInv, MeterInv, HistoryTypes, Consumers
<1>2. /\ power["phy"].state \in TrxStates /\ power["processor"].state \in {"ACTIVE", "SLEEP"}
      /\ power["sensor"].state \in {"ACTIVE", "IDLE"}
  BY <1>1 DEF MeterTypes, StatesOf
<1>3. \A c \in {"phy", "processor", "sensor"}, k \in Categories : DrawnIn(c, k) \in Nat
  <2>1. \A c \in {"phy", "processor", "sensor"} : Draw(c) \in Nat
    BY <1>1 DEF MeterTypes, Cached, Records
  <2> QED BY <2>1 DEF DrawnIn
<1>4. \A k \in Categories :
        used'[k] = used[k] + DrawnIn("phy", k) + DrawnIn("processor", k) + DrawnIn("sensor", k)
  BY DEF Tick
<1>5. "ProcessorSleep" \in Categories /\ used["ProcessorSleep"] = 0
  BY DEF EmptyInv, Categories
<1>6. DrawnIn("phy", "ProcessorSleep") = 0
  <2>1. DrawCategory("phy") # "ProcessorSleep"
    BY <1>2 DEF DrawCategory, Category, Constructed, TrxStates
  <2> QED BY <2>1 DEF DrawnIn
<1>7. DrawnIn("processor", "ProcessorSleep") = 0
  <2>1. CASE "processor" \in entered
    <3>1. DrawCategory("processor") # "ProcessorSleep"
      BY <2>1 DEF DrawCategory, Category
    <3> QED BY <3>1 DEF DrawnIn
  <2>2. CASE "processor" \notin entered
    BY <2>2 DEF DrawnIn, Draw, Constructed
  <2> QED BY <2>1, <2>2
<1>8. DrawnIn("sensor", "ProcessorSleep") = 0
  <2>1. DrawCategory("sensor") # "ProcessorSleep"
    BY DEF DrawCategory, Category, Constructed
  <2> QED BY <2>1 DEF DrawnIn
<1>9. used'["ProcessorSleep"] = 0
  BY <1>4, <1>5, <1>6, <1>7, <1>8
<1>10. \A k \in Categories : used[k] \in Nat /\ used'[k] \in Nat /\ used'[k] >= used[k]
  <2> SUFFICES ASSUME NEW k \in Categories PROVE used'[k] >= used[k]
    BY <1>1
  <2>1. used[k] \in Nat /\ DrawnIn("phy", k) \in Nat /\ DrawnIn("processor", k) \in Nat
        /\ DrawnIn("sensor", k) \in Nat
    BY <1>1, <1>3
  <2> QED BY <1>4, <2>1
<1>11. Drawn' >= Drawn
  BY ONLY <1>10 DEF Drawn, Categories
<1> QED BY <1>9, <1>11

LEMMA DrawnType == HistoryTypes => Drawn \in Nat
BY DEF HistoryTypes, Drawn, Categories

LEMMA DrawnNow == TypeInv /\ used["ProcessorSleep"] = 0 => DrawnUntil(now) = Drawn
BY DrawnIsTotal DEF TypeInv, EnergyInv

\* What is booked is drawn.
LEMMA BookedIsDrawn ==
  TypeInv => /\ Total(battery.breakdown) \in Int /\ DrawnUntil(now) \in Int
             /\ DrawnUntil(now) >= Total(battery.breakdown)
<1> SUFFICES ASSUME TypeInv
             PROVE  /\ Total(battery.breakdown) \in Int /\ DrawnUntil(now) \in Int
                    /\ DrawnUntil(now) >= Total(battery.breakdown)
  OBVIOUS
<1>1. /\ battery.breakdown \in [Categories -> Int] /\ power \in [Consumers -> Records]
      /\ now \in Nat /\ {"phy", "processor", "sensor"} = Consumers
  BY DEF TypeInv, EnergyInv, MeterInv, MeterTypes, Consumers
<1>2. Total(battery.breakdown) \in Int
  BY <1>1, TotalType
<1>3. \A c \in {"phy", "processor", "sensor"} : OwedUntil(power[c], now) \in Nat
  BY <1>1, OwedType
<1> HIDE DEF OwedUntil, Total
<1> QED BY <1>2, <1>3 DEF DrawnUntil

LEMMA EmptyInvNext ==
  ASSUME EmptyInv, BatteryInv(battery), TypeInv, TypeInv', [Next]_vars
  PROVE  EmptyInv' /\ BatteryInv(battery)'
<1>1. /\ Never \in Int /\ Never < 0 /\ InitEnergy \in Nat /\ now \in Nat /\ now' \in Nat
      /\ emptyAt \in Nat \cup {Never}
      /\ HistoryTypes /\ HistoryTypes' /\ Drawn \in Nat
  BY PowerAssumption, DrawnType DEF TypeInv, TimerTypes, HistoryTypes
<1>2. Drawn' \in Nat
  <2>1. (HistoryTypes => Drawn \in Nat)'
    BY DrawnType, PTL
  <2> QED BY <1>1, <2>1
<1>3. used'["ProcessorSleep"] = 0 => DrawnUntil(now)' = Drawn'
  <2>1. (TypeInv /\ used["ProcessorSleep"] = 0 => DrawnUntil(now) = Drawn)'
    BY DrawnNow, PTL
  <2> QED BY <2>1
<1>4. CASE TwoChange
  <2>1. /\ UNCHANGED <<now, used, emptyAt>> /\ Drawn' = Drawn
        /\ \A t \in 0 .. now :
             DrawnUntil(t) \in Int /\ DrawnUntil(t)' \in Int /\ DrawnUntil(t)' >= DrawnUntil(t)
        /\ BatteryInv(battery)'
        /\ KeepsLifetime(battery.lifetime, battery'.lifetime)
    BY <1>4, ChangesKeepDrawn DEF TwoChange, drawnVars, Drawn
  <2>2. ASSUME emptyAt # Never PROVE DrawnUntil(emptyAt)' >= InitEnergy
    <3>1. emptyAt \in 0 .. now /\ DrawnUntil(emptyAt) >= InitEnergy
      BY <1>1, <2>2 DEF EmptyInv
    <3>2. PICK t \in 0 .. now : t = emptyAt
      BY <3>1
    <3>3. /\ DrawnUntil(t)' >= DrawnUntil(t) /\ DrawnUntil(t) >= InitEnergy
          /\ DrawnUntil(t) \in Int /\ DrawnUntil(t)' \in Int
      BY <2>1, <3>1, <3>2
    <3>4. DrawnUntil(emptyAt)' = DrawnUntil(t)'
      BY <2>1, <3>2 DEF DrawnUntil, OwedUntil
    <3> QED BY <1>1, <3>3, <3>4
  <2>3. ASSUME battery'.lifetime # Never PROVE emptyAt # Never /\ emptyAt <= battery'.lifetime
    <3>1. CASE battery.lifetime # Never
      BY <2>1, <3>1 DEF EmptyInv, KeepsLifetime
    <3>2. CASE battery.lifetime = Never
      <4>1. battery'.lifetime = now
        BY <2>1, <2>3, <3>2 DEF KeepsLifetime
      <4>2. DrawnUntil(now)' = Drawn
        BY <1>3, <2>1 DEF EmptyInv
      <4>3. DrawnUntil(now)' >= Total(battery'.breakdown) /\ Total(battery'.breakdown) \in Int
        <5>1. (TypeInv => /\ Total(battery.breakdown) \in Int /\ DrawnUntil(now) \in Int
                          /\ DrawnUntil(now) >= Total(battery.breakdown))'
          BY BookedIsDrawn, PTL
        <5> QED BY <5>1 DEF Total
      <4>4. Total(battery'.breakdown) >= InitEnergy
        BY <2>1, <2>3 DEF BatteryInv
      <4>5. emptyAt # Never
        BY <1>1, <4>2, <4>3, <4>4 DEF EmptyInv
      <4> QED BY <4>1, <4>5 DEF EmptyInv
    <3> QED BY <3>1, <3>2
  <2> QED BY <2>1, <2>2, <2>3 DEF EmptyInv
<1>5. CASE Tick
  <2>1. /\ now' = now + 1 /\ UNCHANGED <<power, battery>>
        /\ emptyAt' = IF emptyAt = Never /\ Drawn' >= InitEnergy THEN now' ELSE emptyAt
    BY <1>5 DEF Tick, meterVars
  <2>2. used'["ProcessorSleep"] = 0 /\ Drawn' >= Drawn
    BY <1>5, TickDraws
  <2>3. \A t : DrawnUntil(t)' = DrawnUntil(t)
    BY <2>1 DEF DrawnUntil, OwedUntil, Total
  <2>4. emptyAt' # Never <=> Drawn' >= InitEnergy
    BY <1>1, <1>2, <2>1, <2>2 DEF EmptyInv
  <2>5. ASSUME emptyAt' # Never PROVE emptyAt' <= now' /\ DrawnUntil(emptyAt)' >= InitEnergy
    <3>1. CASE emptyAt # Never
      <4>1. emptyAt' = emptyAt /\ DrawnUntil(emptyAt)' = DrawnUntil(emptyAt)
        BY <2>1, <3>1 DEF DrawnUntil, OwedUntil, Total
      <4> QED BY <1>1, <2>1, <3>1, <4>1 DEF EmptyInv
    <3>2. CASE emptyAt = Never
      <4>1. emptyAt' = now' /\ Drawn' >= InitEnergy
        BY <2>1, <2>5, <3>2
      <4>2. DrawnUntil(emptyAt)' = DrawnUntil(now)'
        BY <4>1 DEF DrawnUntil, OwedUntil
      <4> QED BY <1>1, <1>3, <2>2, <4>1, <4>2
    <3> QED BY <3>1, <3>2
  <2>6. ASSUME battery'.lifetime # Never PROVE emptyAt' # Never /\ emptyAt' <= battery'.lifetime
    BY <2>1, <2>6 DEF EmptyInv
  <2>7. BatteryInv(battery)'
    BY <2>1 DEF BatteryInv
  <2> QED BY <2>2, <2>4, <2>5, <2>6, <2>7 DEF EmptyInv
<1>6. CASE UNCHANGED <<now, power, battery, drawnVars>>
  <2>1. Drawn' = Drawn /\ DrawnUntil(emptyAt)' = DrawnUntil(emptyAt)
    BY <1>6 DEF Drawn, DrawnUntil, OwedUntil, Total, drawnVars
  <2> QED BY <1>6, <2>1 DEF EmptyInv, BatteryInv, drawnVars
<1> QED BY <1>4, <1>5, <1>6, StepsOfMeters

\* A battery that has not called back when it was empty will be debited within a
\* superframe of that.
LEMMA NotYetNoticed ==
  ASSUME EmptyInv, BatteryInv(battery), TypeInv, PaidLately, wired, ~stopped,
         battery.lifetime = Never, emptyAt # Never
  PROVE  now <= emptyAt + Superframe
<1>1. /\ emptyAt \in Nat /\ now \in Nat /\ InitEnergy \in Nat
      /\ Total(battery.breakdown) \in Int
      /\ \A c \in {"phy", "processor", "sensor"} : power[c] \in Records /\ power[c].since \in Nat
  <2>1. battery.breakdown \in [Categories -> Int] /\ power \in [Consumers -> Records]
    BY DEF TypeInv, EnergyInv, MeterInv, MeterTypes
  <2>2. \A c \in {"phy", "processor", "sensor"} : power[c] \in Records
    BY <2>1 DEF Consumers
  <2> QED BY <2>1, <2>2, TotalType, PowerAssumption
          DEF TypeInv, TimerTypes, HistoryTypes, Records
<1>2. Total(battery.breakdown) < InitEnergy
  BY <1>1 DEF BatteryInv
<1>3. DrawnUntil(emptyAt) >= InitEnergy
  BY DEF EmptyInv
<1>4. PICK c \in {"phy", "processor", "sensor"} : OwedUntil(power[c], emptyAt) # 0
  <2>1. \A c \in {"phy", "processor", "sensor"} : OwedUntil(power[c], emptyAt) \in Nat
    BY <1>1, OwedType
  <2> QED BY <1>1, <1>2, <1>3, <2>1 DEF DrawnUntil
<1>5. power[c].since < emptyAt
  BY <1>1, <1>4, OwedType
<1>6. now <= power[c].since + Superframe
  BY DEF PaidLately, Consumers
<1> QED BY <1>1, <1>5, <1>6, SlotTypes

LEMMA TimelyNext ==
  ASSUME LifetimeIsTimely, EmptyInv, EmptyInv', BatteryInv(battery), TypeInv, TypeInv', PaidLately,
         [Next]_vars
  PROVE  LifetimeIsTimely'
<1> SUFFICES ASSUME ~stopped', battery'.lifetime # Never
             PROVE  battery'.lifetime <= emptyAt' + Superframe
  BY SlotTypes DEF LifetimeIsTimely
<1>1. ~stopped
  BY DEF Next, vars, appVars, Assemble, StartSensing, EndSensing, StopApplication, ProcessLink,
     IdleSlot, Transmit, NothingSent, FrameOnAir, TerminateSimulation, Tick
<1>2. CASE TwoChange
  <2>1. KeepsLifetime(battery.lifetime, battery'.lifetime) /\ wired /\ emptyAt' = emptyAt
    BY <1>2, ChangesKeepDrawn DEF TwoChange, drawnVars
  <2>2. CASE battery.lifetime # Never
    BY <1>1, <2>1, <2>2 DEF LifetimeIsTimely, KeepsLifetime
  <2>3. CASE battery.lifetime = Never
    <3>1. battery'.lifetime = now /\ emptyAt # Never
      BY <2>1, <2>3 DEF KeepsLifetime, EmptyInv
    <3> QED BY <1>1, <2>1, <2>3, <3>1, NotYetNoticed
  <2> QED BY <2>2, <2>3
<1>3. CASE Tick
  <2>1. battery' = battery /\ emptyAt # Never
    BY <1>3 DEF Tick, meterVars, EmptyInv
  <2>2. emptyAt' = emptyAt
    BY <1>3, <2>1 DEF Tick
  <2> QED BY <1>1, <2>1, <2>2 DEF LifetimeIsTimely
<1>4. CASE UNCHANGED <<now, power, battery, drawnVars>>
  BY <1>1, <1>4 DEF LifetimeIsTimely, drawnVars
<1> QED BY <1>2, <1>3, <1>4, StepsOfMeters

\* The inductive invariant: the battery is looked at when a consumer changes state,
\* all of them do so in every superframe, and nothing drawn is forgotten.
DepletionInv(idle, dedicated) ==
  /\ TypeInv /\ UnwiredInv /\ SamplingInv /\ RadioInv(idle, dedicated)
  /\ BatteryInv(battery) /\ EmptyInv /\ LifetimeIsTimely

LEMMA DepletionInit ==
  ASSUME NEW i, NEW d, PowerInit PROVE DepletionInv(i, d)
<1>1. TypeInv
  BY TypeInit
<1>2. ~wired /\ now = 0 /\ ~stopped /\ sensedAt = Never
      /\ power = [c \in Consumers |-> Constructed(c)]
      /\ emptyAt = Never /\ battery.lifetime = Never /\ battery.energy = InitEnergy
      /\ battery.breakdown = [k \in Categories |-> 0] /\ used = [k \in Categories |-> 0]
  BY DEF PowerInit, SetupInit
<1>3. UnwiredInv /\ SamplingInv /\ LifetimeIsTimely
  BY <1>2 DEF UnwiredInv, SamplingInv, LifetimeIsTimely
<1>4. power["phy"].state = "TRX_OFF"
  BY <1>2 DEF Constructed, Consumers
<1>5. RadioInv(i, d)
  BY <1>2, <1>4 DEF RadioInv
<1>6. Total(battery.breakdown) = 0 /\ Drawn = 0 /\ used["ProcessorSleep"] = 0
  BY <1>2 DEF Total, Drawn, Categories
<1>7. InitEnergy \in Nat \ {0}
  BY PowerAssumption
<1>8. BatteryInv(battery) /\ EmptyInv
  BY <1>2, <1>6, <1>7 DEF BatteryInv, EmptyInv
<1> QED BY <1>1, <1>3, <1>5, <1>8 DEF DepletionInv

LEMMA DepletionInvNext ==
  ASSUME NEW i, IdleAfterLink(i), NEW d, DedicatedSlot(d), DepletionInv(i, d), [Next]_vars
  PROVE  DepletionInv(i, d)'
<1> USE DEF DepletionInv
<1>1. TypeInv'
  BY TypeInvNext
<1>2. UnwiredInv'
  BY UnwiredInvNext DEF TypeInv, EnergyInv
<1>3. SamplingInv'
  BY SamplingInvNext
<1>4. RadioInv(i, d)'
  BY RadioInvNext
<1>5. EmptyInv' /\ BatteryInv(battery)'
  BY <1>1, EmptyInvNext
<1>6. LifetimeIsTimely'
  BY <1>1, <1>5, AllPaidLately, TimelyNext
<1> QED BY <1>1, <1>2, <1>3, <1>4, <1>5, <1>6

\* The battery is looked at only when somebody changes state, but a node whose
\* superframe has an idle slot after one with a link, and a link that is not shared,
\* calls back within a superframe of the moment its energy is used up, as long as
\* its application samples, and never before (DecrementEnergy, SetState of the
\* processor, the sensor and the PHY, ProcessLink).
THEOREM DepletionIsNoticed ==
  ASSUME \E n \in Slots : IdleAfterLink(n), \E n \in Slots : DedicatedSlot(n)
  PROVE  PowerSpec => []DepletionNoticed
<1>1. PICK i \in Slots : IdleAfterLink(i)
  OBVIOUS
<1>2. PICK d \in Slots : DedicatedSlot(d)
  OBVIOUS
<1>3. PowerInit => DepletionInv(i, d)
  BY DepletionInit
<1>4. DepletionInv(i, d) /\ [Next]_vars => DepletionInv(i, d)'
  BY <1>1, <1>2, DepletionInvNext
<1>5. DepletionInv(i, d) => DepletionNoticed
  <2> SUFFICES ASSUME DepletionInv(i, d) PROVE DepletionNoticed
    OBVIOUS
  <2>1. EmptyInv /\ LifetimeIsTimely /\ BatteryInv(battery) /\ TypeInv /\ UnwiredInv /\ SamplingInv
        /\ RadioInv(i, d)
    BY DEF DepletionInv
  <2>2. PaidLately
    BY <1>1, <1>2, <2>1, AllPaidLately
  <2>3. /\ emptyAt \in Nat \cup {Never} /\ now \in Nat
        /\ Superframe \in Nat
    BY <2>1, SlotTypes, PowerAssumption DEF TypeInv, TimerTypes, HistoryTypes
  <2>4. ASSUME ~stopped, emptyAt # Never, now > emptyAt + Superframe
        PROVE  battery.lifetime # Never
    <3>1. wired
      BY <2>1, <2>3, <2>4 DEF UnwiredInv
    <3> QED BY <2>1, <2>2, <2>3, <2>4, <3>1, NotYetNoticed
  <2> QED BY <2>1, <2>4 DEF DepletionNoticed, EmptyInv, LifetimeIsTimely
<1> QED BY <1>3, <1>4, <1>5, PTL DEF PowerSpec
=============================================================================
