# Verification of the ns-3 ISA100.11a model

This directory holds TLA+ modules that model the ISA100.11a simulation of this
repository (`src/model`, `src/helper`, `src/examples`), TLC configurations that
check them on small instances, and TLAPS proofs of theorems about them.

The program is a discrete-event simulation in one thread. There are no data
races: the concurrency is the order in which the simulator runs scheduled events
(slot boundaries, frame ends, channel assessments, backoffs, samples, arrivals of
signals from other nodes) and the long synchronous chains of callbacks that each
event runs through PHY, data link layer (DL) and application. One event, with its
whole chain, is one action here. Nothing is persisted and no node restarts, so
there is no crash model: the faults are lost, colliding and late frames, an empty
battery, requests refused, and events that meet each other.

## 1. Inventory

| component | state | operations | interacts with |
|---|---|---|---|
| **PHY** `model/zigbee-phy.*` | transceiver state, pending state, packet sent, packet received and whether it is corrupt, count of signals, received power, channel, attributes; events `EndTx`, `EndRx`, `EndCca`, `EndEd` | `PlmeSetTRXStateRequest`, `PdDataRequest`, `PlmeCcaRequest`, `PlmeEdRequest`, `PlmeSetAttributeRequest`, `PlmeGetAttributeRequest`, `StartRx` and the ends | called by the DL; confirms by callback, inside the call or later; hears the spectrum channel; debits the battery |
| **DL** `model/isa100-dl.*` | transmit queue with attempts left, backoff and ARQ backoff counters, position in the superframe and in the hopping pattern, next `ProcessLink`, transmit powers | `ProcessLink`, `ChannelHop`, the confirm callbacks of the PHY, `ProcessPdDataIndication`, `DlDataRequest`, `FlushTxQueue` | PHY below, application above, routing, processor |
| **Routing** `model/isa100-routing.*` | table of source routes | prepare the header of a new packet, process a received one | called by the DL, reads and writes the DL header |
| **DL header, trailer** | addresses, DMIC, remaining source route, transmit power | serialise, get the next hop | carried by packets |
| **TDMA optimizers** `model/*-tdma-optimizer*` | link powers, flow matrix | `SetupOptimization`, `SolveTdma` | called by the scheduler; two of them call CPLEX |
| **TDMA scheduler** `helper/isa100-helper-scheduling.cc` | link powers, flow matrix, round queues, schedule and source route of every node | `CalculateTxPowers`, `CreateOptimizedTdmaSchedule`, `ScheduleAndRouteTdma` | calls an optimizer; installs schedules and powers in the DLs and routes in Routing |
| **Applications** `model/isa100-application.*` | sampling and packet timers | generate packets, sample the sensor, receive, stop | DL, sensor, processor |
| **Processor, sensor, battery, current model** | power state, energy left | set state, debit energy, depletion | DL, PHY, application |
| **Net device, helpers** | objects, attributes and callbacks; allocator of positions | install devices and their parts, place nodes | everything, before the simulation starts |
| **Channel, propagation, error models** | bands, fading | signal power, chunk error rate | PHY |
| **Examples** | networks, lifetime | set up a network and run it until a battery is empty | everything |
| **Radio energy model, spectrum loss model** | | not built by `wscript` | |

Hard behaviours, and what makes each component correct:

* *PHY*: a request that meets a busy transceiver waits, and is applied by the end
  of the frame. Every busy state must have an end event; the pending request must
  meet one; the signal counter must not wrap; a channel change may come at any
  point; the power of a frame must count exactly while it is received.
* *DL*: `PdDataConfirm` acts on the front of the queue without knowing which packet
  the PHY sent; acknowledgements are pushed to the front and acknowledged packets
  erased from the middle while a frame is on the air. The packet on the air, the
  queue, the slot and the transceiver must stay in step; the upper layer must get
  one confirm for each packet it submitted, in order; every packet must leave in the
  end; the processor must sleep exactly when the radio does.
* *Network*: every node counts slots, links and hops for itself. Two ends of a link
  must meet; a header must stay on its route; powers that are refused by the PHY or
  learned from packets must still reach; a packet must arrive at most once, at its
  destination, and before the next sample.
* *Scheduler*: slots are given out backwards, in rounds over a queue whose elements
  are erased, skipped and added again. Every slot of a flow must be given out once,
  both ends of a link must agree on it, a node must receive before it transmits,
  every route must be one the schedule can carry, and the rounds must end.
* *Optimizers*: flows must be conservative, reach the sink by the fewest hops, and
  fit the slots that are made of them.
* *Power*: the processor has two masters; each consumer pays when it changes state;
  the battery is looked at on changes only and calls back again and again once it is
  empty; the parts of a node are connected in any order.
* *Placement*: fading is drawn for positions and looked up under a text made of them.

`PROJECT.json` lists every hazard at its line with the properties that watch it.

## 2. Modules

| module | models | uses |
|---|---|---|
| `ZigbeePhy` | the data and transceiver services of the PHY, alone under a MAC that makes any call at any time (`PhySpec`) | |
| `PhyManagement` | energy detection and attribute requests on top of it (`ManagedSpec`) | EXTENDS `ZigbeePhy` |
| `Isa100Dl` | one node: the DL over the PHY, with the upper layer and the medium as environment | INSTANCE of `ZigbeePhy` and `DlService` |
| `DlService` | what the DL promises its upper layer: a FIFO confirmation service | |
| `Isa100DlDocs` | a sentence of the manual about the DL that the code contradicts | EXTENDS `Isa100Dl` |
| `Loops` | an ascending list of a set of numbers, and a step repeated: the loops of optimizer, scheduler and routing | |
| `MinHopOptimizer` | the minimum hop optimizer | EXTENDS `Loops` |
| `LpOptimizers` | constraints and results of the two linear programs | |
| `TdmaScheduler` | schedules and source routes from a flow matrix | |
| `OptimizedTdma` | `CreateOptimizedTdmaSchedule`: an optimizer, then the scheduler | EXTENDS `TdmaScheduler`, INSTANCE of the optimizers |
| `DlHeader`, `SourceRouting` | the header as it is serialised; routes as text, new and forwarded packets | |
| `Spectrum`, `TxPower` | bands and received power; the power a link needs, is given and gets | |
| `Isa100Network` | the nodes of a network together, without acknowledgements | EXTENDS the four above |
| `Delivery` | what a network promises its applications | |
| `ExampleNetworks` | the networks three examples set up by hand | EXTENDS `SourceRouting` |
| `OptimizedNetwork` | from the optimizer to the packets; refines `Delivery` | EXTENDS `OptimizedTdma`, `Isa100Network`, INSTANCE of `Delivery` |
| `NodeSetup` | how a node is put together by the helper | |
| `NodePower` | application, sensor, processor, battery and the energy of the transceiver | EXTENDS `NodeSetup` |
| `FieldLayout` | placement, fading and transmit powers of a field | |
| `MCZigbeePhy`, `MCIsa100Dl`, `MCOptimizedTdma`, `MCOptimizedNetwork`, `MCNodePower`, `MCFieldLayout` | the instances TLC checks | |
| `ZigbeePhyProofs`, `Isa100DlProofs`, `NodePowerProofs`, `FieldLayoutProofs` | theorems about `PhyManagement`, `Isa100Dl`, `NodePower`, `FieldLayout` | |
| `LoopProofs`, `TdmaProofs` | lemmas about `Loops`; theorems about `OptimizedTdma` | |
| `Isa100NetworkProofs`, `OptimizedNetworkProofs` | any network that is well formed; the networks that optimizer and scheduler set up | EXTEND the two above |

Definitions have the names of the functions they model; `map` in `PROJECT.json`
gives the lines of each. Definitions introduced as *Mutant of X* are
never used by a specification: each is X with a plausible bug, and putting it in
the place of X makes a property fail.

### ZigbeePhy, PhyManagement

`trxState`, `trxStatePending`, `currentTxPacket`, `currentRxPacket`, `rxIsCorrupt`,
`rxTotalNum` and `phyCurrentChannel` are the members of those names; `endCca` and
`signalEnds` count scheduled `EndCca` and `DecrementChannelRxSignals` events, which
the code never cancels. A decrement runs because it is scheduled, never because the
counter allows it: that it does not wrap is `SignalsAreCounted`. (The one of the
frame being received comes with its `EndRx`, at the same instant.) An `EndTx`
is scheduled exactly while `currentTxPacket` is not null, since the code sets the
packet when it schedules the event and forgets it when it cancels it. Signal
powers and random errors become a choice: whether a signal is strong enough to be
received, corrupts the one being received, or makes the channel busy.

A request that meets a frame waits in `trxStatePending`. "Set pending state and let
EndTx() take care of the state change" (`zigbee-phy.cc:918`) does not hold after a
channel change: `AbortAndRetune` cancels `EndTx` and leaves BUSY_TX, in which every
later request waits for ever. `Stranded` is that state, `OnlyHopsStrand` says
what leads to it and that nothing leads out of it, and `PendingIsApplied` that in every
other case the request takes effect. On one channel no request waits in vain
(`PendingMeetsFrameEnd`), as is proved of the PHY and of the DL.

`PhyManagement` adds `m_rxTotalPower`, told by where it comes from, energy detections
under way, and the attributes with the status of the last request. What the model
shows of the code: `m_rxTotalPower` is constructed as 4, the transmit power in dBm, in
a variable that is in watts (`zigbee-phy.cc:187`), so that until the first reception an
assessment by energy is always busy and a detection gives 255; afterwards both
read only noise, since a signal counts just while the transceiver is BUSY_RX. Only
the first of the 32 masks of supported channels is ever set, so the mask restricts
nothing, and an unsupported channel (27 and above) is refused but tuned to. Asleep, a
detection or an assessment is confirmed twice.

### Isa100Dl

Time is counted in slots. `slotsLeft` is the number of slot boundaries until
`m_nextProcessLink`; `ProcessLink` and `IdleSlot` are the boundaries, and between
two of them the events of a slot happen in any order their delays allow. The guard
`SlotOver` says which events must have happened before a boundary:
with `Aligned` neighbours, frames and assessments end within their slot, as the
slot length of the examples provides for; without it frames may run into the next
slot and the hop of `ProcessLink` may abort them. `Aligned` is an assumption about the
network, not something the code sees to: that a hop meets no frame is assumed with it,
and what happens otherwise is shown by `phy`, where channels change at any time. The
runs of the DL have aligned neighbours. Of what is proved, the types and, without acknowledgements, the queue and
the service hold of both; the rest needs aligned neighbours, as section 4 says.

The chain of callbacks is kept whole. `ProcessTrxStateRequest` calls the PHY,
whose confirm calls `PlmeSetTrxStateConfirm`, which decides about the front of the
queue, sends it (`PdDataRequest`) or drops it, and confirms to the upper layer:
these are the operators `Attempted`, `NothingToSend`, `InArqBackoff`,
`AttemptsExhausted`, `Refused` and `Transmitted`, one of which is the outcome of every
request that turns the transmitter on. `EndTx` includes `PdDataConfirm`, the
retries, and the request for the next state made from inside the confirm.

A received frame is one of four kinds, which stand for the address and routing
tests of `ProcessPdDataIndication`: data that ends here, data to relay, data for
others, an acknowledgement. `Packets` are packet *objects*: a packet's address is
its DMIC, and may be used again once nobody holds the packet (`InUse`).
`acksOwed` are the packets whose acknowledgement may still arrive.
`fault` is set where the code takes the front of an empty deque.

### TdmaScheduler, MinHopOptimizer, LpOptimizers, OptimizedTdma

`stage` is the loop under way, or the result returned. An action is an iteration
of a loop: `PopulateNodeSchedule` schedules one link, `VisitNode` is an
iteration of the inner loop with its three branches, `NextRound` the outer loop,
`CalculateSourceRoute` an iteration over the slots. A link that has been scheduled
is marked with -1 in `packetFlows`, as in the code.

`MinHopOptimizer` replaces the call stack by `pending`, the calls still to be made in
order; a step is one call. Powers become the relation `inReach`, links whose
power is allowed, which is symmetric because the helper's propagation is. The second
half of the code's test, an equal hop count with less power, never admits a node
that has not been processed, so `curTxPwr` does not matter.

`LpOptimizers` states the constraints the Goldsmith and convex integer programs hand
to CPLEX and how their solutions become slots. A solution is any acyclic flow that
meets the constraints: cycles only cost energy, and the objective and
the constraints on energy, which rule solutions out, are left open. (In those, the
idle current of the processor is read with `GetActiveCurrent`, near
`tdma-optimizer-base.cc:145`.)

### DlHeader, SourceRouting, Spectrum, TxPower, Isa100Network

`Isa100Network` puts the nodes together. A slot begins for all of them (`BeginSlot`:
the samples, then `ProcessLink` or the idle slot of each), goes on with what is due
at `TxEarliest` (`TurnTransmittersOn`, and `Assess` in any order for shared slots),
ends with the frames (`EndFrames`, in which any frame without a collision may still
be lost), and then each node processes what it heard (`ProcessPdDataIndication`) before
the next boundary. A node has its own position in schedule and hopping
pattern, backoff, queue, table of transmit powers and the power its PHY has accepted; a
packet is its header as serialised, followed by a payload of two numbers, and is taken
apart again at each hop.

Assumptions, each read off the examples: slot boundaries of two nodes are at most
1/32000 s apart, less than an assessment takes; frames fit slots; TRANSMIT links of
two nodes share no slot; acknowledgements are off. `Isa100Dl` has the events of one node
without the first three of them. Signals below the sensitivity are not heard (the
code detects down to the noise floor, -120 dBm). Losses are counted in half dB, which
is enough to tell rounding up from truncation; samples are numbered modulo
two. The loss of ns-3's `SingleModelSpectrumChannel` is external.

What the model shows of the code:

* A power below 0 dBm is above 0xbf as an octet and refused; the PHY goes on
  with the power of the frame before. Since that one was not negative, it reaches
  (`RefusedPowerReaches`), at the price of energy.
* The transmit power learned from a packet ignores the one its sender used: nobody adds
  a trailer, so the one removed is the end of the payload.
* The hopping index advances once per link (`isa100-dl.cc:437`), not "on every timeslot,
  whether there is link activity scheduled or not" (`isa100-dl.h:214`): nodes with
  different numbers of links hop apart. The optimized networks use one channel and the
  example with two gives all nodes equally many links, so `ReceiverListens` holds there.
* One frame is sent per TRANSMIT slot, whatever `m_packetsPerSlot` is.
* When flows split, a node has slots for several parents but one route, and sends in the
  slot of one parent to the other, who is not listening: `ReceiverListens` is stated for
  flows that give every node one parent (`SinglePath`).
* When a schedule uses the last two slots of the superframe, reports arrive after
  the next sample and the delay the example logs is that of another report:
  `SampleLeavesInAFrame` is stated for `LinksBeforeSamples`.
* A header without routing keeps the address 00:00 it is constructed with, so that
  every packet of such a network goes to node 0.
* SCHEDULE_FOUND is returned although a node out of reach has no links; `Start` of its DL
  then ends the simulation. Its "No Route" text would be read past its table entry
  (`isa100-routing.cc:116`); the model deploys no such network.
* A source route of more than 25 hops (`ISA100_ROUTE_MAX_HOPS`) is refused only from hop
  26 on (`isa100-dl-header.cc:111`): hop 25 is written behind the array, and a later one
  ends the simulation when the first packet is sent. The model deploys no network with
  such a route: `RoutesFit` is an assumption on networks set up by hand and a guard of
  `InstallSchedules`, and the theorems about networks are about the others.
* The spectrum has 11 bands, channels 11 to 21; a channel up to 26 is accepted and
  writes past them.

### OptimizedNetwork, ExampleNetworks, Delivery

`OptimizedNetwork` runs an optimizer and the scheduler, installs their results in a
network whose links match the reach the optimizer was given, and lets the field nodes
send to the sink. It also starts with the networks that `isa100-three-nodes.cc`,
`isa100-source-route-test.cc` and `isa100-link-test.cc` set up by hand. `Delivery` is the
abstract specification: a packet submitted is lost or delivered once, to its
destination. The refinement mapping takes as packets in transit those in a
queue and those heard by the node the hop is addressed to. (`isa100-link-test.cc` counts
its packets in arrays that its loop runs past; its statistics are not modelled.)

### NodeSetup, NodePower

`NodeSetup` is the configuration: attributes given to the helper, `Install`, the parts in
any order, each pair connected by whichever comes last. The attribute map keeps the
first value of a name and devices installed before do not learn of it.

`NodePower` counts time in ticks, several to a slot. The application samples
two slots before the end of the superframe; the DL appears by the requests it
makes in its slots (`Isa100Dl` is where they come from), and turns the processor on
and off with the transceiver. A consumer asked for the state it is in does nothing
(`ReturnsEarly`), but for a transceiver turned off because there is nothing to send: it
comes from TX_ON then, and has updated the battery on the way. A consumer's `current` and `since` are what it
pays when it changes; `used` and `emptyAt` record what was really drawn. The first
callback of the battery is the lifetime, and the example looks once per superframe
whether there is one. The end of a sample puts the processor to sleep even if the
DL has just turned the radio on: `NoIdleProcessor` states the direction the code
keeps.

### FieldLayout

Positions are whole metres, to which the loss model truncates them. Placing a node
repeats its draw until it is far enough from the others, and ends the simulation
when 10000 draws were not (`CouldNotPlaceNode`, wherever a draw can fail). A new node
is compared with the corner of the field and the other field nodes, not with the
sink (`helper-locations.cc:89` starts from the position 0, 0, 0). Fading is recorded under
the digits of both positions, without separators. Positions with the same text
overwrite each other's fading: then the two directions of a link may fade
differently, against the comment that they are the same, and the mirrored power may be
too low. The properties are stated for texts that differ (`KeysDistinct`). Within
the reference distance there is no loss at all. The loss is by the square of
the distance instead of its logarithm: only its growth matters.

## 3. Runs

All runs are exhaustive. The bounds on queue, signals and packets are guards of
actions of the environment (`MaxQueue`, `MaxSignals`, `MaxHeard`, `MaxEd`, `Packets`),
never of the code's own steps; an acknowledgement or a relayed packet may exceed
`MaxQueue`.

| run | question | instance |
|---|---|---|
| `phy` | does every reception end and every signal leave the counter, under any MAC; which requests that wait for a frame are applied; what cancels an `EndTx`; does the power of a frame end with it? | two channels, three signals at once, one assessment and two detections under way; frames are not told apart |
| `dl_mixed` | do slot and radio agree; does every packet leave the queue? | TRANSMIT, RECEIVE, SHARED and idle slots, two channels, sleep, oversize packets |
| `dl_csma` | does the processor sleep with the radio; is a flushed packet never confirmed; does backoff end? | one shared slot, sleep, oversize packets, `FlushTxQueue` at any time |
| `dl_ack` | do queue and air agree with acknowledgements, retries and ARQ backoff; does the upper layer see `DlService`? | all slot types, frames of others in every slot |
| `tdma` | are flows, schedules and routes right for every optimizer? | every undirected network of five nodes, and acyclic path assignments for the programs, whole and split in halves; superframes of 4 (too short) and 20 slots; one or two packets per slot |
| `network` | do the nodes meet, do packets arrive once and in time? | every undirected network of four nodes with both kinds of optimizer, superframes of 6 and 8 slots, powers from -17 to 4 dBm; three examples |
| `power` | is energy booked once; is depletion noticed; does an idle or stopped node rest? | every order of installation; two ticks a slot, a superframe of five slots with a dedicated and a shared link, a sample of three ticks, a battery that lasts about two superframes, a stop in the first or the second superframe |
| `field` | does a link fade as drawn, and does its power suffice both ways? | a sink and three field nodes on three by three positions, with texts that differ and texts that coincide; two values of fading |

Why the bounds are enough. The DL instances have two packets and a queue of two: one
packet in flight and one behind it is what it takes to confirm, drop or erase the
wrong one, and pushed acknowledgements make the queue longer. The backoff counter
counts links: a backoff of two makes a node pass over a shared slot and still leaves
one step of the counter to a dedicated slot, which clears it. Two attempts separate
first, last and exhausted. Three signals are the frame received, one that corrupts it
and one that outlives both; two detections overlap. Five nodes are the least with which
depth first search misses the shortest path, and with which a node waits in the queue
both for a parent there and for one in a later round. Four nodes have routes of
three hops, in which a header is built, popped twice and used up, and schedules of six
slots, with room for the samples after them (period 8) and without (period 6). In
`power` the end of the battery falls in any of the states of any consumer, and a whole
superframe follows it. In `field`, four positions make links that share an end, and
coordinates of one and of two digits.

Deadlock is not checked where the system may stop: in `dl_csma`, where a flush
during a transmission makes the code take the front of an empty queue (`fault`); in
the scheduling runs, which end with a result; in `network` for networks that cannot be
scheduled; in `power` when the simulation ends; in `field` when all is computed, or no
position is left for a node, where the code asserts and ends.

### Disagreements between the code and what it says of itself

Four runs end with a counterexample, recorded under `findings`:

| run | what happens |
|---|---|
| `acked_not_delivered` | with acknowledgements on, a received packet is answered and neither passed up nor forwarded |
| `convex_divides_twice` | the packets of the integer program are divided by the packets per slot twice, so links get too few slots |
| `minhop_not_minimal` | the "breadth first" search is depth first and misses minimum hop paths |
| `tdma_slot_overflow` | a flow of one slot more than the superframe has is scheduled, past its end |

Read off the code while modelling, and in the models without a run of their own, besides
what section 2 lists:

* A channel change during a transmission cancels `EndTx` and leaves the transceiver in
  BUSY_TX with nothing to end it (`AbortAndRetune`, `OnlyHopsStrand`); on one channel
  this is proved impossible. The examples are spared: with one channel there is no
  change, and with two, frames end before the hop.
* `FlushTxQueue` does not look for a transmission: `PdDataConfirm` then takes the front of
  an empty queue (`fault` in `dl_csma`) or confirms the next packet. It has no caller.
* A TX_ON request that waited for a frame being received is confirmed with SUCCESS instead
  of TX_ON, and the queued packet is not sent in that slot (`EndRx`).
* The DMIC is an address that is used again: with `LateAcks` a late acknowledgement
  confirms a packet that was never sent.

### Fairness

The simulator runs every scheduled event when its time comes: `Fairness` of
`Isa100Dl` is weak fairness of the end events, the requests a slot
schedules and the slot boundary. The environment (upper layer, arriving signals,
flushes) has none. `ManagedSpec` has weak fairness of the ends of frames only
(`FrameEndsMeasured`). `AcceptedLeaves` needs no more. Where a node only has
shared slots, or waits for acknowledgements, other nodes may keep it from sending for
ever, so there the property is `AcceptedLeavesWhenQuiet`: it leaves if from some
time on nothing is heard. The scheduler is sequential code: weak fairness of its
next step. The network, the powered node and the field are checked for safety only, with
bounds on time stated as invariants (`SampleLeavesInAFrame`, `StopsAfterDepletion`,
`DepletionNoticed`).

## 4. Proofs

`tlapm` proves, for every value of the constants that the assumptions below allow:

| theorem | statement |
|---|---|
| `PhyTypeCorrect` | the PHY only takes states that are its own, and the counter of signals stays a natural number |
| `ReceptionAlwaysEnds` | BUSY_RX goes with a scheduled `EndRx`, channel changes included |
| `SignalsAlwaysCounted` | `SignalsAreCounted`: the counter is the number of decrements scheduled, none of which wraps it |
| `TransmissionAlwaysEnds` | on a single channel, BUSY_TX goes with a scheduled `EndTx` |
| `PendingMeetsItsFrameEnd` | `PendingMeetsFrameEnd`: on a single channel, a request waits only for a scheduled end of a frame |
| `HopsStrand` | `OnlyHopsStrand`: with the management requests, on any channels |
| `ManagedImplementsPhy` | `ManagedSpec` implements the PHY: initial states and steps |
| `EnergyWhileReceiving` | `EnergyOnlyWhileReceiving`: the power read is a signal's only during its reception |
| `TypeCorrect` | types and ranges of the DL and its PHY, with every option and schedule |
| `FrameOnAirIsFront` | `InFlightIsFront`, without flushes; with acknowledgements in aligned slots |
| `SuccessFollowsTransmission` | `SuccessMeansSent`, without flushes; with acknowledgements in aligned slots, if none comes late |
| `OwnSlotsOnly` | `TransmitsInOwnSlots`; with acknowledgements in aligned slots |
| `IdleSlotsSilent` | `IdleSlotsAreSilent`, in aligned slots, with every option |
| `OneChannelNeverStrands` | with one channel in the hopping pattern, no `EndTx` is cancelled and a request waits only for a scheduled end of a frame, with every option, in aligned slots or not |
| `ProcessorSleeps` | `ProcessorSleepsWithRadio`, in aligned slots, with every option |
| `UpperLayerIsServed` | the DL implements `DlService` (`ServiceSafety`, initial states and steps), without acknowledgements whatever neighbours and flushes do, with them as in `SuccessFollowsTransmission` |
| `TypesAreRight` | `TypeOK` of solver, optimizers, scheduler and routes |
| `EverySlotIsAccounted` | `SlotsAccounted`: slots given out and still to give make up the flows, and none is left when the rounds end |
| `SchedulesAlwaysAgree` | `SchedulesAgree`: both ends of a link and nobody else are active in its slots, in ascending order |
| `NodesReceiveFirst` | `ReceivesBeforeTransmits` |
| `RoutesReachTheSink` | `RoutesFollowSchedule`: routes end at the sink and every slot is followed by one of the next hop |
| `SlotsAreEnough` | `SlotsCarryFlows` |
| `MinHopFlowsFormTree` | `FlowsFormTree`: a tree to the sink with every node that can reach it |
| `SlotsForEveryPacket` | with whole packets, a node that sends has a slot for its own and for each it receives |
| `FadingIsTheOneDrawn` | `LinksFadeAsDrawn` |
| `PowersReach` | `PowersReachBothWays` |
| `StoredPowerReaches` | the power stored for a link in range fits the PHY and reaches |
| `NegativePowersRefused` | the PHY refuses exactly the negative powers |
| `RefusedPowerReaches` | a refused power leaves one that reaches |
| `HopsComeBack` | a route written as text is read back as it was |
| `PacketsStayOnRoute` | `HeaderIsRemainingRoute`, of networks scheduled or set up by hand |
| `PowerReaches` | `PowerReachesNextHop`, of both |
| `NetworkTypes` | `NetTypeOK`, as long as slots fit the superframe |
| `NextHopsListen` | `ReceiverListens`, of scheduled networks whose slots fit the superframe |
| `SamplesLeave` | `SampleLeavesInAFrame`, of networks scheduled in whole packets, and of those set up by hand that carry them |
| `PacketsAreDelivered` | the network implements `Delivery` (`Delivers`, initial states and steps), of networks scheduled in whole packets with links before the samples, and of those set up by hand with packets numbered apart |
| `PowerTypeCorrect` | `PowerTypeOK`, the battery never below zero included |
| `AllConsumersMetered` | `EverythingMetered`, in every order of installation |
| `EnergyIsAccounted` | `EnergyAccounted`: booked and owed energy are what was drawn |
| `SimulationStops` | `StopsAfterDepletion` |
| `ProcessorSleepsWhenIdle` | `NoIdleProcessor` |
| `StopLeavesOneSample` | `StoppedNodeSendsAtMostOne` |
| `DepletionIsNoticed` | `DepletionNoticed`, of superframes with an idle slot after a link and a dedicated link |

### Assumptions

On constants: `DlAssumption` (flags are Booleans, a schedule has a slot and a type for
every link, slots lie in the superframe, the hopping pattern is not empty),
`NoFrameAssumption` and those of `ZigbeePhy`, `TxPowerAssumption` (the maximum power is
not negative and fits six bits), `PowerAssumption` (currents are natural numbers, the
transmit current is never negative, a sample fits its period), those of scheduler and
optimizers (there is a sink, a superframe has slots, solutions are matrices of numbers),
`FieldAssumption` and `BackoffAssumption`. `NetworksAssumption` says that a network set
up by hand is whole: nodes have links, routes lead to their destination and fit the
header (`RoutesFit`: the code ends the program for a longer one), slots lie in the
superframe, and under power control no two nodes send to each other. It also says
the required powers are the same both ways, as `CalculateTxPowers` mirrors them. TLC
evaluates all of these in every run.

The hypotheses that theorems add:

* *Acyclic flows* (scheduler and network): every solution of a linear program is a flow
  without a cycle. A cycle only costs energy, which the programs minimise; the code does
  not check for one, and the rounds, in which a link waits until its receiver has all
  slots of its own links, would never schedule it. `MCOptimizedTdma` has TLC check it of
  its instance.
* *`SlotsFitSuperframe`* (`NetworkTypes`, `NextHopsListen`): not always so, which is the
  finding of `tdma_slot_overflow`; a link in the slot past the end comes with those of
  the first slot.
* *Whole packets* (`WholePackets`, for `SlotsForEveryPacket`, `SamplesLeave` and
  `PacketsAreDelivered`): the minimum hop optimizer or the integer program, with one packet
  a slot, and a sample is at least one packet (`NumPktsNode > 0`). A flow of bits is
  rounded up link by link, so that a node may have more slots to receive parts of packets
  in than to send them whole; and a slot counted for several packets carries one
  (section 2). The queues of such networks may grow.
* *Links before the samples* (`LinksBeforeSamples`, for `PacketsAreDelivered`; for
  `SamplesLeave` it is part of the property): otherwise two samples of a node may be under
  way, which their numbers, modulo two, do not tell apart in the model.
* *Networks set up by hand* may have any schedule. `SamplesLeave` asks of those whose
  links come before the samples that every node has its slots in order, none shared
  (`Orderly`), and slots enough, after those it receives in (`Carries`);
  `PacketsAreDelivered` that packets go to nodes that hand them up, past none that would
  do so before (`Destined`), and that samples, if there are any, are carried
  (`Numbered`). The three examples generate packets that are numbered one after another,
  so that only `Destined` asks something of them, which TLC checks they meet
  (`MCOptimizedNetwork`).
* *Aligned slots, no late acknowledgement, no flush* (DL): without the first a hop
  aborts frames and a slot finds the radio where the last one left it; without the
  second a DMIC is an address that may have been used again; a flush takes away the
  front that `PdDataConfirm` will look for. All are behaviours of the code that section
  3 lists, and theorems only exclude those that make them false.
* *An idle slot after a link, and a dedicated link* (`DepletionIsNoticed`): the battery
  is looked at when somebody changes state. Where every slot has a link, or every link
  is shared and the node always backs off, the radio may stay in one state for ever.
  `power.cfg` has both.

### How the arguments go

`ZigbeePhyProofs`: the invariant is `CoreInv` with the type of the corruption flag. None
of its conjuncts is inductive alone: that a reception is counted needs that only
BUSY_RX has one, and that only a busy transceiver has a request pending
(`PendingOnlyWhileBusy`, which does not say that anything will apply it) needs
`SendingIsBusy`, since `EndTx` clears it. One lemma per group of calls (`MediumInv`, `FrameEndsInv`,
`MacRequestInv`) shows it is kept. With one channel the abort of `AbortAndRetune` is
impossible, which adds the converse for BUSY_TX, and with it the scheduled end that a
pending request waits for. `ManagedStep` maps each step of the
managed PHY to one of the PHY or a stutter; the only one that is not literally either is
the detection of a sleeping PHY, which is the request made from its callback. So
`PhyInv` holds of the managed PHY, and with it the power of a signal begins and ends
with the reception.

`Isa100DlProofs`: `DlTypeInv` is the types and `Coupling`, that a frame is being
received exactly in BUSY_RX, that it is counted, and that a frame is sent only in
BUSY_TX; without it the type of the counter and of the packet sent is not inductive. The
argument follows the code: `RequestTypes` and `RequestCoupling` are about
`ProcessTrxStateRequest`, the one operator through which all chains go, and each
conjunct is then taken through the actions. `OwnSlotsOnly` needs `SlotEvents`, that a
transmission or assessment scheduled at a slot's start belongs to a slot of that type.
`OneChannelInv` is the converse for BUSY_TX once more, through the actions of the DL: a
hop to the channel the PHY is on changes nothing (`RequestOneChannel`).

`AlignedInv` is what aligned slots add: every frame sent has its `EndTx`, sleep is never
pending, an idle slot has nothing left to happen, and the link before one has scheduled
the request that turns the transceiver off, which therefore takes effect at once. It
carries `ProcessorSleepsWithRadio` along, since the processor is woken by the same
requests. With acknowledgements, `InStep` says that the frame on the air is the front of
the queue and was counted as an attempt, and `InTurn` that the events of a slot come one
after the other, so that no acknowledgement is pushed before a frame that is about to be
sent or on the air. `AnswersInv` says that at most one acknowledgement is on its way,
and to which packet: the first in the queue that is not an acknowledgement, after it was
sent. The service is shown step by step: `RequestOutcomes` lists what a request may do
to queue and upper layer (send the front, drop it with a confirm, or nothing), and
`ServiceStep` maps each action, through `OwnPackets`, the queue without acknowledgements
and relayed packets, to a step of `DlService` or a stutter.

`LoopProofs`: what a recursive function computes is shown by the least counterexample.
The induction theorems of the library take an operator and cannot be used here, but that
every non-empty set of naturals has a least element can, with the set written out for
each function. So there are lemmas on `Ascending`, `Iterated`, sums over sets and
sequences (`AscendingIs`, `IteratedDef`, `SumExcept`). `SubsetsInduct` is the same for
finite sets, with the set of the subsets that have a property in the place of the
property; it counts disjoint sets by the sum of their sizes (`SharesAddUp`).

`TdmaProofs`: `TdmaInv` is inductive. About the minimum hop solver, `SolverTree` says
that between two calls every link leads one hop nearer to the sink, to a node that sends
on, and `SolverFlows` that packets are conserved, every node has one parent, hop counts
are below the number of nodes processed, and a node not reached yet has a neighbour
whose call is pending. About the scheduler, `SchedulerInv`: the slots not given out yet
are those the waiting links need (`SlotsLeft`), a node that receives has nothing left to
transmit (`ReceiversAreDone`), no link is forgotten when its node leaves a queue
(`NoLinkForgotten`), and routes found lead to the sink over ever later slots
(`RoutesLead`). That nothing is left when the rounds end needs flows to be acyclic: were
a link left, some link left would be into a node all of whose own links are scheduled.
`ReachInv` adds that links scheduled are links in range. `EverythingPassed` compares a row
of the flow matrix with a column: for the integer program it is a constraint, for the
minimum hop flows the tree's conservation of packets.

`FieldLayoutProofs`: `FieldInv` follows the allocator: every pass leaves it at the first
position again, so that device k gets the k-th position, for which the table was filled.

`NodePowerProofs`: one invariant per question. `SetupInv` says who is connected after
any set of parts. `SleepInv` adds to `NoIdleProcessor` that the consumers are the three.
`StopInv` says a stopped application has no next sample and, once it has sent one, none
under way. `DeadlineInv` says `TerminateSimulation` is due within a superframe, and
within one of the lifetime. `EnergyInv` is the long one: the types, `Cached` (what a
consumer will pay is what its state draws now) and `Balanced` (booked plus owed is
drawn), with `SetupInv`, that nobody has changed state before the node is wired, and
that no frame is on the air while a slot's event is still due. The last is what makes
`Cached` inductive: the transmit current changes with each frame, which would falsify
the cached current of a frame already on the air. `DepletionInv` says that each consumer
has paid within a superframe of now: the sensor because it samples, the processor and
the transceiver because of the idle slot and the dedicated link; so an empty battery
cannot stay unnoticed longer.

`Isa100NetworkProofs`: arithmetic of rounding, clamping and the octet first, for every
range of powers. (`RefusedPowerReaches` assumes what the PHY keeps is not negative,
which holds initially, 4 dBm, and is what the theorem concludes.) Then five invariants
of any network that is `WellFormed`. `NetInv`: every packet queued or heard has a header
that is the rest of its route, and a node's table of powers has for each other node what
was stored at the start or what was learned from a frame, and it learns only from nodes
that send to it. Since hops are used one way (`OneWay`), no power learned is ever used,
and those stored reach. `ClockInv`: indices, waits and radio states. `ListensInv`: a
node awake or asleep is as far from its nearest link as its wait says (`Lockstep`), so
that all nodes take the same slot for the same; with schedules as `Orderly` as the
scheduler's and one path from each node (`OnePath`), who sends finds its next hop
listening.

`CarryInv` is the argument about time. For each node it compares slots left in this
superframe: the packets it has, and one for each slot it still receives in, are no more
than the slots it still sends in (`Fits`, `HasRoom`). A slot to send in takes a packet
from the queue whether or not the frame arrives, because a node is in lockstep with its
links (`ListensInv`) and without acknowledgements nothing is sent twice; a slot to receive
in adds one at most. When the samples are taken, two slots before the end of the
superframe, no slots are left, so no packets are either, and all packets are of the last
sample (`IsFresh`). That a receiver is on only in its slots (`Rested`, `InSlot`) is part
of it, since otherwise it could hear, and queue, more.

`DeliverInv` says that a packet, known by source, destination and number, is at one node
only, queued once or heard (`OnePlace`), and that its number has been used (`Known`).
`ServedBySending` shows that a packet leaves the queue before anybody hears it and that
only one node hears it as its next hop, `ServedByIndication` that a node that processes
what it heard hands it up, queues it or drops it, and `ServedAtBoundary` that samples and
generated packets are new: a generator's because numbers grow, a sample's because
`CarryInv` leaves none of the one before. With these every step of a network is one of
the service or a stutter (`Serves`).

`OptimizedNetworkProofs`: that networks the scheduler makes are such networks.
`SetUpInv` says so of the configuration installed, from `TdmaInv` and `HopsComeBack`;
every hop of a route has a slot (`RoutesFollowSchedule`), links in order are used one
way, and links scheduled are in range (`ReachInv`). `NextHopsListen` does not speak of
networks set up by hand, whose nodes may have any schedules; of the three examples TLC
checks it. `FieldCarries` turns `EverythingPassed` into the counting of `CarryInv`: the
slots a node sends and receives in are as many as its row and column of the flow
matrix (`SlotsAccounted`, `SharesAddUp`), and those to receive in come first.
`FieldDestined` says that packets of field nodes go to the sink and that only the sink
hands up, so that `PacketsAreDelivered` follows from `DeliverInv`.

### Only model-checked

* Liveness (`PendingIsApplied`, `AcceptedLeaves`, `AcceptedLeavesWhenQuiet`,
  `SchedulingEnds`): fairness and ENABLED are out of the prover's reach.
* What the hypotheses above exclude: in `network`, the delivery of packets where links come
  after the samples (superframes of six slots), and `ReceiverListens` of the three
  examples. Networks with fractional flows are scheduled in `tdma` and sent over in no run.

## 5. Not modelled

* Late acknowledgements: the actions are there (`LateAcks`), but every run and theorem
  about acknowledgements excludes them, since they falsify what it states.
* Source routes longer than the array of the header (section 2, `RoutesFit`).
* CCA modes 1 and 3: stored but set by no caller; bit errors: their outcome is a choice.
* The fields of the acknowledgement header but kind and DMIC, and of the DL header
  but addresses and route: layout only.
* The interface of `ns3::NetDevice`, which only passes calls on.
* The statistics, traces and logs of the examples.
* CPLEX and the objective of the linear programs: external.
* The radio energy model and `fish-spectrum-propagation-loss-model`: `wscript` does not
  build them, and the former includes a header the repository does not have.

## 6. What is left

The components are modelled but for what section 5 lists, and every invariant and action
property checked, and every refinement, is proved under the hypotheses of section 4. What
could be added:

1. Delivery without `LinksBeforeSamples`: with samples numbered without end, in the model
   and not in the runs, `Known` would say of a field node what it says of a generator.
2. Several packets in a slot: the queues then grow, and the question is how long they
   get in a lifetime.
3. Acknowledgements in a network. In one node they are modelled and proved about; the
   code does not pass acknowledged packets up, so a network with them delivers nothing.
