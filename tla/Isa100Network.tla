--------------------------- MODULE Isa100Network ---------------------------
(***************************************************************************)
(* The nodes of a network together: the schedule of every node             *)
(* (Isa100Dl::Start, ProcessLink), its queue, the applications that fill   *)
(* it, source routing (SourceRouting), transmit power control (TxPower)    *)
(* and the medium between the nodes.  Acknowledgements are not used, as in *)
(* the examples of the repository: every frame is sent once.               *)
(*                                                                         *)
(* A slot of all nodes begins with the samples of the applications and the *)
(* ProcessLink of every node that has one (BeginSlot), goes on with what   *)
(* nodes do at TxEarliest, and ends with the frames received.  Slot        *)
(* boundaries of different nodes are at most 1/32000 s apart, less than an *)
(* assessment takes, frames fit a slot, and TRANSMIT links of two nodes    *)
(* that hear each other share none: Isa100Dl has the events of a single    *)
(* node without these assumptions.                                         *)
(***************************************************************************)
EXTENDS SourceRouting, Spectrum, TxPower, FiniteSets

CONSTANTS
  NotDeployed,  \* no network has been installed yet
  NoFrame,      \* no frame heard
  NoIndication, \* no packet handed up
  MaxBackoff    \* bound: 2^(BackoffExponent - 1) - 1 in the code

ASSUME BackoffAssumption == MaxBackoff \in Nat

VARIABLES
  net,         \* the network installed: for every node its links (the superframe
               \* schedule), routing, apps and the power required for every other
               \* node to hear it; the period, the hopping pattern, powerControl
  slot,        \* the number in the superframe of the next slot to begin
  phase,       \* "XMIT" until the frames of the slot end, then "RX"
  nodes,       \* the state of every node, see Started
  air,         \* the nodes sending
  indication   \* the packet this step handed to an application

netVars == <<net, slot, phase, nodes, air, indication>>

Members == DOMAIN net.links
Running == net # NotDeployed

LinkTypes == {"TRANSMIT", "RECEIVE", "SHARED"}

\* What the set up of a network provides: every node has links, the route to a
\* destination ends there, and who has an application has a route for its packets
\* or sends them to a node 0 that asks for none.
WellFormed(config) ==
  LET members == DOMAIN config.links
      routed(n) == config.routing[n] # NoRouting
      Some(S) == Seq(S) \ {<<>>}
  IN  /\ members \subseteq Nat
      /\ config.period \in Nat
      /\ config.pattern \in Some(Nat)
      /\ config.powerControl \in BOOLEAN
      /\ \A n \in members :
           /\ config.links[n] \in Some([slot : Nat, type : LinkTypes])
           /\ \A m \in members : config.required[n][m] \in Int
           /\ routed(n) => \A dst \in DOMAIN config.routing[n] :
                LET route == config.routing[n][dst]
                IN  route \in Some(members) /\ Last(route) = dst
           /\ config.apps[n].kind # "none" =>
                IF routed(n) THEN config.apps[n].dst \in DOMAIN config.routing[n]
                ELSE config.apps[n].dst \in Nat /\ 0 \in members /\ ~routed(0)

\* The header has room for the route of every packet.  In any other network the first
\* packet of such a route ends the simulation, or is written behind the array.
RoutesFit(config) ==
  \A n \in DOMAIN config.links :
    config.routing[n] # NoRouting => \A dst \in DOMAIN config.routing[n] :
      Len(config.routing[n][dst]) <= ISA100_ROUTE_MAX_HOPS

\* The superframe has the slots of all links.
LinksFit(config) ==
  /\ config.period > 0
  /\ \A n \in DOMAIN config.links : \A l \in DOMAIN config.links[n] :
       config.links[n][l].slot < config.period

\* The nodes a packet passes, the source and the destination included.
RouteFrom(config, source, dst) == <<source>> \o config.routing[source][dst]

IsHop(config, a, b) ==
  \E source \in DOMAIN config.links : \E dst \in DOMAIN config.routing[source] :
    LET route == RouteFrom(config, source, dst)
    IN  \E k \in 1 .. Len(route) - 1 : route[k] = a /\ route[k + 1] = b

\* No two nodes send to each other.
OneWay(config) ==
  \A a, b \in DOMAIN config.links : ~(IsHop(config, a, b) /\ IsHop(config, b, a))

\* Packets go to nodes that hand them up, and nobody before them hands them up.
Destined(config) ==
  \A n \in DOMAIN config.links :
    IF config.routing[n] = NoRouting
    THEN config.apps[n].kind # "none" => config.apps[n].dst = 0
    ELSE \A dst \in DOMAIN config.routing[n] :
           LET route == RouteFrom(config, n, dst)
           IN  \A k \in 2 .. Len(route) - 1 : config.routing[route[k]] # NoRouting

\* What a node knows when the simulation starts.
Started(config, n) ==
  [link    |-> 1,                          \* m_dlLinkIndex
   hop     |-> 1,                          \* m_dlHopIndex
   wait    |-> config.links[n][1].slot,    \* slots before the next ProcessLink
   idle    |-> FALSE,                      \* turning the transceiver off is scheduled
   backoff |-> 0,                          \* m_expBackoffCounter
   xmit    |-> "none",                     \* what is scheduled for TxEarliest
   radio   |-> "OFF",                      \* "OFF", "RX" or "TX"
   channel |-> 11,                         \* phyCurrentChannel
   queue   |-> <<>>,                       \* m_txQueue
   receiving |-> {},                       \* senders counted since reception began
   heard   |-> NoFrame,                    \* the frame in the LIFS delay
   table   |-> [m \in DOMAIN config.links |-> \* m_txPowerDbm, 100 is not valid
                  IF config.powerControl THEN StoredPower(config.required[n][m]) ELSE 100],
   applied |-> 4,                          \* phyTransmitPower
   sent    |-> 0]                          \* packets the application has generated

NothingInstalled ==
  /\ net = NotDeployed
  /\ slot = 0 /\ phase = "RX" /\ nodes = <<>> /\ air = {}
  /\ indication = NoIndication

Installed(config) ==
  /\ net = config
  /\ slot = 0 /\ phase = "RX" /\ air = {}
  /\ nodes = [n \in DOMAIN config.links |-> Started(config, n)]
  /\ indication = NoIndication

Deploy(config) ==
  /\ net = NotDeployed
  /\ net' = config
  /\ nodes' = [n \in DOMAIN config.links |-> Started(config, n)]
  /\ UNCHANGED <<slot, phase, air, indication>>

-----------------------------------------------------------------------------
(* The applications *)

\* DlDataRequest: without a routing algorithm the addresses of the hop keep the
\* value the header is constructed with.
Header(n, dst) ==
  LET header == [NewHeader EXCEPT !.daddrSrc = n, !.daddrDst = dst]
  IN  IF net.routing[n] = NoRouting THEN header
      ELSE PrepTxPacketHeader(n, header, net.routing[n])

\* The payload: the number of the packet, and the octet that is taken for the
\* trailer's transmit power, which is zero like the rest of it.
WithRequest(n, me, sent) ==
  [me EXCEPT !.queue = Append(@, AddHeader(Header(n, net.apps[n].dst), <<me.sent, 0>>)),
             !.sent = sent]

\* A sample ends two slots before the end of the superframe.  Samples are
\* numbered modulo 2: the one before the last has left the network.
WithSample(n, me) ==
  IF net.apps[n].kind = "field" /\ slot = net.period - 2
    THEN WithRequest(n, me, (me.sent + 1) % 2) ELSE me

NoneHeard == \A n \in Members : nodes[n].heard = NoFrame

\* The packet generator, at any slot boundary.
SendPacket(n) ==
  /\ phase = "RX" /\ NoneHeard
  /\ net.apps[n].kind = "generator" /\ nodes[n].sent < net.apps[n].count
  /\ nodes' = [nodes EXCEPT ![n] = WithRequest(n, @, @.sent + 1)]
  /\ indication' = NoIndication
  /\ UNCHANGED <<net, slot, phase, air>>

-----------------------------------------------------------------------------
(* Slot boundaries *)

NextLink(n, link) == (link % Len(net.links[n])) + 1

\* Mutant of SlotJump: next < cur instead of next <= cur.
SlotJumpSameLink(n, link) ==
  LET cur == net.links[n][link].slot  next == net.links[n][NextLink(n, link)].slot
  IN  IF next < cur THEN next + net.period - cur ELSE next - cur

\* Mutant of SlotJump: the superframe wraps one slot early.
SlotJumpEarly(n, link) ==
  LET cur == net.links[n][link].slot  next == net.links[n][NextLink(n, link)].slot
  IN  IF next < cur THEN next + net.period - 1 - cur
      ELSE IF next = cur THEN net.period ELSE next - cur

SlotJump(n, link) ==
  LET cur == net.links[n][link].slot  next == net.links[n][NextLink(n, link)].slot
  IN  IF next <= cur THEN next + net.period - cur ELSE next - cur

Listens(type, me) == type = "RECEIVE" \/ (type = "SHARED" /\ me.queue = <<>>)

XmitEvent(type, me) ==
  CASE type = "TRANSMIT" -> "TX_ON"
    [] type = "SHARED" /\ me.queue # <<>> /\ me.backoff = 0 -> "CCA"
    [] OTHER -> "none"

ProcessLink(n, me) ==
  LET type == net.links[n][me.link].type
      jump == SlotJump(n, me.link)
  IN  [me EXCEPT !.channel = net.pattern[me.hop],
                 !.hop = (@ % Len(net.pattern)) + 1,
                 !.radio = IF Listens(type, me) THEN "RX" ELSE @,
                 !.xmit = XmitEvent(type, me),
                 !.backoff = IF type = "TRANSMIT" \/ @ = 0 THEN 0 ELSE @ - 1,
                 !.link = NextLink(n, @),
                 !.wait = jump - 1,
                 !.idle = jump > 1]

IdleSlot(me) ==
  [me EXCEPT !.wait = @ - 1, !.radio = IF me.idle THEN "OFF" ELSE @, !.idle = FALSE]

SlotStart(n, me) == IF me.wait = 0 THEN ProcessLink(n, me) ELSE IdleSlot(me)

BeginSlot ==
  /\ phase = "RX" /\ NoneHeard
  /\ nodes' = [n \in Members |-> SlotStart(n, WithSample(n, nodes[n]))]
  /\ slot' = (slot + 1) % net.period
  /\ phase' = "XMIT"
  /\ indication' = NoIndication
  /\ UNCHANGED <<net, air>>

-----------------------------------------------------------------------------
(* The medium *)

Required(n, m) == net.required[n][m]

\* Node m notices what node n sends.  Powers are relative to the sensitivity:
\* nothing weaker is noticed.
Hears(state, m, n) ==
  /\ m # n
  /\ InChannel(RxPsd(TxPsd(2 * state[n].applied, state[n].channel), Required(n, m)),
               state[m].channel, 0)

\* The transmitter is on and the front of the queue goes to the PHY, after the
\* power of its next hop.
Sending(me) ==
  [me EXCEPT !.xmit = "none", !.radio = "TX",
             !.applied = IF net.powerControl
                           THEN PhyTransmitPower(@, me.table[Deserialize(Head(me.queue)).dst])
                           ELSE @]

\* The state once the nodes in senders have begun to send: receivers that hear
\* them receive, and two signals at a receiver collide.
WithSignals(state, senders) ==
  [m \in Members |->
     IF state[m].radio = "RX"
       THEN [state[m] EXCEPT !.receiving = @ \cup {n \in senders : Hears(state, m, n)}]
       ELSE state[m]]

\* TRANSMIT slots at TxEarliest; with an empty queue the transmitter is turned
\* off again.
TurnTransmittersOn ==
  /\ phase = "XMIT"
  /\ LET due == {n \in Members : nodes[n].xmit = "TX_ON"}
         senders == {n \in due : nodes[n].queue # <<>>}
     IN  /\ due # {}
         /\ nodes' = WithSignals(
              [n \in Members |->
                 CASE n \in senders -> Sending(nodes[n])
                   [] n \in due \ senders -> [nodes[n] EXCEPT !.xmit = "none", !.radio = "OFF"]
                   [] OTHER -> nodes[n]],
              senders)
         /\ air' = senders
  /\ UNCHANGED <<net, slot, phase, indication>>

\* A signal reaches the antenna without delay, so that of two nodes that assess
\* the channel the second one notices the first.
Assess(n) ==
  /\ phase = "XMIT"
  /\ \A m \in Members : nodes[m].xmit # "TX_ON"
  /\ nodes[n].xmit = "CCA"
  /\ \/ /\ \E m \in air : Hears(nodes, n, m)
        /\ \E b \in 0 .. MaxBackoff :
             nodes' = [nodes EXCEPT ![n].xmit = "none", ![n].radio = "RX", ![n].backoff = b]
        /\ UNCHANGED air
     \/ /\ ~ \E m \in air : Hears(nodes, n, m)
        /\ nodes' = WithSignals([nodes EXCEPT ![n] = Sending(@)], {n})
        /\ air' = air \cup {n}
  /\ UNCHANGED <<net, slot, phase, indication>>

\* Mutant of AfterSending: only a frame somebody received leaves the queue.
KeptUnlessHeard(me, received) ==
  [me EXCEPT !.radio = "OFF", !.queue = IF received THEN Tail(@) ELSE @]

\* PdDataConfirm: the frame has left the queue whether or not it was received.
AfterSending(me, received) == [me EXCEPT !.radio = "OFF", !.queue = Tail(@)]

\* What node m takes from a frame of node n: the packet and how far above the
\* sensitivity it arrives.
Frame(m, n) ==
  [packet |-> Head(nodes[n].queue), rxPow |-> 2 * nodes[n].applied - Required(n, m)]

\* EndTx and EndRx: a frame without a collision may still be lost to noise.
EndFrames ==
  /\ phase = "XMIT"
  /\ \A n \in Members : nodes[n].xmit = "none"
  /\ LET intact == {m \in Members : Cardinality(nodes[m].receiving) = 1}
     IN  \E ok \in SUBSET intact :
           nodes' = [n \in Members |->
             CASE n \in air -> AfterSending(nodes[n], \E m \in ok : n \in nodes[m].receiving)
               [] n \in ok -> [nodes[n] EXCEPT
                                !.heard = Frame(n, CHOOSE s \in nodes[n].receiving : TRUE),
                                !.receiving = {}]
               [] OTHER -> [nodes[n] EXCEPT !.receiving = {}]]
  /\ air' = {}
  /\ phase' = "RX"
  /\ UNCHANGED <<net, slot, indication>>

-----------------------------------------------------------------------------
(* ProcessPdDataIndication *)

Id(packet) ==
  LET header == Deserialize(packet)
  IN  [src |-> header.daddrSrc, dst |-> header.daddrDst, seq |-> Head(RemoveHeader(packet))]

\* Mutant of Addressed: the address of the hop is not compared.
AnyAddress(n, header) == TRUE

Addressed(n, header) == header.dst = n

\* The trailer is the end of the packet: nobody adds one to the payload.
TrailerTxPower(packet) == Last(RemoveHeader(packet))

\* What the application learns of a packet that ends here.
DlDataIndication(n, packet) == [at |-> n, packet |-> Id(packet)]

\* SetTxPowerDbm for the node the frame came from.
PowerLearned(me, frame) ==
  IF net.powerControl
    THEN [me EXCEPT !.table[Deserialize(frame.packet).src] =
                      StoredPower(2 * TrailerTxPower(frame.packet) - frame.rxPow)]
    ELSE me

Forward(me, frame, header) ==
  [me EXCEPT !.queue = Append(@, AddHeader(header, RemoveHeader(frame.packet)))]

ProcessPdDataIndication(n) ==
  /\ phase = "RX" /\ nodes[n].heard # NoFrame
  /\ LET frame  == nodes[n].heard
         header == Deserialize(frame.packet)
         me     == [nodes[n] EXCEPT !.heard = NoFrame]
         handUp == indication' = DlDataIndication(n, frame.packet)
     IN  \/ /\ ~Addressed(n, header)
            /\ nodes' = [nodes EXCEPT ![n] = me]
            /\ indication' = NoIndication
         \/ /\ Addressed(n, header) /\ net.routing[n] = NoRouting
            /\ nodes' = [nodes EXCEPT ![n] = me]
            /\ handUp
         \/ /\ Addressed(n, header) /\ net.routing[n] # NoRouting
            /\ ForwardPacketOn(n, header)
            /\ nodes' = [nodes EXCEPT ![n] =
                           Forward(PowerLearned(me, frame), frame, ProcessRxPacket(n, header))]
            /\ indication' = NoIndication
         \/ /\ Addressed(n, header) /\ net.routing[n] # NoRouting
            /\ ~ForwardPacketOn(n, header)
            /\ nodes' = [nodes EXCEPT ![n] = PowerLearned(me, frame)]
            /\ handUp
  /\ UNCHANGED <<net, slot, phase, air>>

NetNext ==
  /\ Running
  /\ \/ BeginSlot \/ TurnTransmittersOn \/ EndFrames
     \/ \E n \in Members : SendPacket(n) \/ Assess(n) \/ ProcessPdDataIndication(n)

-----------------------------------------------------------------------------
(* Properties *)

\* Link and hop indices, waits and backoffs keep their ranges.
NetTypeOK ==
  /\ slot \in Nat /\ phase \in {"XMIT", "RX"}
  /\ Running =>
       /\ slot < net.period
       /\ air \subseteq Members
       /\ \A n \in Members :
            LET me == nodes[n]
            IN  /\ me.link \in DOMAIN net.links[n] /\ me.hop \in DOMAIN net.pattern
                /\ me.wait \in 0 .. net.period - 1 /\ me.idle \in BOOLEAN
                /\ me.backoff \in 0 .. MaxBackoff
                /\ me.xmit \in {"none", "TX_ON", "CCA"} /\ me.radio \in {"OFF", "RX", "TX"}
                /\ me.receiving \subseteq Members
                /\ me.applied \in Int /\ me.sent \in Nat

\* The type of the link node n has in this slot.
LinkNow(n) ==
  LET l == nodes[n].link IN net.links[n][IF l = 1 THEN Len(net.links[n]) ELSE l - 1].type

NextHopOf(n) == Deserialize(Head(nodes[n].queue)).dst

\* Whatever is sent in a slot reserved for it finds the node it is sent to
\* listening on the same channel, and nobody else on the air.
NextHopListens ==
  Running => \A n \in air : LinkNow(n) = "TRANSMIT" => nodes[NextHopOf(n)].receiving = {n}

\* The header of every packet in a queue is what is left of the route its source
\* gave it: whoever holds the packet is on that route, and forwards it to the
\* node after itself.
HeaderIsRemainingRoute ==
  Running => \A n \in Members : \A i \in DOMAIN nodes[n].queue :
    LET header == Deserialize(nodes[n].queue[i])
        source == header.daddrSrc
        route  == RouteFrom(net, source, header.daddrDst)
    IN  net.routing[source] # NoRouting =>
          \E k \in 1 .. Len(route) - 1 :
            /\ route[k] = n /\ header.src = n
            /\ header.dst = route[k + 1]
            /\ header.route = SubSeq(route, k + 1, Len(route))

\* A frame is sent with enough power for the node it is sent to, whatever powers
\* the PHY has refused and the DL has learned since the start.
PowerReachesNextHop ==
  Running => \A n \in air :
    net.powerControl /\ InRange(Required(n, NextHopOf(n))) =>
      2 * nodes[n].applied >= Required(n, NextHopOf(n))

\* All links of the superframe come before the samples, which are all there is to
\* send.
LinksBeforeSamples ==
  \A n \in Members : /\ net.apps[n].kind # "generator"
                     /\ \A l \in DOMAIN net.links[n] : net.links[n][l].slot < net.period - 2

\* The number of the last report LogReportTx has noted of node n, and whether the
\* report received now is that one: LogReportRx takes its time for granted.
LastReport(n) == (nodes[n].sent + 1) % 2
DelayIsOwn(received) == received.packet.seq = LastReport(received.packet.src)

\* When all links come before the samples, a sample leaves every queue, on its
\* way to the sink or lost, before the next one is taken, and the delay that is
\* logged of a report is its own.
SampleLeavesInAFrame ==
  Running /\ LinksBeforeSamples =>
    /\ phase = "RX" /\ NoneHeard /\ slot = net.period - 2 =>
         \A n \in Members : nodes[n].queue = <<>>
    /\ indication # NoIndication => DelayIsOwn(indication)

\* The packets that may still be delivered: queued, or heard by the node the hop
\* is addressed to.
InTransit ==
  IF Running
    THEN (UNION {{Id(nodes[n].queue[i]) : i \in DOMAIN nodes[n].queue} : n \in Members})
         \cup {Id(nodes[n].heard.packet) :
                 n \in {m \in Members : /\ nodes[m].heard # NoFrame
                                        /\ Deserialize(nodes[m].heard.packet).dst = m}}
    ELSE {}
=============================================================================
