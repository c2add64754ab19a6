SPECIFICATION NetworkSpec
CONSTANTS
  NumNodes = 4
  NoRoute = NoRoute
  Networks <- InRangeNetworks
  BitFlows = {}
  PacketFlows <- DescendingFlows
  NumPktsNode = 1
  PktUnits = 2
  SlotDuration = 6
  TxEarliest = 2
  BitRate = 1
  TimeslotChoices = {6, 8}
  PacketsPerSlot = {1}
  HandMade <- Examples
  RequiredPowers <- Matrices
  NotDeployed = NotDeployed
  NoFrame = NoFrame
  NoIndication = NoIndication
  MaxBackoff = 1
  MinTxPowerDbm <- LowestPower
  MaxTxPowerDbm = 4
CHECK_DEADLOCK FALSE
INVARIANTS
  NetTypeOK
  ReceiverListens
  HeaderIsRemainingRoute
  PowerReachesNextHop
  SampleLeavesInAFrame
PROPERTIES
  Delivers
