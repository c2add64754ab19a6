SPECIFICATION Spec
CONSTANTS
  NumNodes = 5
  NoRoute = NoRoute
  Networks <- AllNetworks
  BitFlows <- SplitInHalves
  PacketFlows <- AcyclicFlows
  NumPktsNode = 1
  PktUnits = 2
  SlotDuration = 6
  TxEarliest = 2
  BitRate = 1
  TimeslotChoices = {4, 20}
  PacketsPerSlot = {1, 2}
CHECK_DEADLOCK FALSE
INVARIANTS
  TypeOK
  SlotsAccounted
  SchedulesAgree
  ReceivesBeforeTransmits
  RoutesFollowSchedule
  FlowsFormTree
  SlotsCarryFlows
PROPERTIES
  SchedulingEnds
