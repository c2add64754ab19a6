SPECIFICATION Spec
CONSTANTS
  Packets = {p1, p2}
  NoFrame = NoFrame
  AckEnabled = TRUE
  DlSleepEnabled = TRUE
  ImmediateTx = FALSE
  LinkTypes <- MixedTypes
  LinkSlots <- MixedSlots
  SfPeriod = 4
  HopPattern <- OneChannel
  InitChannel = 11
  MaxBackoff = 2
  MaxArqBackoff = 1
  MaxFrameRetries = 1
  Aligned = TRUE
  HeardIn = {"RECEIVE", "SHARED", "TRANSMIT", "IDLE"}
  LateAcks = FALSE
  OversizePossible = FALSE
  FlushAllowed = FALSE
  MaxQueue = 2
  MaxSignals = 2
  MaxHeard = 2
INVARIANTS
  InFlightIsFront
PROPERTIES
  TransmitsInOwnSlots
  SuccessMeansSent
  ServiceSafety
  AcceptedLeavesWhenQuiet
