SPECIFICATION Spec
CONSTANTS
  Packets = {p1, p2}
  NoFrame = NoFrame
  AckEnabled = FALSE
  DlSleepEnabled = TRUE
  ImmediateTx = FALSE
  LinkTypes <- SharedTypes
  LinkSlots <- SharedSlots
  SfPeriod = 4
  HopPattern <- OneChannel
  InitChannel = 11
  MaxBackoff = 2
  MaxArqBackoff = 1
  MaxFrameRetries = 1
  Aligned = TRUE
  HeardIn = {"RECEIVE", "SHARED", "IDLE"}
  LateAcks = FALSE
  OversizePossible = TRUE
  FlushAllowed = TRUE
  MaxQueue = 2
  MaxSignals = 2
  MaxHeard = 2
INVARIANTS
  ProcessorSleepsWithRadio
PROPERTIES
  ServiceSafety
  AcceptedLeavesWhenQuiet
CHECK_DEADLOCK FALSE
