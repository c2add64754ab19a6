SPECIFICATION Spec
CONSTANTS
  Packets = {p1, p2}
  NoFrame = NoFrame
  AckEnabled = FALSE
  DlSleepEnabled = TRUE
  ImmediateTx = FALSE
  LinkTypes <- MixedTypes
  LinkSlots <- MixedSlots
  SfPeriod = 4
  HopPattern <- TwoChannels
  InitChannel = 11
  MaxBackoff = 2
  MaxArqBackoff = 1
  MaxFrameRetries = 1
  Aligned = TRUE
  HeardIn = {"RECEIVE", "SHARED", "IDLE"}
  LateAcks = FALSE
  OversizePossible = TRUE
  FlushAllowed = FALSE
  MaxQueue = 2
  MaxSignals = 2
  MaxHeard = 2
INVARIANTS
  TypeOK
  IdleSlotsAreSilent
PROPERTIES
  AcceptedLeaves
