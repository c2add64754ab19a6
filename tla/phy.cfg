SPECIFICATION ManagedSpec
CONSTANTS
  Frames = {f1}
  NoFrame = NoFrame
  Channels = {11, 12}
  InitChannel = 11
  MaxSignals = 3
  MaxCca = 1
  MaxEd = 2
INVARIANTS
  PhyTypeOK
  ReceivingUntilEndRx
  SignalsAreCounted
  EnergyOnlyWhileReceiving
PROPERTIES
  OnlyHopsStrand
  PendingIsApplied
