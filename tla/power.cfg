SPECIFICATION PowerSpec
CONSTANTS
  SlotTicks = 2
  SamplePeriod = 9
  LinkSlots = {0, 3}
  SharedSlots = {3}
  SensingTime = 3
  MultiFrames = 1
  ProcessorCurrent <- McProcessorCurrent
  SensorCurrent <- McSensorCurrent
  TrxCurrent <- McTrxCurrent
  DefaultTrxCurrent <- McDefaultTrxCurrent
  TxPowers <- McTxPowers
  Slope = 1
  Offset = 6
  InitEnergy = 34
  StopTimes = {5, 15}
  MaxTime = 27
  Never <- McNever
INVARIANTS
  PowerTypeOK
  EverythingMetered
  EnergyAccounted
  DepletionNoticed
  StopsAfterDepletion
  NoIdleProcessor
  StoppedNodeSendsAtMostOne
CHECK_DEADLOCK FALSE
