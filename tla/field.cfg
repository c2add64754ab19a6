SPECIFICATION FieldSpec
CONSTANTS
  NumNodes = 4
  Xs <- MCXs
  Ys <- MCYs
  SinkLocation <- MCSinkLocation
  MinNodeSpacing = 3
  ReferenceDistance = 1
  ReferenceLoss = 40
  Sensitivity <- MCSensitivity
  Shadowing <- MCShadowing
INVARIANTS
  LinksFadeAsDrawn
  PowersReachBothWays
CHECK_DEADLOCK FALSE
