\* Two batteries of different kinds, one adapter, three polls.
CONSTANTS
  NaN = NaN
  Hour = 4
  Period = 1
  Kinds <- MCKinds
  Levels <- MCLevels
  Adapters = {AC}
  MaxTime = 3
SPECIFICATION Spec
INVARIANTS
  TypeOK
  EnergyAccounted
  PredictionCoversElapsed
PROPERTIES
  QuietWhenSteady
