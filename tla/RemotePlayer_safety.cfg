CONSTANTS
  MaxSerial = 8
SPECIFICATION Spec
CHECK_DEADLOCK FALSE
INVARIANTS
  TypeOK
  CallsMatchPlayback
  SilentWhenStopped
PROPERTIES
  StopAlwaysReturns
  AbstractSpec
