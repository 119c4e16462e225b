CONSTANTS
  Keys <- MCKeys
  Logs <- MCLogs
  Ms = 3
  Wrap = 24
  Slack = 2
  MaxPlays = 3
  NoEvent = NoEvent
  BadLine = BadLine
SPECIFICATION Spec
CHECK_DEADLOCK FALSE
INVARIANTS
  TypeOK
  KeepsPace
  ReleasedAtEnd
PROPERTIES
  AbstractSpec
