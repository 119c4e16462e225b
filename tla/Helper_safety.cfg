CONSTANTS
  MaxCalls = 5
SPECIFICATION Spec
CHECK_DEADLOCK FALSE
INVARIANTS
  TypeOK
  AnswersMatchPlayback
  NobodyPlaysAlone
PROPERTIES
  VanishedIsDestroyed
  CallsAreAnswered
