CONSTANTS
  Tests <- MCAllTests
  Durations <- MCBothDurations
  Percents = {0, 1, 2}
  MaxTime = 5
  TimeSamples = 1
  PercentSamples = 2
  NoRun = NoRun
SPECIFICATION Spec
INVARIANTS
  TypeOK
  PhaseConsistent
  HistoryBounded
  LoopEndedForAReason
PROPERTIES
  OrderlyEnd
  EndRequestHonoured
  DrainingRunEnds
