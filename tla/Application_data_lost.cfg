CONSTANTS
  Tests <- MCTests
  Durations <- MCDurations
  Percents = {0, 1}
  MaxTime = 3
  TimeSamples = 1
  PercentSamples = 2
  NoRun = NoRun
SPECIFICATION Spec
PROPERTIES
  DataStaysOnDisc
