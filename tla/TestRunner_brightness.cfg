CONSTANTS
  Tests <- MCAllTests
  Durations <- MCBothDurations
  Percents = {0, 1}
  MaxTime = 5
  TimeSamples = 1
  PercentSamples = 2
  NoRun = NoRun
SPECIFICATION Spec
INVARIANTS
  BrightnessRestored
