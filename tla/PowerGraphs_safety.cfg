\* Three readings, limits of time and charge, capacities known or not.
CONSTANTS
  NaN = NaN
  Missing = Missing
  Wrong = Wrong
  NoRun = NoRun
  NoFile = NoFile
  Scratch = Scratch
  Hour = 120
  Minute = 2
  Period = 4
  Ms = 4
  Micro = 2
  Durations <- MCDurations
  LoopTimes = {5}
  Gaps = {4, 9, 13}
  Energies <- MCEnergies
  Capacities <- MCCapacities
  MaxTime = 40
  TimeSamples = 2
  PercentSamples = 200
  MaxReadings = 3
SPECIFICATION Spec
INVARIANTS
  TypeOK
  ReadBackFaithful
  CurveInsideChart
