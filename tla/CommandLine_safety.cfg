CONSTANTS
  Tests <- MCTests
  Durations <- MCDurations
  Percents = {0}
  MaxTime = 3
  TimeSamples = 1
  PercentSamples = 2
  NoRun = NoRun
  Levels = {0, 1}
  Available = {"screen", "keyboard"}
  Unknown = Unknown
  MaxChanges = 4
  Super = Super
  Q = Q
  OtherKeys = {}
  Buttons = {b1}
  Wheel = Wheel
  MaxLog = 5
  Spellings <- MCSpellings
  MinBatteries = {5}
  UnitLength <- MCUnitLength
  DefaultLimit = 1
  TestBrightness = 1
  NoArgument = NoArgument
  NoFile = NoFile
SPECIFICATION CommandSpec
CHECK_DEADLOCK FALSE
INVARIANTS
  CommandTypeOK
  ExitKeepsRun
  PlayedToBothDevices
  RecordingBalanced
PROPERTIES
  KnownBrightnessRestored
  CommandsEnd
