CONSTANTS
  None = None
  MinReadings = 1
  DriftMinPoints = 5
  JitterThreshold <- MCJitterThreshold
  Thresholds <- MCThresholdsNoFair
  Cap = 2
  TriggerEvery = 2
  Lines <- MCSyncLines
  MaxQueue = 1
  MaxClock = 2
  Duration = 1
  PipeBound = 1
  LogOutput = TRUE
  CtrlC = FALSE
SPECIFICATION Spec
INVARIANT HardwareRatioAtMostOne
CHECK_DEADLOCK FALSE
