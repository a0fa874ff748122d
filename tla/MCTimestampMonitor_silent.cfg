CONSTANTS
  None = None
  MinReadings = 2
  DriftMinPoints = 5
  JitterThreshold <- MCJitterThreshold
  Thresholds <- MCThresholdsNoFair
  Cap = 2
  TriggerEvery = 2
  Lines <- MCOneLine
  MaxQueue = 1
  MaxClock = 2
  Duration = 1
  PipeBound = 1
  LogOutput = TRUE
  CtrlC = TRUE
SPECIFICATION SilentDaemonSpec
PROPERTY StopRequestObserved
CHECK_DEADLOCK FALSE
