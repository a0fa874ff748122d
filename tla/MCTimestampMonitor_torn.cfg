CONSTANTS
  None = None
  MinReadings = 2
  DriftMinPoints = 5
  JitterThreshold <- MCJitterThreshold
  Thresholds <- MCThresholds
  Cap = 2
  TriggerEvery = 2
  Lines <- MCLines
  MaxQueue = 1
  MaxClock = 2
  Duration = 1
  PipeBound = 1
  LogOutput = TRUE
  CtrlC = FALSE
SPECIFICATION Spec
PROPERTY ImplementsAtomicAnalyzer
CHECK_DEADLOCK FALSE
