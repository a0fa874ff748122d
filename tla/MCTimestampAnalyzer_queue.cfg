CONSTANTS
  None = None
  MinReadings = 2
  DriftMinPoints = 5
  JitterThreshold <- MCJitterThreshold
  Thresholds <- MCThresholds
  Cap = 4
  TriggerEvery = 2
  Lines <- MCLines
  MaxLines = 5
  MaxQueue = 2
  ClockSteps = {1}
  MaxClock = 2
SPECIFICATION MCSpec
INVARIANT TriggerQueueBounded
CHECK_DEADLOCK FALSE
