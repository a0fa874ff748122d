CONSTANTS
  None = None
  MinReadings = 3
  DriftMinPoints = 5
  JitterThreshold <- MCJitterThreshold
  Thresholds <- MCThresholds
  Intercepts = {1}
  Slopes = {0, 2}
  Gaps = {0, 1}
  Noise = {0, 1}
  MaxLen = 7
SPECIFICATION Spec
INVARIANT TypeOK
INVARIANT DriftRecoversLinearSlope
INVARIANT DriftIndependentOfEpoch
INVARIANT ConstantSeriesIsPerfect
CHECK_DEADLOCK FALSE
