CONSTANTS
  None = None
  Conditions <- MCConditions
  NetemOf <- MCNetemOf
  LoadLevels <- MCLoadLevels
  ComparisonNics <- MCComparisonNics
  MaxRuns = 2
SPECIFICATION Spec
INVARIANT ResultsMeasuredUnderIntendedNetem
CHECK_DEADLOCK FALSE
