CONSTANTS
  None = None
  Conditions <- MCConditions
  NetemOf <- MCNetemOf
  LoadLevels <- MCLoadLevels
  ComparisonNics <- MCComparisonNics
  MaxRuns = 2
SPECIFICATION Spec
INVARIANT TypeOK
PROPERTY CompletedRunLeavesNoNetem
CHECK_DEADLOCK FALSE
