CONSTANTS
  Arrays <- MCArrays
  Factors <- MCFactors
  Filters <- MCFilters
  Tape_Num = 11
  RunLength = 14
  MaxLate = 67
SPECIFICATION MCSpec
INVARIANTS
  SortStaysInBounds
  PartsStaySplit
  ResultsAreRight
  ProcessesKeepStep
  TestbenchPasses
PROPERTY BenchFinishes
CHECK_DEADLOCK FALSE
