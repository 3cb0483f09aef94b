CONSTANTS
  Radix = 2
  Bases = {1, 2}
  MaxTime = 8
  Digits = 3
  RegValues = {0, 9, 10, 159, 2748, 4095}
SPECIFICATION MCSpec
INVARIANTS
  ReadIsCurrent
  ComparatorIsNeverEarly
  ElapsedIsNeverAhead
  ResetCounterIsSmall
CHECK_DEADLOCK FALSE
