CONSTANTS
  Words = 2
  RamSize = 2
  LineLen = 2
  DELAYS = 1
  Timeout = 3
  Values = {0, 1}
  Accesses <- MCAccesses
SPECIFICATION Spec
INVARIANTS
  NoGhostRequest
  AnswersAreOwn
  ReadsSeeLastWrite
  MemoryIsInTime
PROPERTY EveryRequestIsAnswered
