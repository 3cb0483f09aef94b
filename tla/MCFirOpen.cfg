CONSTANTS
  Tape_Num = 2
  LengthMod = 2
  MaxWait = 4
  Requests <- MCRequests
SPECIFICATION OpenSpec
INVARIANTS
  SumIsComplete
  ByteCounterIsAligned
  AnsweredInTime
PROPERTIES
  NoStaleAck
