CONSTANTS
  ClkDiv = 4
  DataBits = 2
  MinGap = 3
  LF <- MCLF
  CR <- MCCR
  Chars <- MCChars
  Requests <- MCRequests
SPECIFICATION WriteSpec
INVARIANTS
  NoWriteLost
PROPERTY WrittenIsSent
