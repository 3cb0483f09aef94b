CONSTANTS
  ClkDiv = 8
  DataBits = 2
  Patient = TRUE
  Glitches = 1
  Messages <- MCMessages
  Requests <- MCRequests
SPECIFICATION EchoSpec
PROPERTY UndamagedByteIsAnswered
