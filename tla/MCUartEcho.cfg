CONSTANTS
  ClkDiv = 8
  DataBits = 8
  Patient = TRUE
  Glitches = 0
  Messages <- MCMessages
  Requests <- MCRequests
SPECIFICATION EchoSpec
INVARIANTS
  AccessesLand
  OneInterruptPerByte
PROPERTY EchoesFaithfully
