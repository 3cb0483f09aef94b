CONSTANTS
  Tape_Num = 11
  LengthMod = 1024
  RunLength = 14
  Runs = 3
SPECIFICATION HostSpec
INVARIANTS
  OutputFindsResult
  LengthAddsUp
  TapsAreSettled
PROPERTIES
  FiltersFaithfully
