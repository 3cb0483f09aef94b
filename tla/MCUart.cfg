CONSTANTS
  ClkDiv = 4
  DataBits = 2
  Requests <- MCRequests
SPECIFICATION Spec
INVARIANTS
  TypeOK
  AnnouncedIsLoaded
  ParkedIsReadable
  OverrunUnreachable
PROPERTIES
  FrameErrIsRecorded
  SentByteIsStable
