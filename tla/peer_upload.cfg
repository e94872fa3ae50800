SPECIFICATION WritingSpec
CONSTANTS
  Pieces = {0}
  BlocksPerPiece = 2
  MaxRequests = 1
  IpcBuffer = 1
  WriterBuffer = 10
  RemoteMessages <- Leecher
  HonestRemote = TRUE
  MaxReceived = 3
INVARIANTS
  OneBlockUnderWay
  NeverAsksForMissing
PROPERTIES
  UploadsFinish
  ClosingEnds
\* The connection ends, and the bounds stop the remote side.
CHECK_DEADLOCK FALSE
