SPECIFICATION Spec
CONSTANTS
  Pieces = {0, 1}
  BlocksPerPiece = 1
  MaxRequests = 1
  IpcBuffer = 1
  WriterBuffer = 1
  RemoteMessages <- Trader
  HonestRemote = TRUE
  MaxReceived = 5
INVARIANT NotificationGetsThrough
CHECK_DEADLOCK FALSE
