SPECIFICATION Spec
CONSTANTS
  Pieces = {0, 1}
  BlocksPerPiece = 1
  MaxRequests = 1
  IpcBuffer = 1
  WriterBuffer = 1
  RemoteMessages <- Seeder
  HonestRemote = FALSE
  MaxReceived = 3
INVARIANTS
  TypeOK
  PipelineIsSound
  WantingIsInterested
  StoredLeaveThePipeline
  NoLostHave
PROPERTIES
  PipelineIsFilled
\* The narrow channels allow a deadlock, see the run peer_narrow.
CHECK_DEADLOCK FALSE
