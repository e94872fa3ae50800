SPECIFICATION FairSpec
CONSTANTS
  FileOffsets <- TwoPieces
  PieceLength = 4
  BlockSize = 2
  Peers = {q1, q2}
  Arrivals <- AnyData
  Ranges <- AnyRange
  Leftovers <- NewOrOld
  Faults = {"write", "read", "short", "rename"}
  MaxRx = 2
INVARIANTS
  TypeOK
  SingleBlockIsVerified
  ServedIsVerified
  IncompletePieceIsRetriable
  AnnouncementProtocol
  FinishedFilesAreWhole
  EveryFileFinishes
  BlocksAreCutAtFiles
PROPERTIES
  CompletedIsFrozen
  ImplementsPieceStore
\* download_loop may return: after an error nothing more happens.
CHECK_DEADLOCK FALSE
