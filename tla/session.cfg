SPECIFICATION FairSpec
CONSTANTS
  Words <- SomeWords
  Binary <- SomeBinary
  Width = 8
  Whole <- WholePart
  ParsedUrl <- SomeUrls
  Compact <- Chunks
  Ragged <- ShortChunks
  Protocol <- SomeProtocol
  OurId = 1
  TheirId = 2
  WireMessages <- SomeMessages
  NumPieces = 10
  MaxMessages = 2
  Files <- SomeFiles
  Replies <- SomeReplies
  Talking <- OneTalks
INVARIANTS
  TypeOK
  HashIsOfTheFile
  ReadersAgree
  WrittenIsReadBack
  EachUrlIsTaken
  PeersInEitherForm
  FramesAreReadAsWritten
PROPERTIES
  PeerOfTheTorrentConnects
\* A panic, a refusal and a lost connection are the end.
CHECK_DEADLOCK FALSE
