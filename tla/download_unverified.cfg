SPECIFICATION Spec
CONSTANTS
  FileOffsets <- TwoPieces
  PieceLength = 4
  BlockSize = 2
  Peers = {q1}
  Arrivals <- AlignedBlocks
  Ranges <- AnyRange
  Leftovers <- New
  Faults = {}
  MaxRx = 1
INVARIANT CompletedIsVerified
CHECK_DEADLOCK FALSE
