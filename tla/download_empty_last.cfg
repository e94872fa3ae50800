SPECIFICATION Spec
CONSTANTS
  FileOffsets <- EmptyLastFile
  PieceLength = 2
  BlockSize = 2
  Peers = {q1}
  Arrivals <- AlignedBlocks
  Ranges <- AnyRange
  Leftovers <- New
  Faults = {}
  MaxRx = 1
INVARIANT EveryFileFinishes
CHECK_DEADLOCK FALSE
