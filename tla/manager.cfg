SPECIFICATION Spec
CONSTANTS
  p1 = p1
  p2 = p2
  Peers = {p1, p2, p3}
  MaxPeers = 2
  IpcBuffer = 1
  Reports <- TwoByTwo
  MaxReports = 2
  MaxBroadcasts = 2
  MaxConns = 4
SYMMETRY Symmetry
INVARIANTS
  NoDoubleInsert
  WithinLimit
  ChannelBound
  RegisteredMissNothing
\* The bounds stop the environment, and a queued peer may wait for ever.
CHECK_DEADLOCK FALSE
