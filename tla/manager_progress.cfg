SPECIFICATION FairSpec
CONSTANTS
  p1 = p1
  p2 = p2
  Peers = {p1, p2}
  MaxPeers = 1
  IpcBuffer = 0
  Reports <- InTurn
  MaxReports = 2
  MaxBroadcasts = 2
  MaxConns = 4
INVARIANT TypeOK
PROPERTIES
  OnlyConnectionsHoldUp
  EndedLeaveTheMap
\* The bounds stop the environment, and a queued peer may wait for ever.
CHECK_DEADLOCK FALSE
