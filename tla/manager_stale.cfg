SPECIFICATION Spec
CONSTANTS
  p1 = p1
  p2 = p2
  Peers = {p1, p2}
  MaxPeers = 1
  IpcBuffer = 1
  Reports <- OneByOne
  MaxReports = 2
  MaxBroadcasts = 2
  MaxConns = 2
INVARIANT EveryConnectionIsNotified
CHECK_DEADLOCK FALSE
