SPECIFICATION SilentSpec
CONSTANTS
  p1 = p1
  p2 = p2
  Peers = {p1}
  MaxPeers = 1
  IpcBuffer = 1
  Reports <- OneByOne
  MaxReports = 1
  MaxBroadcasts = 2
  MaxConns = 1
PROPERTY BroadcastsEnd
CHECK_DEADLOCK FALSE
