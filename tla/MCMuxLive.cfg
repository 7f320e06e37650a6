CONSTANTS
  Conns = {c1, c2}
  Identities = {a}
  StreamsPerTunnel = 1
  MaxTunnelsPerPeer = 1
  MaxNumStreams = 1
  OpenQueue = 1
  RouteAttempts = 2
  Workers = 2
  TunnelBound = 2
  MuxEnabled = TRUE
  None = None
SPECIFICATION FairSpec
PROPERTIES RouteCompletes DeadLeavesPool
