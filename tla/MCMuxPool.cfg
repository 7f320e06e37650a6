CONSTANTS
  Conns = {c1, c2, c3}
  Identities = {a, b}
  StreamsPerTunnel = 1
  MaxTunnelsPerPeer = 2
  MaxNumStreams = 2
  OpenQueue = 1
  RouteAttempts = 2
  Workers = 2
  TunnelBound = 3
  MuxEnabled = TRUE
  None = None
SPECIFICATION Spec
SYMMETRY PoolSymmetry
INVARIANTS
  TypeOK PoolBounded SingleFlight LiveExact UpTunnelsPooled OvershootBounded
  RequestNeverDropped RelayAuthorized RetriesPaidByDeaths
