CONSTANTS
  Conns = {c1, c2}
  Streams = {s1, s2}
  MaxBytes = 2
  ProtocolDetect = 2
  ServerFirst = FALSE
  PolicyChanges = TRUE
SPECIFICATION FairSpec
CHECK_DEADLOCK FALSE
INVARIANTS
  MetricsExact UpstreamGetsPrefix NothingForwardedUnchecked
PROPERTY
  BytesDelivered
