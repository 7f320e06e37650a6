CONSTANTS
  Acceptors = {a1, a2}
  Conns = {c1, c2}
  MaxConnections = 1
  Disabled = {}
  DefaultUpstream = FALSE
  None = None
SPECIFICATION FairSpec
CHECK_DEADLOCK FALSE
INVARIANTS
  LimitExact CutOnlyAfterGrace
PROPERTIES
  AdmissionsEndBeforeDrain ShutdownCompletes AcceptLoopNeverStalls
