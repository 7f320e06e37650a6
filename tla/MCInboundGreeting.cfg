CONSTANTS
  Conns = {c1}
  Streams = {}
  MaxBytes = 2
  ProtocolDetect = 2
  ServerFirst = TRUE
  PolicyChanges = FALSE
SPECIFICATION FairSpec
CHECK_DEADLOCK FALSE
PROPERTY
  GreetingRelayed
