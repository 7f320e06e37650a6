CONSTANTS
  Reloads = {r1, r2}
  Handshakes = {h1}
  MaxIssue = 2
  RootOf <- MCRootOf
  Foreign = {1}
  Chained = {}
  None = None
SPECIFICATION FairSpec
CHECK_DEADLOCK FALSE
INVARIANTS
  AckedCredentialsUsed
PROPERTIES
  ReloadNeverGoesBack ReloadAnswered ImplementsRegister
