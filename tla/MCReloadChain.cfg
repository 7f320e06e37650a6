CONSTANTS
  Reloads = {r1}
  Handshakes = {h1}
  MaxIssue = 2
  RootOf <- MCRootOf
  Foreign = {}
  Chained = {1}
  None = None
SPECIFICATION Spec
SYMMETRY ReloadSymmetry
CHECK_DEADLOCK FALSE
INVARIANT
  ServedChainTrusted
