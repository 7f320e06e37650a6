CONSTANTS
  Callers = {c1, c2, c3}
  None = None
  CanFail = FALSE
  CanExpire = FALSE
  CanClear = FALSE
SPECIFICATION Spec
SYMMETRY CallerSymmetry
CHECK_DEADLOCK FALSE
INVARIANT SingleFlight
