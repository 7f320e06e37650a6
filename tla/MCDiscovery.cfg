CONSTANTS
  Callers = {c1, c2, c3}
  None = None
  CanFail = TRUE
  CanExpire = TRUE
  CanClear = TRUE
SPECIFICATION FairSpec
CHECK_DEADLOCK FALSE
INVARIANTS
  WaiterAnsweredByOverlap FailureIsCurrent MappedSemaphoreIsLive
PROPERTY
  ResolveTerminates
