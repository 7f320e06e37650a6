CONSTANTS
  Segments <- MCSegments
  ToLower <- MCToLower
  NotInAuthority = {"a:1", "a?"}
  NotInPath = {"a?"}
  Starred = {"*", "a*"}
  Matched <- MCMatched
  FileLayers <- MCFileLayers
  EnvLayers <- MCEnvLayers
  Disks <- MCDisks
  MaxPermits = 2000
  Unreadable = Unreadable
  None = None
SPECIFICATION Spec
CHECK_DEADLOCK FALSE
INVARIANTS
  OnlyLimitPanics OneIdentity ConfiguredIdentityKept OnlyReplicasAllowed
