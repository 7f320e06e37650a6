CONSTANTS
  Segments <- MCSegments
  ToLower <- MCToLower
  NotInAuthority = {}
  NotInPath = {}
  Starred = {"*"}
  Matched <- MCMatched
  Conns = {c1, c2}
  Evals = {c1, c2}
  Certs <- MCCerts
  MaxGeneration = 1
  RootsOf <- MCRootsOf
  LocalId <- MCLocalId
  Namespaces <- MCNamespaces
  Rules <- MCRules
  RuleBound = 2
  GlobalBound = 1
  default_decision = "Deny"
  None = None
SPECIFICATION Spec
SYMMETRY AdmissionSymmetry
CHECK_DEADLOCK FALSE
INVARIANTS
  PeerVerified JudgedAsPresented DecisionOfSomeMoment
PROPERTIES
  NamespaceRulesStable UsesRegister
