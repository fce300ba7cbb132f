CONSTANTS
  None = None
  Inputs <- Documents
SPECIFICATION EngineSpec
INVARIANTS FailClosed BackendsAgree MatchPredictsOpa NeverMilder
CHECK_DEADLOCK FALSE
