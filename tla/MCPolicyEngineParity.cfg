CONSTANTS
  None = None
  Inputs <- Documents
SPECIFICATION EngineSpec
INVARIANT DecisionParity
CHECK_DEADLOCK FALSE
