CONSTANTS
  i1 = i1
  a1 = a1
  a2 = a2
  a3 = a3
  x1 = x1
  x2 = x2
  x3 = x3
  y1 = y1
  None = None
  IntentNode = {i1}
  AgentNode = {}
  DelegationNode = {}
  ActionNode = {a1, a2, a3}
  ArtifactNode = {x1, x2, y1}
  Foreign = {y1}
  MaxEdges = 0
  Tools <- FlowTools
  Ingestible <- Outside
  PayloadFields <- Body
  MaxInputs = 1
  MaxRecords = 4
  RepeatParent = FALSE
  MaxDistance = 1
  EgressThreshold = 2
SPECIFICATION FlowSpec
INVARIANTS
  NothingSensitiveSent
  UntrustedNeedsApproval
  
  StoreMatchesGraph
CHECK_DEADLOCK FALSE
