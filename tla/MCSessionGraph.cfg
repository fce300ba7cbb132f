CONSTANTS
  g1 = g1
  d1 = d1
  d2 = d2
  a1 = a1
  a2 = a2
  a3 = a3
  x1 = x1
  x2 = x2
  IntentNode = {}
  AgentNode = {g1}
  DelegationNode = {d1, d2}
  ActionNode = {a1, a2, a3}
  ArtifactNode = {x1, x2}
  MaxEdges = 3
SPECIFICATION GraphSpec
INVARIANTS
  TypedDags
  EdgesJoinNodes
SYMMETRY Permuted
CHECK_DEADLOCK FALSE
