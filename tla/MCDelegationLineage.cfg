SPECIFICATION DelegationSpec
CONSTANTS
  s1 = s1  s2 = s2  a0 = a0  a1 = a1  a2 = a2  user = user
  t1 = t1  t2 = t2  r1 = r1  r2 = r2  dev = dev  public = public  i1 = i1  i2 = i2
  d1 = d1  d2 = d2  d3 = d3
  Session = {s1}
  Agent = {a0, a1, a2, user}
  Tool = {t1, t2}
  ScopedTool = {}
  Resource = {r1}
  OtherResource = OtherResource
  Env = {dev}
  Class = {public}
  RiskyTool = {}
  None = None
  NoContract = NoContract
  NoGrant = NoGrant
  NoRequest = NoRequest
  Idle = Idle
  UnknownGrant = UnknownGrant
  SecurityOfficer = SecurityOfficer
  IntentId = {i1}
  DelegationId = {d1, d2, d3}
  RequestId = {1}
  CreateRequests <- LineageCreate
  NarrowRequests <- LineageNarrow
  Principals <- LineagePrincipals
  Proposals <- LineageProposals
  MaxTime = 1
  MaxDepth = 3
  MaxActiveGrants = 3
  MaxStopped = 0
SYMMETRY Permuted
INVARIANTS DelegationTypeOK Attenuation DepthSound NoDelegationLoop BudgetShared
PROPERTY NeverRegained
CHECK_DEADLOCK FALSE
