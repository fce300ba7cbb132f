SPECIFICATION DelegationSpec
CONSTANTS
  s1 = s1  s2 = s2  a0 = a0  a1 = a1  a2 = a2  user = user
  t1 = t1  t2 = t2  r1 = r1  r2 = r2  dev = dev  public = public  i1 = i1  i2 = i2
  d1 = d1  d2 = d2  d3 = d3
  Session = {s1}
  Agent = {a0, a1, a2, user}
  Tool = {t1, t2}
  ScopedTool = {}
  Resource = {r1}
  OtherResource = OtherResource
  Env = {dev}
  Class = {public}
  RiskyTool = {t2}
  None = None
  NoContract = NoContract
  NoGrant = NoGrant
  NoRequest = NoRequest
  Idle = Idle
  UnknownGrant = UnknownGrant
  SecurityOfficer = SecurityOfficer
  IntentId = {i1, i2}
  DelegationId = {d1, d2}
  RequestId = {1}
  CreateRequests <- ApprovalCreate
  NarrowRequests <- ApprovalNarrow
  Principals <- ApprovalPrincipals
  Proposals <- ApprovalProposals
  MaxTime = 0
  MaxDepth = 3
  MaxActiveGrants = 3
  MaxStopped = 1
SYMMETRY Permuted
INVARIANTS OneGrantPerRequest ApprovedLineageSound
 
CHECK_DEADLOCK FALSE
