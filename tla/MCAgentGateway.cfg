SPECIFICATION GatewaySpec
CONSTANTS
  s1 = s1  a0 = a0  a1 = a1  user = user  t1 = t1  t2 = t2  r1 = r1  r2 = r2
  dev = dev  public = public  i1 = i1  i2 = i2  d1 = d1  d2 = d2
  Session = {s1}
  Agent = {a0, a1, user}
  Tool = {t1, t2}
  ScopedTool = {}
  Resource = {r1}
  OtherResource = OtherResource
  Env = {dev}
  Class = {public}
  RiskyTool = {}
  None = None
  NoContract = NoContract
  NoGrant = NoGrant
  NoRequest = NoRequest
  NoTrajectory = NoTrajectory
  NoAction = NoAction
  Idle = Idle
  Free = Free
  UnknownGrant = UnknownGrant
  SecurityOfficer = SecurityOfficer
  IntentId = {i1, i2}
  DelegationId = {d1}
  RequestId = {1}
  ActionId = {x1, x2, x3}
  x1 = x1  x2 = x2  x3 = x3  w1 = w1  w2 = w2
  Worker = {w1}
  Interleaved = FALSE
  MaxRuns = 1
  MaxActionDepth = 20
  EgressThreshold = 2
  CreateRequests <- LoopCreate
  NarrowRequests <- LoopNarrow
  Principals = {}
  Proposals = {}
  ActionProposals <- LoopProposals
  MaxTime = 0
  MaxDepth = 3
  MaxActiveGrants = 3
  MaxStopped = 6
SYMMETRY Permuted
INVARIANTS GatewayTypeOK LinearTrajectory CheckpointConsistent
PROPERTIES QuarantineContains ApprovalRevalidated ImplementsGate
CHECK_DEADLOCK FALSE
