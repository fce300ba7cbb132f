SPECIFICATION IntentSpec
CONSTANTS
  s1 = s1  s2 = s2  a1 = a1  t1 = t1  t2 = t2  r1 = r1  r2 = r2
  dev = dev  prod = prod  public = public  secret = secret
  Session = {s1, s2}
  Agent = {a1}
  Tool = {t1, t2}
  ScopedTool = {t1}
  Resource = {r1, r2}
  Env = {dev, prod}
  Class = {public, secret}
  None = None
  NoContract = NoContract
  IntentId = {1, 2}
  CreateRequests <- MCCreateRequests
  NarrowRequests <- MCNarrowRequests
  MaxTime = 2
INVARIANTS IntentTypeOK SingleActiveContract QuotaRespected
PROPERTIES ExpandsOnlyByEmptyingResources ImplementsQuota
CHECK_DEADLOCK FALSE
