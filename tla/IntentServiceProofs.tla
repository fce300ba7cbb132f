------------------------- MODULE IntentServiceProofs -------------------------
(***************************************************************************)
(* Proofs about IntentService for every set of sessions, tools, resources, *)
(* creation and narrowing requests: the quota and the single active        *)
(* contract are invariants, and the service implements IntentQuota.        *)
(***************************************************************************)
EXTENDS IntentService, TLAPS

(* A narrowed scope is a scope: absent fields keep the old value.          *)
LEMMA NarrowedScopeType ==
  ASSUME NEW s \in Scope, NEW n \in NarrowRequest
  PROVE  NarrowedScope(s, n) \in Scope
BY DEF Scope, NarrowRequest, NarrowedScope, Given

LEMMA FromCreateType ==
  ASSUME NEW req \in CreateRequest
  PROVE  FromCreate(req) \in Contract
BY DEF CreateRequest, Contract, FromCreate, IntentStatus

LEMMA RefreshedType ==
  ASSUME NEW c \in Contract, NEW t \in Nat
  PROVE  Refreshed(c, t) \in Contract
BY DEF Contract, Refreshed, IntentStatus

(* A contract that is not live at one instant is not live at a later one,  *)
(* and rewriting its status to EXPIRED does not change whether it is.      *)
LEMMA LivenessOfContract ==
  ASSUME NEW c \in Contract, NEW t \in Nat, NEW u \in Nat, t <= u
  PROVE  /\ IsActive(c, u) => IsActive(c, t)
         /\ IsActive(Refreshed(c, t), u) <=> IsActive(c, u)
         /\ Refreshed(c, t).session_id = c.session_id
         /\ Refreshed(c, t).scope = c.scope
         /\ Refreshed(c, t).tool_calls_count = c.tool_calls_count
<1>1. c.scope.expires_at \in Nat \cup {None}
  BY DEF Contract, Scope
<1> QED BY <1>1 DEF Contract, IsActive, PastDeadline, Refreshed
-----------------------------------------------------------------------------
(* Type correctness of the contract table and of the session index.        *)
LEMMA IntentTypeStep == IntentTypeOK /\ [IntentNext]_intent_vars => IntentTypeOK'
<1> SUFFICES ASSUME IntentTypeOK, [IntentNext]_intent_vars PROVE IntentTypeOK'
  OBVIOUS
<1> USE IntentServiceAssumption DEF IntentTypeOK, Exists
<1>1. ASSUME NEW i \in IntentId, NEW req \in CreateRequests, CreateIntent(i, req)
      PROVE  IntentTypeOK'
  <2>1. req \in CreateRequest /\ FromCreate(req) \in Contract
    BY FromCreateType
  <2>2. req.session_id \in Session
    BY <2>1 DEF CreateRequest
  <2> QED BY <1>1, <2>1, <2>2 DEF CreateIntent
<1>2. ASSUME NEW i \in IntentId, GetIntent(i) PROVE IntentTypeOK'
  <2>1. Refreshed(intents[i], now) \in Contract
    BY <1>2, RefreshedType DEF GetIntent
  <2> QED BY <1>2, <2>1 DEF GetIntent
<1>3. ASSUME NEW s \in Session, GetIntentForSession(s) PROVE IntentTypeOK'
  BY <1>2, <1>3 DEF GetIntentForSession
<1>4. ASSUME NEW i \in IntentId, RevokeIntent(i) PROVE IntentTypeOK'
  <2>1. intents[i] \in Contract
    BY <1>4 DEF RevokeIntent
  <2>2. [intents[i] EXCEPT !.status = "REVOKED"] \in Contract
    BY <2>1 DEF Contract, IntentStatus
  <2> QED BY <1>4, <2>2 DEF RevokeIntent
<1>5. ASSUME NEW i \in IntentId, NEW n \in NarrowRequests, NarrowIntent(i, n)
      PROVE  IntentTypeOK'
  <2>1. intents[i] \in Contract /\ n \in NarrowRequest
    BY <1>5 DEF NarrowIntent, Live
  <2>2. NarrowedScope(intents[i].scope, n) \in Scope
    BY <2>1, NarrowedScopeType DEF Contract
  <2>3. [intents[i] EXCEPT !.scope = NarrowedScope(@, n)] \in Contract
    BY <2>1, <2>2 DEF Contract
  <2> QED BY <1>5, <2>3 DEF NarrowIntent
<1>6. ASSUME NEW i \in IntentId, ReserveToolExecution(i) PROVE IntentTypeOK'
  <2>1. intents[i] \in Contract
    BY <1>6 DEF ReserveToolExecution, Live
  <2>2. [intents[i] EXCEPT !.tool_calls_count = @ + 1] \in Contract
    BY <2>1 DEF Contract
  <2> QED BY <1>6, <2>2 DEF ReserveToolExecution
<1>7. CASE Tick
  BY <1>7 DEF Tick
<1>8. CASE UNCHANGED intent_vars
  BY <1>8 DEF intent_vars
<1> QED
  BY <1>1, <1>2, <1>3, <1>4, <1>5, <1>6, <1>7, <1>8 DEF IntentNext

(* Every reachable state of the service is well typed.                     *)
THEOREM IntentTypeCorrect == IntentSpec => []IntentTypeOK
<1>1. IntentInit => IntentTypeOK
  BY IntentServiceAssumption DEF IntentInit, IntentTypeOK
<1> QED BY <1>1, IntentTypeStep, PTL DEF IntentSpec

-----------------------------------------------------------------------------
(* The invariant the theorems rest on.  Both parts are inductive once the  *)
(* table is well typed: a slot is only taken below the limit and the limit *)
(* never drops below the slots taken; and a new contract displaces from    *)
(* the index a contract that is no longer live.                            *)
IntentInv == IntentTypeOK /\ QuotaRespected /\ SingleActiveContract

LEMMA IntentInvStep == IntentInv /\ [IntentNext]_intent_vars => IntentInv'
<1> SUFFICES ASSUME IntentInv, [IntentNext]_intent_vars
             PROVE  QuotaRespected' /\ SingleActiveContract'
  BY IntentTypeStep DEF IntentInv
<1> USE IntentServiceAssumption
    DEF IntentInv, IntentTypeOK, QuotaRespected, SingleActiveContract, Exists, Live
<1>1. ASSUME NEW i \in IntentId, NEW req \in CreateRequests, CreateIntent(i, req)
      PROVE  QuotaRespected' /\ SingleActiveContract'
  <2>1. req.session_id \in Session /\ req.scope.maximum_tool_calls \in Nat
    BY DEF CreateRequest, Scope
  <2>2. FromCreate(req) \in Contract
    BY FromCreateType
  <2>3. QuotaRespected'
    BY <1>1, <2>1, <2>2 DEF CreateIntent, FromCreate
  <2>4. ASSUME NEW j \in IntentId, j # i, Live(j)
        PROVE  intents[j].session_id # req.session_id
    BY <1>1, <2>4 DEF CreateIntent, Governed
  <2>5. SingleActiveContract'
    BY <1>1, <2>1, <2>2, <2>4 DEF CreateIntent, FromCreate, Contract
  <2> QED BY <2>3, <2>5
<1>2. ASSUME NEW i \in IntentId, GetIntent(i)
      PROVE  QuotaRespected' /\ SingleActiveContract'
  <2>1. intents[i] \in Contract /\ now \in Nat
    BY <1>2 DEF GetIntent
  <2> DEFINE d == Refreshed(intents[i], now)
  <2>2. /\ IsActive(d, now) <=> IsActive(intents[i], now)
        /\ d.session_id = intents[i].session_id
        /\ d.scope = intents[i].scope
        /\ d.tool_calls_count = intents[i].tool_calls_count
    BY <2>1, LivenessOfContract
  <2>3. /\ intents' = [intents EXCEPT ![i] = d]
        /\ UNCHANGED <<session_to_intent, now>>
    BY <1>2 DEF GetIntent
  <2> HIDE DEF d
  <2> QED BY <2>1, <2>2, <2>3
<1>3. ASSUME NEW s \in Session, GetIntentForSession(s)
      PROVE  QuotaRespected' /\ SingleActiveContract'
  BY <1>2, <1>3 DEF GetIntentForSession
<1>4. ASSUME NEW i \in IntentId, RevokeIntent(i)
      PROVE  QuotaRespected' /\ SingleActiveContract'
  BY <1>4 DEF RevokeIntent, IsActive, Contract
<1>5. ASSUME NEW i \in IntentId, NEW n \in NarrowRequests, NarrowIntent(i, n)
      PROVE  QuotaRespected' /\ SingleActiveContract'
  <2>1. intents[i] \in Contract /\ n \in NarrowRequest
    BY <1>5 DEF NarrowIntent
  <2>2. intents[i].tool_calls_count
          <= NarrowedScope(intents[i].scope, n).maximum_tool_calls
    BY <1>5, <2>1
    DEF NarrowIntent, IsNarrowing, CoversUsage, NarrowedScope, Given,
        NarrowRequest, Contract, Scope
  <2>3. QuotaRespected'
    BY <1>5, <2>1, <2>2 DEF NarrowIntent, Contract
  <2>4. SingleActiveContract'
    BY <1>5, <2>1 DEF NarrowIntent, Contract
  <2> QED BY <2>3, <2>4
<1>6. ASSUME NEW i \in IntentId, ReserveToolExecution(i)
      PROVE  QuotaRespected' /\ SingleActiveContract'
  <2>1. intents[i] \in Contract
    BY <1>6 DEF ReserveToolExecution
  <2> QED BY <1>6, <2>1
    DEF ReserveToolExecution, HasQuota, Contract, Scope, IsActive, PastDeadline
<1>7. CASE Tick
  <2>1. ASSUME NEW j \in IntentId, Live(j)' PROVE Live(j)
    BY <1>7, <2>1, LivenessOfContract DEF Tick
  <2> QED BY <1>7, <2>1 DEF Tick
<1>8. CASE UNCHANGED intent_vars
  BY <1>8 DEF intent_vars
<1> QED
  BY <1>1, <1>2, <1>3, <1>4, <1>5, <1>6, <1>7, <1>8 DEF IntentNext

LEMMA IntentInvariant == IntentSpec => []IntentInv
<1>1. IntentInit => IntentInv
  BY IntentServiceAssumption
  DEF IntentInit, IntentInv, IntentTypeOK, QuotaRespected, SingleActiveContract, Exists, Live
<1> QED BY <1>1, IntentInvStep, PTL DEF IntentSpec

(* No order of reserving, narrowing, expiring and revoking overdraws the   *)
(* tool quota of a contract.                                               *)
THEOREM QuotaSafe == IntentSpec => []QuotaRespected
<1>1. IntentInv => QuotaRespected
  BY DEF IntentInv
<1> QED BY <1>1, IntentInvariant, PTL

(* The contract a session index points at is the only one that can be      *)
(* active for that session.                                                *)
THEOREM SingleContractSafe == IntentSpec => []SingleActiveContract
<1>1. IntentInv => SingleActiveContract
  BY DEF IntentInv
<1> QED BY <1>1, IntentInvariant, PTL

-----------------------------------------------------------------------------
(* What each step does to the abstract quota.                              *)
LEMMA RefinementStep == IntentInv /\ IntentInv' /\ [IntentNext]_intent_vars => [Quota!Next]_Quota!vars
<1> SUFFICES ASSUME IntentInv, IntentInv', [IntentNext]_intent_vars
             PROVE  Quota!Next \/ UNCHANGED Quota!vars
  OBVIOUS
<1> USE IntentServiceAssumption
    DEF IntentInv, IntentTypeOK, Exists, Live, Phase, Owner, Limit, Used
<1>1. ASSUME NEW i \in IntentId, NEW req \in CreateRequests, CreateIntent(i, req)
      PROVE  Quota!Next
  <2> DEFINE c == FromCreate(req)
  <2>1. /\ req.session_id \in Session /\ c \in Contract
        /\ c.session_id = req.session_id /\ c.tool_calls_count = 0
        /\ c.scope.maximum_tool_calls \in Nat
    BY FromCreateType DEF CreateRequest, FromCreate, Contract, Scope
  <2>2. /\ intents' = [intents EXCEPT ![i] = c] /\ ~Exists(i) /\ now' = now
        /\ ~Governed(req.session_id)
    BY <1>1 DEF CreateIntent
  <2> HIDE DEF c
  <2>3. ASSUME NEW j \in IntentId, Live(j) PROVE Owner(j) # req.session_id
    BY <2>1, <2>2, <2>3 DEF Governed, SingleActiveContract
  <2>4. Quota!Issue(i, req.session_id)
    BY <2>1, <2>2, <2>3 DEF Quota!Issue
  <2> QED BY <2>1, <2>4 DEF Quota!Next
<1>2. ASSUME NEW i \in IntentId, GetIntent(i) PROVE UNCHANGED Quota!vars
  <2> DEFINE d == Refreshed(intents[i], now)
  <2>1. intents[i] \in Contract /\ now \in Nat /\ d \in Contract
    BY <1>2, RefreshedType DEF GetIntent
  <2>2. /\ IsActive(d, now) <=> IsActive(intents[i], now)
        /\ d.session_id = intents[i].session_id
        /\ d.scope = intents[i].scope
        /\ d.tool_calls_count = intents[i].tool_calls_count
    BY <2>1, LivenessOfContract
  <2>3. intents' = [intents EXCEPT ![i] = d] /\ now' = now
    BY <1>2 DEF GetIntent
  <2> HIDE DEF d
  <2>4. \A j \in IntentId : /\ Phase(j)' = Phase(j) /\ Owner(j)' = Owner(j)
                             /\ Limit(j)' = Limit(j) /\ Used(j)' = Used(j)
    BY <2>1, <2>2, <2>3
  <2> HIDE DEF Phase, Owner, Limit, Used
  <2> QED BY <2>4 DEF Quota!vars
<1>3. ASSUME NEW s \in Session, GetIntentForSession(s) PROVE UNCHANGED Quota!vars
  BY <1>2, <1>3 DEF GetIntentForSession
<1>4. ASSUME NEW i \in IntentId, RevokeIntent(i) PROVE Quota!Next
  <2> DEFINE c == [intents[i] EXCEPT !.status = "REVOKED"]
  <2>1. /\ intents[i] \in Contract /\ now' = now
        /\ intents' = [intents EXCEPT ![i] = c]
    BY <1>4 DEF RevokeIntent
  <2>2. /\ c \in Contract /\ ~IsActive(c, now) /\ c.session_id = intents[i].session_id
        /\ c.scope = intents[i].scope
        /\ c.tool_calls_count = intents[i].tool_calls_count
    BY <2>1 DEF IsActive, Contract, IntentStatus
  <2> HIDE DEF c
  <2>3. \A j \in IntentId :
          /\ Phase(j)' = IF j \in {i} /\ Phase(j) = "live" THEN "retired" ELSE Phase(j)
          /\ Owner(j)' = Owner(j) /\ Limit(j)' = Limit(j) /\ Used(j)' = Used(j)
    BY <2>1, <2>2
  <2> HIDE DEF Phase, Owner, Limit, Used
  <2>4. Quota!Retire({i})
    BY <2>3 DEF Quota!Retire
  <2> QED BY <2>4 DEF Quota!Next
<1>5. ASSUME NEW i \in IntentId, NEW n \in NarrowRequests, NarrowIntent(i, n)
      PROVE  Quota!Next
  <2> DEFINE m == NarrowedScope(intents[i].scope, n)
  <2>1. /\ intents[i] \in Contract /\ n \in NarrowRequest /\ Live(i) /\ now' = now
        /\ intents' = [intents EXCEPT ![i] = [@ EXCEPT !.scope = m]]
    BY <1>5 DEF NarrowIntent
  <2>a. intents[i].scope \in Scope /\ m \in Scope
    BY <2>1, NarrowedScopeType DEF Contract
  <2>b. /\ CoversUsage(n.maximum_tool_calls, intents[i].tool_calls_count)
        /\ AtMost(n.maximum_tool_calls, intents[i].scope.maximum_tool_calls)
        /\ intents[i].tool_calls_count <= intents[i].scope.maximum_tool_calls
        /\ m.maximum_tool_calls
             = Given(n.maximum_tool_calls, intents[i].scope.maximum_tool_calls)
    BY <1>5, <2>1 DEF NarrowIntent, IsNarrowing, QuotaRespected, NarrowedScope
  <2>c. /\ intents[i].scope.maximum_tool_calls \in Nat
        /\ intents[i].tool_calls_count \in Nat
        /\ n.maximum_tool_calls \in Nat \cup {None}
    BY <2>1 DEF Contract, Scope, NarrowRequest
  <2>2. /\ m \in Scope
        /\ m.maximum_tool_calls \in intents[i].tool_calls_count
                                   .. intents[i].scope.maximum_tool_calls
    BY <2>a, <2>b, <2>c, NoneAssumption DEF CoversUsage, AtMost, Given
  <2> HIDE DEF m
  <2>3. intents'[i] \in Contract
    BY <2>1, <2>2 DEF Contract
  <2>4. \A j \in IntentId :
          /\ Phase(j)' = IF j = i THEN Phase(i)' ELSE Phase(j)
          /\ Limit(j)' = IF j = i THEN m.maximum_tool_calls ELSE Limit(j)
          /\ Owner(j)' = Owner(j) /\ Used(j)' = Used(j)
    BY <2>1, <2>2 DEF Contract
  <2>5. Phase(i) = "live" /\ Phase(i)' \in {"live", "retired"}
    BY <2>1, <2>3
  <2>6. m.maximum_tool_calls \in Used(i) .. Limit(i)
    BY <2>1, <2>2
  <2> HIDE DEF Phase, Owner, Limit, Used
  <2>7. Quota!Attenuate(i)
    BY <2>4, <2>5, <2>6 DEF Quota!Attenuate
  <2> QED BY <2>7 DEF Quota!Next
<1>6. ASSUME NEW i \in IntentId, ReserveToolExecution(i) PROVE Quota!Next
  <2> DEFINE c == [intents[i] EXCEPT !.tool_calls_count = @ + 1]
  <2>1. /\ intents[i] \in Contract /\ Live(i) /\ HasQuota(intents[i]) /\ now' = now
        /\ intents' = [intents EXCEPT ![i] = c]
    BY <1>6 DEF ReserveToolExecution
  <2>a. /\ c \in Contract /\ IsActive(c, now) = IsActive(intents[i], now)
        /\ c.session_id = intents[i].session_id /\ c.scope = intents[i].scope
        /\ c.tool_calls_count = intents[i].tool_calls_count + 1
    BY <2>1 DEF IsActive, PastDeadline, Contract
  <2> HIDE DEF c
  <2>2. \A j \in IntentId :
          /\ Used(j)' = IF j = i THEN Used(i) + 1 ELSE Used(j)
          /\ Phase(j)' = Phase(j) /\ Owner(j)' = Owner(j) /\ Limit(j)' = Limit(j)
    BY <2>1, <2>a
  <2>3. Phase(i) = "live" /\ Used(i) < Limit(i)
    BY <2>1 DEF HasQuota
  <2> HIDE DEF Phase, Owner, Limit, Used
  <2>4. Quota!Use(i)
    BY <2>2, <2>3 DEF Quota!Use
  <2> QED BY <2>4 DEF Quota!Next
<1>7. CASE Tick
  <2> DEFINE S == {j \in IntentId : Live(j) /\ ~Live(j)'}
  <2>1. intents' = intents /\ now \in Nat /\ now' \in Nat /\ now <= now'
    BY <1>7 DEF Tick
  <2>2. ASSUME NEW j \in IntentId, Live(j)' PROVE Live(j)
    BY <2>1, <2>2, LivenessOfContract
  <2>3. \A j \in IntentId :
          /\ Phase(j)' = IF j \in S /\ Phase(j) = "live" THEN "retired" ELSE Phase(j)
          /\ Owner(j)' = Owner(j) /\ Limit(j)' = Limit(j) /\ Used(j)' = Used(j)
    BY <2>1, <2>2
  <2> HIDE DEF Phase, Owner, Limit, Used
  <2>4. Quota!Retire(S)
    BY <2>3 DEF Quota!Retire
  <2>5. S \in SUBSET IntentId
    OBVIOUS
  <2> HIDE DEF S
  <2> QED BY <2>4, <2>5 DEF Quota!Next
<1>8. CASE UNCHANGED intent_vars
  BY <1>8 DEF intent_vars, Quota!vars
<1> QED
  BY <1>1, <1>2, <1>3, <1>4, <1>5, <1>6, <1>7, <1>8 DEF IntentNext

(* The service implements the abstract quota of IntentQuota: whatever      *)
(* requests arrive, and however late the EXPIRED status is written, each   *)
(* step is a step of the abstract quota or changes nothing of it.          *)
THEOREM ServiceImplementsQuota == IntentSpec => ImplementsQuota
<1>1. IntentInit => Quota!Init
  BY DEF IntentInit, Quota!Init, Phase, Owner, Limit, Used, Exists
<1> QED BY <1>1, RefinementStep, IntentInvariant, PTL
        DEF IntentSpec, ImplementsQuota, Quota!Spec

-----------------------------------------------------------------------------
(* What narrowing does to a scope.                                         *)
LEMMA NarrowedPermits ==
  ASSUME NEW c \in Contract, NEW n \in NarrowRequest, IsNarrowing(c, n),
         NEW m, m = NarrowedScope(c.scope, n),
         c.scope.allowed_resources = {} \/ m.allowed_resources # {}
  PROVE  /\ Authority(m) \subseteq Authority(c.scope)
         /\ Unsupervised(m) \subseteq Unsupervised(c.scope)
<1>1. PICK s : s = c.scope
  OBVIOUS
<1>2. s \in Scope /\ m = NarrowedScope(s, n)
  BY <1>1 DEF Contract
<1>3. /\ m.allowed_tools \subseteq s.allowed_tools
      /\ m.allowed_environments \subseteq s.allowed_environments
      /\ m.allowed_data_classifications \subseteq s.allowed_data_classifications
  BY <1>1, <1>2 DEF IsNarrowing, ShrinksTo, Given, NarrowedScope
<1>4. /\ s.denied_tools \subseteq m.denied_tools
      /\ s.denied_resources \subseteq m.denied_resources
      /\ s.requires_approval \subseteq m.requires_approval
  BY <1>1, <1>2 DEF IsNarrowing, GrowsTo, Given, NarrowedScope
<1>5. s.allowed_resources # {} => m.allowed_resources \subseteq s.allowed_resources
  BY <1>1, <1>2 DEF IsNarrowing, ResourcesNarrowed, Given, NarrowedScope
<1>6. s.allowed_resources = {} \/ m.allowed_resources # {}
  BY <1>1
<1>7. ASSUME NEW op \in Operation, Permits(m, op) PROVE Permits(s, op)
  BY <1>3, <1>4, <1>5, <1>6, <1>7 DEF Permits, ResourceWithin
<1>8. \A op \in Operation : NeedsApproval(s, op) => NeedsApproval(m, op)
  BY <1>4 DEF NeedsApproval
<1> QED BY <1>1, <1>7, <1>8 DEF Authority, Unsupervised

(* A contract that keeps its scope and does not come back to life.         *)
LEMMA NotExpanded ==
  ASSUME NEW i \in IntentId, Live(i)' => Live(i) /\ intents'[i].scope = intents[i].scope
  PROVE  ~Expands(i)
BY DEF Expands, LiveAuthority, LiveUnsupervised

LEMMA ExpansionStep ==
  ASSUME IntentTypeOK, [IntentNext]_intent_vars, NEW j \in IntentId, Exists(j), Expands(j)
  PROVE  intents[j].scope.allowed_resources # {} /\ intents'[j].scope.allowed_resources = {}
<1> USE IntentServiceAssumption DEF IntentTypeOK, Exists
<1>1. intents[j] \in Contract /\ now \in Nat
  OBVIOUS
<1>2. ASSUME NEW i \in IntentId, NEW req \in CreateRequests, CreateIntent(i, req) PROVE FALSE
  BY <1>1, <1>2, NotExpanded DEF CreateIntent, Live
<1>3. ASSUME NEW i \in IntentId, GetIntent(i) PROVE FALSE
  <2>1. PICK d : d = Refreshed(intents[i], now)
    OBVIOUS
  <2>2. intents[i] \in Contract /\ intents' = [intents EXCEPT ![i] = d] /\ now' = now
    BY <1>3, <2>1 DEF GetIntent
  <2>3. d.scope = intents[i].scope /\ (IsActive(d, now) <=> IsActive(intents[i], now))
    BY <1>1, <2>1, <2>2, LivenessOfContract
  <2> QED BY <2>2, <2>3, NotExpanded DEF Live
<1>4. ASSUME NEW s \in Session, GetIntentForSession(s) PROVE FALSE
  <2>1. PICK i \in IntentId : GetIntent(i)
    BY <1>4 DEF GetIntentForSession
  <2> QED BY <1>3, <2>1
<1>5. ASSUME NEW i \in IntentId, RevokeIntent(i) PROVE FALSE
  BY <1>1, <1>5, NotExpanded DEF RevokeIntent, Live, IsActive, Contract
<1>6. ASSUME NEW i \in IntentId, NEW n \in NarrowRequests, NarrowIntent(i, n),
             intents[j].scope.allowed_resources = {} \/ intents'[j].scope.allowed_resources # {}
      PROVE  FALSE
  <2>1. CASE i # j
    BY <1>1, <1>6, <2>1, NotExpanded DEF NarrowIntent, Live
  <2>2. CASE i = j
    <3>1. PICK m : m = NarrowedScope(intents[j].scope, n)
      OBVIOUS
    <3>2. /\ n \in NarrowRequest /\ IsNarrowing(intents[j], n) /\ Live(j)
          /\ intents' = [intents EXCEPT ![j] = [@ EXCEPT !.scope = m]]
      BY <1>6, <2>2, <3>1 DEF NarrowIntent
    <3>3. intents'[j].scope = m
      BY <1>1, <3>2 DEF Contract
    <3>4. /\ Authority(m) \subseteq Authority(intents[j].scope)
          /\ Unsupervised(m) \subseteq Unsupervised(intents[j].scope)
      BY <1>1, <1>6, <3>1, <3>2, <3>3, NarrowedPermits
    <3>5. /\ LiveAuthority(j)' \subseteq Authority(m)
          /\ LiveUnsupervised(j)' \subseteq Unsupervised(m)
      <4> HIDE DEF IntentTypeOK, Exists
      <4> QED BY <3>3 DEF LiveAuthority, LiveUnsupervised, Authority, Unsupervised
    <3> QED BY <3>2, <3>4, <3>5 DEF Expands, LiveAuthority, LiveUnsupervised
  <2> QED BY <2>1, <2>2
<1>7. ASSUME NEW i \in IntentId, ReserveToolExecution(i) PROVE FALSE
  BY <1>1, <1>7, NotExpanded
  DEF ReserveToolExecution, Live, IsActive, PastDeadline, Contract
<1>8. CASE Tick
  <2>1. intents' = intents /\ now' \in Nat /\ now <= now'
    BY <1>1, <1>8 DEF Tick
  <2> QED BY <1>1, <2>1, LivenessOfContract, NotExpanded DEF Live
<1>9. CASE UNCHANGED intent_vars
  BY <1>9, NotExpanded DEF intent_vars, Live
<1> QED
  BY <1>2, <1>3, <1>4, <1>5, <1>6, <1>7, <1>8, <1>9 DEF IntentNext

(* Narrowing only narrows, and nothing brings a contract back, with the    *)
(* one exception of a resource list replaced by the empty one              *)
(* (narrow_intent: "authority_next <= authority_original").                *)
THEOREM ExpansionConfined == IntentSpec => ExpandsOnlyByEmptyingResources
<1>1. IntentTypeOK /\ [IntentNext]_intent_vars =>
        [\A i \in IntentId : Exists(i) /\ Expands(i) =>
           /\ intents[i].scope.allowed_resources # {}
           /\ intents[i]'.scope.allowed_resources = {}]_intent_vars
  BY ExpansionStep
<1> QED BY <1>1, IntentTypeCorrect, PTL DEF IntentSpec, ExpandsOnlyByEmptyingResources
=============================================================================
