-------------------------- MODULE DelegationService --------------------------
(***************************************************************************)
(* Multi-agent delegation: the DelegationService (delegation/service.py),  *)
(* its DelegationStore (delegation/store.py), the rules that decide on a   *)
(* proposal (delegation/analyzer.py, policies/policy_input.py,             *)
(* policies/rules.py) and the IntentService whose contracts the grants     *)
(* hang under.                                                             *)
(*                                                                         *)
(* The service holds its own lock for a whole call, but reads the root     *)
(* contract under the IntentService's lock and goes on with that snapshot: *)
(* propose and resolve are two steps, with `holder` the call in between.   *)
(***************************************************************************)
EXTENDS IntentService, Integers, FiniteSets, FiniteSetsExt

CONSTANTS
  DelegationId, RequestId,   \* the uuids that will be generated
  Principals, Proposals,     \* the callers, and what they propose
  RiskyTool,                 \* tools registered as privileged or destructive
  OtherResource,             \* stands for the resources no allowlist names
  SecurityOfficer,           \* the literal "security-officer"
  UnknownGrant,              \* a parent id that no grant has
  NoGrant, NoRequest, Idle,
  MaxDepth,                  \* max_session_delegation_depth
  MaxActiveGrants,           \* max_session_active_grants
  MaxStopped                 \* bound on the trajectories quarantined

Envelope == [allowed_tools: SUBSET Tool,
             resource_scope: SUBSET (Resource \cup {OtherResource}),
             allowed_environments: SUBSET Env,
             allowed_data_classifications: SUBSET Class]

Principal == [agent_id: Agent, session_id: Session, is_control_plane: BOOLEAN]

Proposal == [session_id: Session, root_intent_id: IntentId \cup {None},
             parent_delegation_id: DelegationId \cup {None, UnknownGrant},
             delegator_agent_id: Agent, delegatee_agent_id: Agent,
             requested: Envelope, requested_max_actions: Nat \ {0},
             requested_ttl: Int, allow_subdelegation: BOOLEAN,
             requested_depth: Int \cup {None}]

(* request is the id of the approved request, None for a direct issue.     *)
Grant == [session_id: Session, root_intent_id: IntentId,
          parent_delegation_id: DelegationId \cup {None, UnknownGrant},
          delegator_agent_id: Agent, delegatee_agent_id: Agent,
          authority_envelope: Envelope, max_actions: Nat,
          depth: Nat \ {0}, remaining_subdelegation_depth: Nat,
          allow_subdelegation: BOOLEAN, expires_at: Int,
          request: RequestId \cup {None}]

Pending == [proposal: Proposal, root_intent_id: IntentId]

Call == [request: RequestId \cup {None}, principal: Principal, proposal: Proposal,
         root: IntentId, seen: Contract]

ASSUME DelegationAssumption ==
  /\ Principals \subseteq Principal
  /\ Proposals \subseteq Proposal
  /\ None \notin DelegationId \cup RequestId \cup IntentId \cup Int
  /\ UnknownGrant \notin DelegationId \cup {None}
  /\ NoGrant \notin Grant
  /\ NoRequest \notin Pending
  /\ Idle \notin Call
  /\ OtherResource \notin Resource
  /\ MaxDepth \in Nat /\ MaxActiveGrants \in Nat /\ MaxStopped \in Nat

VARIABLES
  grants,    \* _grants
  status,    \* DelegationRuntimeState.status
  executed,  \* DelegationRuntimeState.actions_executed_count
  pending,   \* _pending_approvals
  asked,     \* the request ids handed out so far
  holder,    \* the call that holds the service's lock
  stopped    \* <<intent, agent>> whose trajectory is quarantined

store_vars  == <<grants, status, executed>>
delegation_vars == <<intent_vars, store_vars, pending, asked, holder, stopped>>

Issued == {d \in DelegationId : grants[d] # NoGrant}

DelegationTypeOK ==
  /\ IntentTypeOK
  /\ grants \in [DelegationId -> Grant \cup {NoGrant}]
  /\ status \in [DelegationId -> {"ACTIVE", "REVOKED", "CLOSED"}]
  /\ executed \in [DelegationId -> Nat]
  /\ pending \in [RequestId -> Pending \cup {NoRequest}]
  /\ asked \subseteq RequestId
  /\ holder \in Call \cup {Idle}
  /\ stopped \subseteq IntentId \X Agent

DelegationInit ==
  /\ IntentInit
  /\ grants = [d \in DelegationId |-> NoGrant]
  /\ status = [d \in DelegationId |-> "ACTIVE"]
  /\ executed = [d \in DelegationId |-> 0]
  /\ pending = [r \in RequestId |-> NoRequest]
  /\ asked = {}
  /\ holder = Idle
  /\ stopped = {}

-----------------------------------------------------------------------------
(* get_chain: the grant and its ancestors, up to the first missing parent. *)
(* The least set that holds the grant and, with a grant, its parent.       *)
UpClosed(S) ==
  \A k \in S : grants[k].parent_delegation_id \in Issued
                 => grants[k].parent_delegation_id \in S

Chain(d) == {k \in Issued : \A S \in SUBSET Issued : d \in S /\ UpClosed(S) => k \in S}

(* Authority: from_intent reads an empty list as an unconstrained scope.   *)
RootEnvelope(c) ==
  [allowed_tools |-> c.scope.allowed_tools,
   resource_scope |-> IF c.scope.allowed_resources = {}
                        THEN Resource \cup {OtherResource}
                        ELSE c.scope.allowed_resources,
   allowed_environments |-> c.scope.allowed_environments,
   allowed_data_classifications |-> c.scope.allowed_data_classifications]

Within(a, b) ==
  /\ a.allowed_tools \subseteq b.allowed_tools
  /\ a.resource_scope \subseteq b.resource_scope
  /\ a.allowed_environments \subseteq b.allowed_environments
  /\ a.allowed_data_classifications \subseteq b.allowed_data_classifications

(* The intersection of the root contract with every grant of the chain.    *)
LiveEffectiveAuthority(d, root) ==
  LET Common(field) == {x \in RootEnvelope(root)[field] :
                          \A k \in Chain(d) : x \in grants[k].authority_envelope[field]}
  IN  [field \in DOMAIN RootEnvelope(root) |-> Common(field)]

-----------------------------------------------------------------------------
(* Status and budget.                                                      *)
GrantLive(k) == /\ status[k] = "ACTIVE"
                /\ now < grants[k].expires_at
                /\ executed[k] < grants[k].max_actions

(* compute_effective_status = ACTIVE.                                      *)
Usable(d) ==
  LET root == intents[grants[d].root_intent_id]
  IN  /\ IsActive(root, now) /\ HasQuota(root)
      /\ \A k \in Chain(d) : GrantLive(k)

ActiveGrants(s) == {d \in Issued : grants[d].session_id = s /\ status[d] = "ACTIVE"}

-----------------------------------------------------------------------------
(* The decision on a proposal, from the snapshot `root` of its contract.   *)
ParentIssued(p) == p.parent_delegation_id \in Issued
Parent(p) == grants[p.parent_delegation_id]

IsAuthorizedIssuer(p, by, root) ==
  /\ ~by.is_control_plane => p.delegator_agent_id = by.agent_id
  /\ IF ParentIssued(p)
       THEN p.delegator_agent_id = Parent(p).delegatee_agent_id
       ELSE p.delegator_agent_id \in {root.agent_id, root.user_id}

LineageParentOnly(d, root) == {root.agent_id, grants[d].delegatee_agent_id}
Lineage(d, root) ==
  {root.agent_id} \cup {grants[k].delegator_agent_id : k \in Chain(d)}
                  \cup {grants[k].delegatee_agent_id : k \in Chain(d)}

SessionsMatch(p, root) ==
  /\ root.session_id = p.session_id
  /\ ParentIssued(p) => Parent(p).session_id = p.session_id

IfNone(x, default) == IF x = None THEN default ELSE x

DepthWithinLimitsUnchecked(p) == TRUE
DepthWithinLimits(p) ==
  IF ParentIssued(p)
    THEN /\ Parent(p).remaining_subdelegation_depth > 0
         /\ Parent(p).depth + 1 <= MaxDepth
    ELSE IfNone(p.requested_depth, 1) \in 0 .. MaxDepth

ScopeWithinParentToolsOnly(p) ==
  ParentIssued(p) =>
    p.requested.allowed_tools \subseteq Parent(p).authority_envelope.allowed_tools
ScopeWithinParent(p) ==
  ParentIssued(p) => /\ Within(p.requested, Parent(p).authority_envelope)
                     /\ p.requested_max_actions <= Parent(p).max_actions

ScopeWithinRoot(p, root) ==
  /\ p.requested_max_actions <= root.scope.maximum_tool_calls
  /\ Within(p.requested, RootEnvelope(root))

MayDelegate(p, by, root) ==
  /\ IsActive(root, now)
  /\ IsAuthorizedIssuer(p, by, root)
  /\ ParentIssued(p) => /\ p.delegatee_agent_id \notin Lineage(p.parent_delegation_id, root)
                        /\ Parent(p).allow_subdelegation
  /\ SessionsMatch(p, root)
  /\ DepthWithinLimits(p)
  /\ ScopeWithinParent(p)
  /\ ScopeWithinRoot(p, root)

IsHighRisk(p, root) ==
  p.requested.allowed_tools \cap (RiskyTool \cup root.scope.requires_approval) # {}

-----------------------------------------------------------------------------
(* The live revalidation before an approved request is granted.            *)
Grace == 1   \* timedelta(seconds=1); the clock counts seconds

IsAuthorizedApprover(by, root) ==
  by.is_control_plane \/ by.agent_id \in {root.user_id, SecurityOfficer}

Lifetime(p, expiry) == now + p.requested_ttl <= expiry + Grace

SoundLineageStructureOnly(p, i, root) ==
  \A k \in Chain(p.parent_delegation_id) :
    /\ grants[k].parent_delegation_id \in Issued \cup {None}
    /\ grants[k].session_id = p.session_id /\ grants[k].root_intent_id = i

SoundLineageMixedRoots(p, i, root) ==
  \A k \in Chain(p.parent_delegation_id) :
    /\ grants[k].session_id = p.session_id /\ GrantLive(k)
    /\ grants[k].allow_subdelegation

SoundLineage(p, i, root) ==
  LET chain == Chain(p.parent_delegation_id)
  IN  /\ \A k \in chain :
           /\ grants[k].parent_delegation_id \in Issued \cup {None}
           /\ grants[k].session_id = p.session_id
           /\ grants[k].root_intent_id = i
           /\ GrantLive(k)
           /\ grants[k].allow_subdelegation
           /\ Lifetime(p, grants[k].expires_at)
      /\ Parent(p).remaining_subdelegation_depth > 0
      /\ Parent(p).depth + 1 <= MaxDepth
      /\ Within(p.requested, LiveEffectiveAuthority(p.parent_delegation_id, root))
      /\ p.requested_max_actions <= Parent(p).max_actions

(* Python's `requested_depth or default`: 0 counts as absent.              *)
OrDefault(x, default) == IF x \in {None, 0} THEN default ELSE x

Revalidated(p, by, i, root) ==
  /\ IsAuthorizedApprover(by, root)
  /\ IsActive(root, now) /\ root.session_id = p.session_id
  /\ HasQuota(root)
  /\ ScopeWithinRoot(p, root)
  /\ IF p.parent_delegation_id # None
       THEN ParentIssued(p) /\ SoundLineage(p, i, root)
       ELSE OrDefault(p.requested_depth, 1) <= MaxDepth
  /\ root.scope.expires_at # None => Lifetime(p, root.scope.expires_at)
  /\ <<i, p.delegator_agent_id>> \notin stopped
  /\ Cardinality(ActiveGrants(p.session_id)) < MaxActiveGrants

-----------------------------------------------------------------------------
(* create_grant.  The two callers differ in the depth a root grant leaves. *)
Least(a, b) == IF a < b THEN a ELSE b
AtLeast0(a) == IF a < 0 THEN 0 ELSE a

NewGrant(p, i, root, root_remaining, r) ==
  [session_id |-> p.session_id, root_intent_id |-> i,
   parent_delegation_id |-> p.parent_delegation_id,
   delegator_agent_id |-> p.delegator_agent_id,
   delegatee_agent_id |-> p.delegatee_agent_id,
   authority_envelope |-> p.requested,
   max_actions |->
     Least(IF ParentIssued(p) THEN Least(p.requested_max_actions, Parent(p).max_actions)
                              ELSE p.requested_max_actions,
           root.scope.maximum_tool_calls),
   depth |-> IF ParentIssued(p) THEN Parent(p).depth + 1 ELSE 1,
   remaining_subdelegation_depth |->
     IF ~p.allow_subdelegation THEN 0
     ELSE AtLeast0(IF ParentIssued(p) THEN Parent(p).remaining_subdelegation_depth - 1
                                      ELSE root_remaining),
   allow_subdelegation |-> p.allow_subdelegation,
   expires_at |-> now + p.requested_ttl,
   request |-> r]

CreateGrant(g) ==
  /\ \E d \in DelegationId \ Issued : grants' = [grants EXCEPT ![d] = g]
  /\ UNCHANGED <<status, executed>>

-----------------------------------------------------------------------------
(* propose_delegation: read the root contract, then decide.  The bounds on *)
(* ids are guards here, where no call is under way yet.                    *)
Names(p, i) == IF p.root_intent_id # None THEN i = p.root_intent_id
               ELSE session_to_intent[p.session_id] = i /\ Live(i)

Acquire(r, by, p, i) ==
  /\ holder = Idle /\ Issued # DelegationId
  /\ GetIntent(i)
  /\ holder' = [request |-> r, principal |-> by, proposal |-> p,
                root |-> i, seen |-> intents'[i]]

BeginPropose(by, p) ==
  /\ asked # RequestId
  /\ p.parent_delegation_id \in Issued \cup {None, UnknownGrant}
  /\ \E i \in IntentId : Names(p, i) /\ Acquire(None, by, p, i)
  /\ UNCHANGED <<store_vars, pending, asked, stopped>>

Proposing(c) == c.request = None
Deciding(c) == MayDelegate(c.proposal, c.principal, c.seen)

IssueDirectly(c) ==
  /\ Proposing(c) /\ Deciding(c) /\ ~IsHighRisk(c.proposal, c.seen)
  /\ CreateGrant(NewGrant(c.proposal, c.root, c.seen,
                          IfNone(c.proposal.requested_depth, MaxDepth), None))
  /\ UNCHANGED <<pending, asked>>

AskApproval(c) ==
  /\ Proposing(c) /\ Deciding(c) /\ IsHighRisk(c.proposal, c.seen)
  /\ \E r \in RequestId \ asked :
       /\ pending' = [pending EXCEPT ![r] = [proposal |-> c.proposal,
                                             root_intent_id |-> c.root]]
       /\ asked' = asked \cup {r}
  /\ UNCHANGED store_vars

Deny(c) == /\ Proposing(c) /\ ~Deciding(c)
           /\ UNCHANGED <<store_vars, pending, asked>>

(* resolve_delegation_approval: a rejection needs no root; an approval     *)
(* reads it, revalidates, and forgets the request whatever the outcome.    *)
Reject(r) ==
  /\ holder = Idle /\ pending[r] # NoRequest
  /\ pending' = [pending EXCEPT ![r] = NoRequest]
  /\ UNCHANGED <<intent_vars, store_vars, asked, holder, stopped>>

BeginResolve(r, by) ==
  /\ pending[r] # NoRequest
  /\ Acquire(r, by, pending[r].proposal, pending[r].root_intent_id)
  /\ UNCHANGED <<store_vars, pending, asked, stopped>>

ForgetNothing(r) == pending' = pending
Forget(r) == pending' = [pending EXCEPT ![r] = NoRequest]

IssueApproved(c) ==
  /\ ~Proposing(c) /\ Revalidated(c.proposal, c.principal, c.root, c.seen)
  /\ CreateGrant(NewGrant(c.proposal, c.root, c.seen,
                          OrDefault(c.proposal.requested_depth, MaxDepth) - 1, c.request))
  /\ Forget(c.request)
  /\ UNCHANGED asked

FindStale(c) ==
  /\ ~Proposing(c) /\ ~Revalidated(c.proposal, c.principal, c.root, c.seen)
  /\ Forget(c.request)
  /\ UNCHANGED <<store_vars, asked>>

Finish ==
  /\ holder # Idle /\ holder' = Idle
  /\ \/ IssueDirectly(holder) \/ AskApproval(holder) \/ Deny(holder)
     \/ IssueApproved(holder) \/ FindStale(holder)
  /\ UNCHANGED <<intent_vars, stopped>>

-----------------------------------------------------------------------------
IsAuthorizedToRevoke(d, by) ==
  LET root == intents[grants[d].root_intent_id]
  IN  IF by.is_control_plane THEN by.session_id = grants[d].session_id
      ELSE by.agent_id \in {root.agent_id, root.user_id, grants[d].delegator_agent_id}

RevokeDelegation(d, by) ==
  /\ holder = Idle /\ d \in Issued
  /\ GetIntent(grants[d].root_intent_id)
  /\ status' = IF IsAuthorizedToRevoke(d, by) THEN [status EXCEPT ![d] = "REVOKED"]
               ELSE status
  /\ UNCHANGED <<grants, executed, pending, asked, holder, stopped>>

CloseDelegation(d, by) ==
  /\ holder = Idle /\ d \in Issued
  /\ by.is_control_plane \/ by.agent_id = grants[d].delegatee_agent_id
  /\ status[d] = "ACTIVE"
  /\ status' = [status EXCEPT ![d] = "CLOSED"]
  /\ UNCHANGED <<intent_vars, grants, executed, pending, asked, holder, stopped>>

(* reserve_action_dispatch, called by the gateway on the store: it does    *)
(* not take the service's lock.  A slot is spent on the whole chain or not *)
(* at all.                                                                 *)
ChargedTargetOnly(d) == {d}
Charged(d) == Chain(d)

ReserveActionDispatch(d) ==
  /\ d \in Issued
  /\ \A k \in Chain(d) : status[k] = "ACTIVE" /\ executed[k] < grants[k].max_actions
  /\ executed' = [k \in DelegationId |-> executed[k] + IF k \in Charged(d) THEN 1 ELSE 0]
  /\ UNCHANGED <<intent_vars, grants, status, pending, asked, holder, stopped>>

(* The gateway quarantines an agent's trajectory under a contract.         *)
StopTrajectory(i, a) ==
  /\ Cardinality(stopped) < MaxStopped
  /\ stopped' = stopped \cup {<<i, a>>}
  /\ UNCHANGED <<intent_vars, store_vars, pending, asked, holder>>

IntentStep == IntentNext /\ UNCHANGED <<store_vars, pending, asked, holder, stopped>>

DelegationNext ==
  \/ \E by \in Principals, p \in Proposals : BeginPropose(by, p)
  \/ \E r \in RequestId : Reject(r)
  \/ \E r \in RequestId, by \in Principals : BeginResolve(r, by)
  \/ Finish
  \/ \E d \in DelegationId, by \in Principals : RevokeDelegation(d, by)
  \/ \E d \in DelegationId, by \in Principals : CloseDelegation(d, by)
  \/ \E d \in DelegationId : ReserveActionDispatch(d)
  \/ \E i \in IntentId, a \in Agent : StopTrajectory(i, a)
  \/ IntentStep

DelegationSpec == DelegationInit /\ [][DelegationNext]_delegation_vars
-----------------------------------------------------------------------------
(* Attenuation.  A grant never holds more than any of its ancestors: not   *)
(* in tools, resources, environments or data, and not in actions, whether  *)
(* it was issued directly or on approval (check_scope_subset_parent).      *)
Attenuation ==
  \A d \in Issued : \A k \in Chain(d) :
    /\ Within(grants[d].authority_envelope, grants[k].authority_envelope)
    /\ grants[d].max_actions <= grants[k].max_actions

(* The recorded depth is the real length of the chain, stays within the    *)
(* session's limit, and a parent had the right to delegate and one level   *)
(* more to give than its child (check_depth_limits).                       *)
DepthSound ==
  \A d \in Issued :
    /\ grants[d].depth = Cardinality(Chain(d))
    /\ grants[d].depth <= MaxDepth
    /\ \A k \in Chain(d) \ {d} :
         /\ grants[k].allow_subdelegation
         /\ grants[d].remaining_subdelegation_depth
              < grants[k].remaining_subdelegation_depth

(* Authority never flows back to an agent that already holds it: along a   *)
(* chain no two grants have the same delegatee                             *)
(* (build_delegation_create_context, the ancestor agents).                 *)
NoDelegationLoop ==
  \A d \in Issued : \A k, l \in Chain(d) :
    k # l => grants[k].delegatee_agent_id # grants[l].delegatee_agent_id

(* Siblings share their parent's budget: what the children of a grant have *)
(* spent together was spent by the grant too, and never exceeds its cap    *)
(* (reserve_action_dispatch: one slot "across the grant and all ancestors").*)
BudgetShared ==
  \A d \in Issued :
    /\ executed[d] <= grants[d].max_actions
    /\ MapThenSumSet(LAMBDA k : executed[k],
                     {k \in Issued : grants[k].parent_delegation_id = d}) <= executed[d]

(* A grant that stopped authorising never authorises again, whichever of   *)
(* its ancestors, its contract, a budget or a deadline stopped it          *)
(* (compute_effective_status; revoking must "invalidate all descendant     *)
(* authority", api/v1/delegations.py).                                     *)
NeverRegained == [][\A d \in Issued : Usable(d)' => Usable(d)]_delegation_vars

(* One approval gives one grant, however often and by whoever the request  *)
(* is resolved (resolve_delegation_approval forgets the request).          *)
OneGrantPerRequest ==
  \A d, e \in Issued :
    grants[d].request # None /\ grants[d].request = grants[e].request => d = e

(* A grant issued on approval hangs under one contract: no ancestor comes  *)
(* from another contract of the session, and the chain reaches its root    *)
(* ("exists, same session, same root").                                    *)
ApprovedLineageSound ==
  \A d \in Issued : grants[d].request # None =>
    \A k \in Chain(d) :
      /\ grants[k].root_intent_id = grants[d].root_intent_id
      /\ grants[k].parent_delegation_id \in Issued \cup {None}

(* An approval given late is not an approval of something else: whatever   *)
(* was revoked, closed, spent, expired or quarantined while the request    *)
(* waited, the grant is issued under a chain that is live and by an agent  *)
(* that is not quarantined (resolve_delegation_approval, steps 7 and 8).   *)
ApprovalNotStale ==
  [][\A d \in DelegationId \ Issued : d \in Issued' /\ grants[d]'.request # None =>
       /\ \A k \in Chain(d)' \ {d} : GrantLive(k)
       /\ <<grants[d]'.root_intent_id, grants[d]'.delegator_agent_id>> \notin stopped]_delegation_vars

-----------------------------------------------------------------------------
(* What the repository's texts say of delegation and the code does not do. *)

(* RULE_DELEGATION_INVALID_PARENT, "Referenced parent delegation grant does*)
(* not exist": the rule is skipped exactly when the parent is missing.     *)
ParentExists ==
  \A d \in Issued : grants[d].parent_delegation_id \in Issued \cup {None}

(* RULE_DELEGATION_INVALID_PARENT, "or is invalid": propose_delegation     *)
(* never looks at the status of the chain it extends.                      *)
IssuedUnderActiveChain ==
  [][\A d \in DelegationId \ Issued : d \in Issued' =>
       \A k \in Chain(d)' \ {d} : status[k] = "ACTIVE"]_delegation_vars

(* "Session active delegation grant count limit exceeded": only approvals  *)
(* are counted against the limit.                                          *)
ActiveGrantsLimited == \A s \in Session : Cardinality(ActiveGrants(s)) <= MaxActiveGrants

(* resolve_delegation_approval resolves "with atomic live revalidation":   *)
(* the contract is a snapshot taken under another lock.                    *)
ApprovedUnderLiveRoot ==
  [][\A d \in DelegationId \ Issued : d \in Issued' /\ grants[d]'.request # None =>
       Live(grants[d]'.root_intent_id)]_delegation_vars

(* IntentContract.delegation_allowed: "Whether agent may delegate          *)
(* subtasks"; no rule reads it, so a contract that forbids delegation is   *)
(* delegated like any other.                                               *)
DelegationOnlyWhenAllowed ==
  [][\A d \in DelegationId \ Issued : d \in Issued' =>
       intents[grants[d]'.root_intent_id].scope.delegation_allowed]_delegation_vars
=============================================================================
