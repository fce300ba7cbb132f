--------------------------- MODULE IntentContract ---------------------------
(***************************************************************************)
(* The intent contract: the task-scoped authority that a trusted control   *)
(* plane gives one agent for one session (schemas/intent.py), what a       *)
(* contract permits (policies/intent_rules.py) and how far a narrowing     *)
(* request may change it (intent/service.py).  Pure operators, no state.   *)
(*                                                                         *)
(* A target operation is a tool applied to a resource in an environment,   *)
(* handling data of one classification.  Field names are the source's.     *)
(***************************************************************************)
EXTENDS Naturals

CONSTANTS Session,
          Agent,        \* the ids of agents and of the users they act for
          Tool, Resource, Env, Class,
          ScopedTool,   \* tools whose ToolSpec has resource_scoped = True
          None          \* Python's None

ASSUME ScopedToolAssumption == ScopedTool \subseteq Tool
ASSUME NoneAssumption == None \notin Nat

IntentStatus == {"ACTIVE", "EXPIRED", "REVOKED", "COMPLETED"}

Scope == [allowed_tools: SUBSET Tool, denied_tools: SUBSET Tool,
          allowed_resources: SUBSET Resource, denied_resources: SUBSET Resource,
          allowed_environments: SUBSET Env,
          allowed_data_classifications: SUBSET Class,
          requires_approval: SUBSET Tool,
          maximum_tool_calls: Nat,
          delegation_allowed: BOOLEAN, maximum_delegation_depth: Nat,
          expires_at: Nat \cup {None}]

Contract == [session_id: Session, user_id: Agent \cup {None}, agent_id: Agent, scope: Scope,
             tool_calls_count: Nat, status: IntentStatus]

CreateRequest == [session_id: Session, user_id: Agent \cup {None}, agent_id: Agent, scope: Scope]

(* IntentContractNarrow: every field may be absent.                        *)
NarrowRequest ==
  [allowed_tools: (SUBSET Tool) \cup {None}, denied_tools: (SUBSET Tool) \cup {None},
   allowed_resources: (SUBSET Resource) \cup {None},
   denied_resources: (SUBSET Resource) \cup {None},
   allowed_environments: (SUBSET Env) \cup {None},
   allowed_data_classifications: (SUBSET Class) \cup {None},
   requires_approval: (SUBSET Tool) \cup {None},
   maximum_tool_calls: Nat \cup {None},
   delegation_allowed: BOOLEAN \cup {None},
   maximum_delegation_depth: Nat \cup {None},
   expires_at: Nat \cup {None}]

-----------------------------------------------------------------------------
FromCreateUncounted(req) == [session_id |-> req.session_id, user_id |-> req.user_id,
                             agent_id |-> req.agent_id, scope |-> req.scope,
                             tool_calls_count |-> None, status |-> "ACTIVE"]
FromCreate(req) == [session_id |-> req.session_id, user_id |-> req.user_id,
                    agent_id |-> req.agent_id,
                    scope |-> req.scope, tool_calls_count |-> 0,
                    status |-> "ACTIVE"]

PastDeadline(c, now) == c.scope.expires_at # None /\ now >= c.scope.expires_at

IsActive(c, now) == c.status = "ACTIVE" /\ ~PastDeadline(c, now)

(* The two getters write the EXPIRED status back when the deadline passed. *)
Refreshed(c, now) ==
  IF c.status = "ACTIVE" /\ PastDeadline(c, now)
    THEN [c EXCEPT !.status = "EXPIRED"] ELSE c

HasQuotaOffByOne(c) == c.tool_calls_count <= c.scope.maximum_tool_calls
HasQuota(c) == c.tool_calls_count < c.scope.maximum_tool_calls

-----------------------------------------------------------------------------
(* What the intent rules let through, leaving approval aside.  An empty    *)
(* allowed_resources leaves the resource unconstrained.                    *)
Operation == [tool: Tool, resource: Resource, env: Env, class: Class]

ResourceWithin(scope, op) ==
  /\ op.resource \notin scope.denied_resources
  /\ scope.allowed_resources # {} /\ op.tool \in ScopedTool
       => op.resource \in scope.allowed_resources

Permits(scope, op) ==
  /\ op.tool \in scope.allowed_tools \ scope.denied_tools
  /\ op.env \in scope.allowed_environments
  /\ op.class \in scope.allowed_data_classifications
  /\ ResourceWithin(scope, op)

NeedsApproval(scope, op) == op.tool \in scope.requires_approval

Authority(scope) == {op \in Operation : Permits(scope, op)}

Unsupervised(scope) == {op \in Authority(scope) : ~NeedsApproval(scope, op)}

-----------------------------------------------------------------------------
Given(new, old) == IF new = None THEN old ELSE new

ShrinksTo(new, old) == new # None => new \subseteq old
GrowsToUnchecked(new, old) == TRUE
GrowsTo(new, old)   == new # None => old \subseteq new
AtMostUnchecked(new, old) == TRUE
AtMost(new, old)    == None \notin {new, old} => new <= old

(* The resource check only runs when the current list is not empty.        *)
ResourcesNarrowed(new, old) == new # None /\ old # {} => new \subseteq old

CoversUsageUnchecked(limit, used) == TRUE
CoversUsage(limit, used) == limit # None => limit >= used

(* The checks of narrow_intent that raise AuthorityExpansionError.         *)
IsNarrowing(c, n) ==
  /\ n.allowed_tools # {} /\ ShrinksTo(n.allowed_tools, c.scope.allowed_tools)
  /\ GrowsTo(n.denied_tools, c.scope.denied_tools)
  /\ ResourcesNarrowed(n.allowed_resources, c.scope.allowed_resources)
  /\ GrowsTo(n.denied_resources, c.scope.denied_resources)
  /\ ShrinksTo(n.allowed_environments, c.scope.allowed_environments)
  /\ ShrinksTo(n.allowed_data_classifications, c.scope.allowed_data_classifications)
  /\ GrowsTo(n.requires_approval, c.scope.requires_approval)
  /\ ShrinksTo(n.requires_approval, Given(n.allowed_tools, c.scope.allowed_tools))
  /\ AtMost(n.maximum_tool_calls, c.scope.maximum_tool_calls)
  /\ CoversUsage(n.maximum_tool_calls, c.tool_calls_count)
  /\ n.delegation_allowed = TRUE => c.scope.delegation_allowed
  /\ AtMost(n.maximum_delegation_depth, c.scope.maximum_delegation_depth)
  /\ AtMost(n.expires_at, c.scope.expires_at)

NarrowedScope(s, n) ==
  [allowed_tools        |-> Given(n.allowed_tools, s.allowed_tools),
   denied_tools         |-> Given(n.denied_tools, s.denied_tools),
   allowed_resources    |-> Given(n.allowed_resources, s.allowed_resources),
   denied_resources     |-> Given(n.denied_resources, s.denied_resources),
   allowed_environments |-> Given(n.allowed_environments, s.allowed_environments),
   allowed_data_classifications |->
     Given(n.allowed_data_classifications, s.allowed_data_classifications),
   requires_approval    |-> Given(n.requires_approval, s.requires_approval),
   maximum_tool_calls   |-> Given(n.maximum_tool_calls, s.maximum_tool_calls),
   delegation_allowed   |-> Given(n.delegation_allowed, s.delegation_allowed),
   maximum_delegation_depth |->
     Given(n.maximum_delegation_depth, s.maximum_delegation_depth),
   expires_at           |-> Given(n.expires_at, s.expires_at)]
=============================================================================
