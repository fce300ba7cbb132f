---------------------------- MODULE MCAgentGateway ----------------------------
(* Small instances of AgentGateway for TLC.                                *)
EXTENDS AgentGateway, TLC

CONSTANTS s1, a0, a1, user, t1, t2, r1, r2, dev, public, i1, i2, d1, d2, x1, x2, x3, w1, w2

RootScope ==
  [allowed_tools |-> {t1, t2}, denied_tools |-> {}, allowed_resources |-> {},
   denied_resources |-> {}, allowed_environments |-> {dev},
   allowed_data_classifications |-> {public}, requires_approval |-> {t2},
   maximum_tool_calls |-> 2, delegation_allowed |-> TRUE,
   maximum_delegation_depth |-> 2, expires_at |-> None]

Request(scope) == [session_id |-> s1, user_id |-> user, agent_id |-> a0, scope |-> scope]

NoChange ==
  [allowed_tools |-> None, denied_tools |-> None, allowed_resources |-> None,
   denied_resources |-> None, allowed_environments |-> None,
   allowed_data_classifications |-> None, requires_approval |-> None,
   maximum_tool_calls |-> None, delegation_allowed |-> None,
   maximum_delegation_depth |-> None, expires_at |-> None]

(* t1 is unsupervised, t2 waits for a human.                               *)
Uses(tool, parent) ==
  [session_id |-> s1, agent_id |-> a0, intent_contract_id |-> None,
   parent_action_id |-> parent, delegation_id |-> None,
   operation |-> [tool |-> tool, resource |-> r1, env |-> dev, class |-> public],
   sensitive_egress |-> FALSE, other |-> "ALLOW"]

Egress(parent) == [Uses(t1, parent) EXCEPT !.sensitive_egress = TRUE]
Probing(p) == [p EXCEPT !.other = "QUARANTINE"]
Blocked(p) == [p EXCEPT !.other = "DENY"]

Parents == ActionId \cup {None}

Permuted == Permutations(ActionId) \cup Permutations(Worker)
              \cup Permutations(DelegationId)

-----------------------------------------------------------------------------
(* One event loop: approvals, denials, egress, and a contract that is      *)
(* narrowed, revoked and replaced in between.                              *)
LoopCreate == {Request(RootScope)}
LoopNarrow ==
  {[NoChange EXCEPT !.allowed_tools = {t1}, !.requires_approval = {t1}],
   [NoChange EXCEPT !.denied_tools = {t2}, !.maximum_tool_calls = 1]}
DenyResource == {[NoChange EXCEPT !.denied_resources = {r1}]}
LoopProposals ==
  {Uses(t, parent) : t \in Tool, parent \in Parents} \cup {Egress(parent) : parent \in Parents}
  \cup {Probing(Uses(t1, None))}

ExpiringCreate == {Request([RootScope EXCEPT !.expires_at = 1])}

(* Threads: two calls at once on one trajectory.                           *)
ThreadCreate == {Request(RootScope)}
ThreadProposals ==
  {Uses(t2, parent) : parent \in Parents} \cup {Egress(parent) : parent \in Parents}
  \cup {Blocked(Egress(parent)) : parent \in Parents}

(* Delegation: a0 delegates to a1, who proposes actions under the grant.   *)
By(a) == [agent_id |-> a, session_id |-> s1, is_control_plane |-> FALSE]

Narrow == [allowed_tools |-> {t1, t2}, resource_scope |-> {r1},
           allowed_environments |-> {dev}, allowed_data_classifications |-> {public}]

Proposes(from, to, parent, max) ==
  [session_id |-> s1, root_intent_id |-> None, parent_delegation_id |-> parent,
   delegator_agent_id |-> from, delegatee_agent_id |-> to,
   requested |-> Narrow, requested_max_actions |-> max,
   requested_ttl |-> 2, allow_subdelegation |-> TRUE, requested_depth |-> 2]

DelegatedCreate == {Request([RootScope EXCEPT !.requires_approval = {}])}
DelegatedPrincipals == {By(a0), By(a1)}
DelegatedGrants == {Proposes(a0, a1, None, 1)} \cup {Proposes(a1, user, d, 1) : d \in DelegationId}
As(agent, d, p) == [p EXCEPT !.agent_id = agent, !.delegation_id = d]
DelegatedProposals ==
  {As(agent, d, Uses(t1, None)) : agent \in {a1, user}, d \in DelegationId}
  \cup {As(user, d, [Uses(t1, None) EXCEPT !.operation.resource = r2]) : d \in DelegationId}
SupervisedDelegatedProposals ==
  {As(a1, d, [Uses(t1, None) EXCEPT !.other = "REQUIRE_APPROVAL"]) : d \in DelegationId}
RefundProposals == {Uses(t1, None)} \cup {As(a1, d, Uses(t1, None)) : d \in DelegationId}
=============================================================================
