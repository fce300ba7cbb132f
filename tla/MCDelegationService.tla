------------------------- MODULE MCDelegationService -------------------------
(* Small instances of DelegationService for TLC.                           *)
EXTENDS DelegationService, TLC

CONSTANTS s1, s2, a0, a1, a2, user, t1, t2, r1, r2, dev, public, i1, i2, d1, d2, d3

RootScope ==
  [allowed_tools |-> {t1, t2}, denied_tools |-> {}, allowed_resources |-> {},
   denied_resources |-> {}, allowed_environments |-> {dev},
   allowed_data_classifications |-> {public}, requires_approval |-> {},
   maximum_tool_calls |-> 2, delegation_allowed |-> TRUE,
   maximum_delegation_depth |-> 2, expires_at |-> None]

Request(scope) == [session_id |-> s1, user_id |-> user, agent_id |-> a0, scope |-> scope]

By(a) == [agent_id |-> a, session_id |-> s1, is_control_plane |-> FALSE]
ControlPlane(s) == [agent_id |-> user, session_id |-> s, is_control_plane |-> TRUE]

All == [allowed_tools |-> {t1, t2}, resource_scope |-> Resource \cup {OtherResource},
        allowed_environments |-> {dev}, allowed_data_classifications |-> {public}]
Narrow == [All EXCEPT !.allowed_tools = {t1}, !.resource_scope = {r1}]

Proposes(from, to, parent, envelope, max) ==
  [session_id |-> s1, root_intent_id |-> None, parent_delegation_id |-> parent,
   delegator_agent_id |-> from, delegatee_agent_id |-> to,
   requested |-> envelope, requested_max_actions |-> max,
   requested_ttl |-> 2, allow_subdelegation |-> TRUE, requested_depth |-> 2]

NoChange ==
  [allowed_tools |-> None, denied_tools |-> None, allowed_resources |-> None,
   denied_resources |-> None, allowed_environments |-> None,
   allowed_data_classifications |-> None, requires_approval |-> None,
   maximum_tool_calls |-> None, delegation_allowed |-> None,
   maximum_delegation_depth |-> None, expires_at |-> None]

Permuted == Permutations(DelegationId) \cup Permutations(IntentId)

-----------------------------------------------------------------------------
(* Chains: a root grant, subdelegations that attenuate, repeat or try to   *)
(* widen it, and one that would hand the authority back; no approvals.     *)
(* Everything that can end a grant's life, and what might bring it back:   *)
(* deadlines, revocations, closures, spent budgets, and a contract that    *)
(* expires, is revoked, is narrowed, or asks for more than it had.         *)
LineageCreate == {Request([RootScope EXCEPT !.expires_at = 1])}
LineageNarrow ==
  {[NoChange EXCEPT !.maximum_tool_calls = 1],
   [NoChange EXCEPT !.maximum_tool_calls = 2, !.expires_at = 2]}
ForbiddingCreate == {Request([RootScope EXCEPT !.delegation_allowed = FALSE])}
LineagePrincipals == {By(a1), ControlPlane(s1)}
LineageProposals ==
  {Proposes(a0, a1, None, All, 2),
   [Proposes(a0, a1, None, Narrow, 1) EXCEPT !.requested_depth = 1, !.requested_ttl = 1]}
  \cup {Proposes(a1, a2, d, All, 2) : d \in DelegationId}
  \cup {Proposes(a1, a2, d, e, 1) :
          e \in {Narrow, [All EXCEPT !.allowed_tools = {t1}]}, d \in DelegationId}
  \cup {Proposes(a2, to, d, Narrow, 1) : to \in {a1, user}, d \in DelegationId}

(* Approvals: t2 is a risky tool, so that a request waits for a human      *)
(* while contracts, parents and trajectories change; t1 becomes one when   *)
(* the contract is narrowed.  Parent ids may be made up.                   *)
Safe == [All EXCEPT !.allowed_tools = {t1}]
ApprovalCreate == {Request([RootScope EXCEPT !.maximum_tool_calls = 1])}
ApprovalNarrow == {[NoChange EXCEPT !.requires_approval = {t1, t2}]}
ApprovalPrincipals == {By(a1), ControlPlane(s1)}
ApprovalProposals ==
  {[Proposes(a0, a1, None, All, 1) EXCEPT !.requested_depth = 0],
   Proposes(a0, a1, None, Safe, 1), Proposes(a0, a1, UnknownGrant, Safe, 1)}
  \cup {Proposes(a1, a2, d, Safe, 1) : d \in DelegationId}
=============================================================================
