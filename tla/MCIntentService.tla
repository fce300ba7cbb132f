--------------------------- MODULE MCIntentService ---------------------------
(* Small instances of IntentService for TLC.                               *)
EXTENDS IntentService

CONSTANTS s1, s2, a1, t1, t2, r1, r2, dev, prod, public, secret

FullScope ==
  [allowed_tools |-> {t1, t2}, denied_tools |-> {},
   allowed_resources |-> {r1}, denied_resources |-> {},
   allowed_environments |-> {dev, prod},
   allowed_data_classifications |-> {public, secret},
   requires_approval |-> {t2},
   maximum_tool_calls |-> 2,
   delegation_allowed |-> TRUE, maximum_delegation_depth |-> 1,
   expires_at |-> 2]

Request(s, scope) == [session_id |-> s, user_id |-> a1, agent_id |-> a1, scope |-> scope]

(* A contract with a deadline and a resource list in one session, and one  *)
(* with neither in another.                                                *)
MCCreateRequests ==
  {Request(s1, FullScope),
   Request(s2, [FullScope EXCEPT !.expires_at = None, !.allowed_resources = {},
                                 !.maximum_tool_calls = 1])}

NoChange ==
  [allowed_tools |-> None, denied_tools |-> None, allowed_resources |-> None,
   denied_resources |-> None, allowed_environments |-> None,
   allowed_data_classifications |-> None, requires_approval |-> None,
   maximum_tool_calls |-> None, delegation_allowed |-> None,
   maximum_delegation_depth |-> None, expires_at |-> None]

(* Requests that narrow, that try to widen, and that do both.              *)
MCNarrowRequests ==
  {[NoChange EXCEPT !.allowed_tools = {t2}, !.delegation_allowed = FALSE,
                    !.allowed_environments = {dev}, !.denied_resources = {r1},
                    !.allowed_data_classifications = {public}],
   [NoChange EXCEPT !.denied_tools = {t2}, !.requires_approval = {t1, t2}],
   [NoChange EXCEPT !.denied_tools = {}, !.requires_approval = {}],
   [NoChange EXCEPT !.allowed_resources = {}],
   [NoChange EXCEPT !.maximum_tool_calls = 1, !.expires_at = 1],
   [NoChange EXCEPT !.allowed_environments = {dev, prod}, !.expires_at = 2,
                    !.maximum_delegation_depth = 1, !.allowed_resources = {r1}]}
=============================================================================
