------------------------------ MODULE PolicyRules ------------------------------
(***************************************************************************)
(* The rules that decide on an action: DeterministicPolicyEvaluator with   *)
(* the intent rules (policies/rules.py, policies/intent_rules.py).  The    *)
(* input document is the set of the facts that hold in it; the absent      *)
(* ones are false.  Rules are named without their prefix RULE_.            *)
(*                                                                         *)
(* The rules on CREATE_GRANT are in DelegationService, which alone         *)
(* evaluates them.  Those on RESOLVE_APPROVAL and REVOKE_GRANT have no     *)
(* caller, and nothing completes a contract.                               *)
(***************************************************************************)
EXTENDS Naturals, FiniteSets

ActionFact == {"DELEGATION", "DESTRUCTIVE", "EXECUTE"}   \* action types
EnvironmentFact == {"PRODUCTION", "STAGING"}

(* secret_data: the effective classifications hold SECRET or CREDENTIAL.   *)
ToolFact == {"unknown_tool", "privileged", "destructive", "external_sink",
             "requires_tracked_inputs", "secret_data"}

IntentFact == {"no_contract", "require_intent", "intent_mismatch", "other_agent",
               "revoked", "expired", "past_deadline", "quota_spent", "tool_denied",
               "tool_outside", "environment_outside", "resource_denied",
               "resource_outside", "data_outside", "approval_tool"}

(* Failures of the analyses have the name of the rule that denies on them. *)
GraphFailure == {"GRAPH_DEPTH_LIMIT_EXCEEDED", "GRAPH_NODE_LIMIT_EXCEEDED",
                 "GRAPH_INVALID_DAG"}
GraphFact == {"sensitive_ancestor", "denied_ancestor", "two_prior_probes",
              "lower_environment_ancestor", "high_environment_ancestor"}

ProvenanceFailure ==
  {"PROVENANCE_DEPTH_LIMIT_EXCEEDED", "PROVENANCE_ARTIFACT_LIMIT_EXCEEDED",
   "PROVENANCE_MISSING_ARTIFACT", "PROVENANCE_CROSS_SESSION_REFERENCE",
   "PROVENANCE_INVALID_LINEAGE", "PROVENANCE_CYCLE_DETECTED"}
ProvenanceFact == {"payload_unbound", "credential_input", "sensitive_input",
                   "untrusted_input", "unknown_input"}

(* Of the failing statuses the analyzer reports these two.                 *)
TrajectoryFailure == {"TRAJECTORY_ACTION_DEPTH_LIMIT_EXCEEDED",
                      "TRAJECTORY_NODE_LIMIT_EXCEEDED"}
TrajectoryStopped == {"TRAJECTORY_QUARANTINED", "TRAJECTORY_ABORTED"}
TrajectoryFact == {"untrusted_path", "untrusted_path_to_access", "untrusted_path_to_egress",
                   "authority_expansion", "egress_threshold", "hop_laundering"}

GrantInactive == {"DELEGATION_REVOKED", "DELEGATION_CLOSED", "DELEGATION_EXPIRED",
                  "consumed", "root_invalid", "ancestor_invalid"}
OutsideGrant == {"tool_outside_grant", "resource_outside_grant",
                 "environment_outside_grant", "classification_outside_grant"}
GrantFact == {"delegated", "not_delegatee", "budget_spent"} \cup OutsideGrant

Fact == ActionFact \cup EnvironmentFact \cup ToolFact \cup IntentFact
          \cup GraphFailure \cup GraphFact \cup ProvenanceFailure \cup ProvenanceFact
          \cup TrajectoryFailure \cup TrajectoryStopped \cup TrajectoryFact
          \cup GrantInactive \cup GrantFact

-----------------------------------------------------------------------------
(* What the builders of the document guarantee.                            *)
AtMostOne(c, S) == \A x, y \in c \cap S : x = y
Excludes(c, S, T) == c \cap S # {} => c \cap T = {}

ContractFact == IntentFact \ {"no_contract", "require_intent", "intent_mismatch"}

Coherent(c) ==
  /\ AtMostOne(c, ActionFact) /\ AtMostOne(c, EnvironmentFact)
  /\ "unknown_tool" \in c => "privileged" \in c
  /\ AtMostOne(c, {"revoked", "expired"})
  /\ Excludes(c, {"no_contract"},
              ContractFact \cup TrajectoryFact \cup TrajectoryStopped \cup TrajectoryFailure)
  \* the gateway sets intent_mismatch for an agent that is not delegated to
  /\ "other_agent" \in c => c \cap {"delegated", "intent_mismatch"} # {}
  /\ AtMostOne(c, GraphFailure) /\ Excludes(c, GraphFailure, GraphFact)
  /\ AtMostOne(c, ProvenanceFailure) /\ Excludes(c, ProvenanceFailure, ProvenanceFact)
  /\ AtMostOne(c, TrajectoryFailure \cup TrajectoryStopped)
  /\ Excludes(c, TrajectoryFailure \cup TrajectoryStopped, TrajectoryFact)
  /\ c \cap {"untrusted_path_to_access", "untrusted_path_to_egress"} # {}
       => "untrusted_path" \in c
  /\ c \cap {"hop_laundering", "untrusted_path_to_egress"} # {} => "external_sink" \in c
  /\ AtMostOne(c, GrantInactive)
  /\ c \cap (GrantFact \cup GrantInactive) # {} => "delegated" \in c

-----------------------------------------------------------------------------
If(condition, rule) == IF condition THEN {rule} ELSE {}

(* Delegation that lets an agent act under the contract of another.        *)
ValidlyDelegated(c) ==
  \/ "DELEGATION" \in c
  \/ "delegated" \in c
     /\ c \cap (GrantInactive \cup OutsideGrant \cup {"not_delegatee"}) = {}

ScopeRules(c) ==
  If("tool_denied" \in c, "TOOL_EXPLICITLY_DENIED")
  \cup If("tool_outside" \in c, "TOOL_OUTSIDE_INTENT")
  \cup If("environment_outside" \in c, "ENVIRONMENT_OUTSIDE_INTENT")
  \cup If("resource_denied" \in c, "RESOURCE_EXPLICITLY_DENIED")
  \cup If("resource_outside" \in c, "RESOURCE_OUTSIDE_INTENT")
  \cup If("data_outside" \in c, "DATA_SCOPE_VIOLATION")
  \cup If("approval_tool" \in c, "APPROVAL_TOOL")

(* evaluate_intent returns at the first of these that applies.             *)
IntentRules(c) ==
  IF "intent_mismatch" \in c THEN {"INTENT_MISMATCH"}
  ELSE IF "no_contract" \in c THEN If("require_intent" \in c, "INTENT_MISSING")
  ELSE IF "revoked" \in c THEN {"INTENT_REVOKED"}
  ELSE IF c \cap {"expired", "past_deadline"} # {} THEN {"INTENT_EXPIRED"}
  ELSE IF "other_agent" \in c /\ ~ValidlyDelegated(c) THEN {"INTENT_MISMATCH"}
  ELSE IF "DELEGATION" \in c THEN {"INTENT_ALLOW"}
  ELSE IF "quota_spent" \in c THEN {"TOOL_BUDGET_EXCEEDED"}
  ELSE IF ScopeRules(c) = {} THEN {"INTENT_ALLOW"}
  ELSE ScopeRules(c)

IsDestructive(c) == c \cap {"destructive", "DESTRUCTIVE"} # {}
IsPrivilegedOrDestructive(c) ==
  c \cap {"privileged", "destructive", "DESTRUCTIVE", "EXECUTE"} # {}

RuntimeRules(c) ==
  If({"secret_data", "external_sink"} \subseteq c, "B_CREDENTIAL_EXTERNAL_EXFILTRATION")
  \cup If("PRODUCTION" \in c /\ IsDestructive(c), "A_PRODUCTION_DESTRUCTIVE")
  \cup If("DELEGATION" \notin c /\ "unknown_tool" \in c /\ IsPrivilegedOrDestructive(c),
          "C_UNKNOWN_TOOL_PRIVILEGED")

IsProbe(c) == "unknown_tool" \in c \/ IsPrivilegedOrDestructive(c)

GraphRules(c) ==
  (c \cap GraphFailure)
  \cup If({"external_sink", "sensitive_ancestor"} \subseteq c,
          "GRAPH_EXTERNAL_AFTER_SENSITIVE_ACCESS")
  \cup If("denied_ancestor" \in c /\ IsPrivilegedOrDestructive(c),
          "GRAPH_DENIED_ANCESTOR_ESCALATION")
  \cup If("two_prior_probes" \in c /\ IsProbe(c), "GRAPH_REPEATED_PRIVILEGE_PROBING")
  \cup If(/\ "lower_environment_ancestor" \in c /\ "high_environment_ancestor" \notin c
          /\ c \cap EnvironmentFact # {} /\ IsPrivilegedOrDestructive(c),
          "GRAPH_ENVIRONMENT_ESCALATION")

ProvenanceRules(c) ==
  (c \cap ProvenanceFailure)
  \cup If({"external_sink", "requires_tracked_inputs", "payload_unbound"} \subseteq c,
          "PROVENANCE_UNTRACKED_EGRESS")
  \cup If({"external_sink", "credential_input"} \subseteq c,
          "PROVENANCE_CREDENTIAL_TO_EXTERNAL")
  \cup If({"external_sink", "sensitive_input"} \subseteq c,
          "PROVENANCE_SENSITIVE_TO_EXTERNAL")
  \cup If("untrusted_input" \in c /\ IsPrivilegedOrDestructive(c),
          "PROVENANCE_UNTRUSTED_TO_PRIVILEGED")
  \cup If("unknown_input" \in c /\ IsPrivilegedOrDestructive(c),
          "PROVENANCE_UNKNOWN_TO_PRIVILEGED")

TrajectoryRules(c) ==
  (c \cap (TrajectoryStopped \cup TrajectoryFailure))
  \cup If("untrusted_path_to_access" \in c, "TRAJECTORY_UNTRUSTED_PATH_TO_SENSITIVE_ACCESS")
  \cup If("untrusted_path_to_egress" \in c, "TRAJECTORY_UNTRUSTED_PATH_TO_SENSITIVE_EGRESS")
  \cup If({"authority_expansion", "untrusted_path"} \subseteq c,
          "TRAJECTORY_INFORMATION_CANNOT_EXPAND_AUTHORITY")
  \cup If("egress_threshold" \in c, "TRAJECTORY_CUMULATIVE_SENSITIVE_EGRESS")
  \cup If("hop_laundering" \in c, "TRAJECTORY_SENSITIVE_HOP_LAUNDERING")

DelegatedActionRules(c) ==
  (c \cap {"DELEGATION_REVOKED", "DELEGATION_CLOSED", "DELEGATION_EXPIRED"})
  \cup If("not_delegatee" \in c, "DELEGATION_PRINCIPAL_MISMATCH")
  \cup If(c \cap {"consumed", "budget_spent"} # {}, "DELEGATION_BUDGET_EXHAUSTED")
  \cup If("root_invalid" \in c, "DELEGATION_ROOT_INTENT_INVALID")
  \cup If("ancestor_invalid" \in c, "DELEGATION_INVALID_PARENT")
  \cup If("tool_outside_grant" \in c, "DELEGATION_TOOL_NOT_AUTHORIZED")
  \cup If("resource_outside_grant" \in c, "DELEGATION_RESOURCE_NOT_AUTHORIZED")
  \cup If("environment_outside_grant" \in c, "DELEGATION_ENVIRONMENT_NOT_AUTHORIZED")
  \cup If("classification_outside_grant" \in c, "DELEGATION_CLASSIFICATION_NOT_AUTHORIZED")

RestrictiveRules(c) ==
  IntentRules(c) \cup RuntimeRules(c) \cup GraphRules(c) \cup ProvenanceRules(c)
    \cup TrajectoryRules(c) \cup DelegatedActionRules(c)

MatchedRulesOfIntentFirst(c) ==
  IF IntentRules(c) \in {{}, {"INTENT_ALLOW"}} THEN RestrictiveRules(c) ELSE IntentRules(c)
MatchedRules(c) ==
  IF RestrictiveRules(c) = {} THEN {"D_NORMAL_LOW_RISK"} ELSE RestrictiveRules(c)

-----------------------------------------------------------------------------
(* Each rule carries its decision; the most severe of them is the verdict. *)
AllowRule == {"INTENT_ALLOW", "D_NORMAL_LOW_RISK"}
ApprovalRule ==
  {"APPROVAL_TOOL", "A_PRODUCTION_DESTRUCTIVE", "C_UNKNOWN_TOOL_PRIVILEGED",
   "GRAPH_DENIED_ANCESTOR_ESCALATION", "GRAPH_ENVIRONMENT_ESCALATION",
   "PROVENANCE_UNTRUSTED_TO_PRIVILEGED", "PROVENANCE_UNKNOWN_TO_PRIVILEGED",
   "TRAJECTORY_UNTRUSTED_PATH_TO_SENSITIVE_ACCESS"}
QuarantineRule ==
  {"GRAPH_REPEATED_PRIVILEGE_PROBING", "TRAJECTORY_CUMULATIVE_SENSITIVE_EGRESS"}

DenyRule(rule) == rule \notin AllowRule \cup ApprovalRule \cup QuarantineRule

Verdict == {"DENY", "QUARANTINE", "REQUIRE_APPROVAL", "ALLOW"}

Severity(verdict) ==
  CASE verdict = "DENY" -> 6 [] verdict = "QUARANTINE" -> 5
    [] verdict = "REQUIRE_APPROVAL" -> 3 [] OTHER -> 1

(* resolve_decision_outcome; no rule at all denies.                        *)
Resolve(rules) ==
  IF rules = {} \/ \E rule \in rules : DenyRule(rule) THEN "DENY"
  ELSE IF rules \cap QuarantineRule # {} THEN "QUARANTINE"
  ELSE IF rules \cap ApprovalRule # {} THEN "REQUIRE_APPROVAL"
  ELSE "ALLOW"

PythonVerdict(c) == Resolve(MatchedRules(c))
=============================================================================
