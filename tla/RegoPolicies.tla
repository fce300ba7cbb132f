----------------------------- MODULE RegoPolicies -----------------------------
(***************************************************************************)
(* The same rules as policies of the Open Policy Agent (policies/cage):    *)
(* every rule of every package is evaluated, there is no early return.     *)
(* The deadline of a contract is not in the document, only its status.     *)
(***************************************************************************)
EXTENDS PolicyRules

Governed(c) == "no_contract" \notin c
Tool(c) == "DELEGATION" \notin c

RegoScopeRules(c) ==
  If("tool_denied" \in c, "TOOL_EXPLICITLY_DENIED")
  \cup If("tool_outside" \in c, "TOOL_OUTSIDE_INTENT")
  \cup If("environment_outside" \in c, "ENVIRONMENT_OUTSIDE_INTENT")
  \cup If("approval_tool" \in c, "APPROVAL_TOOL")

RegoIntentRules(c) ==
  If({"no_contract", "require_intent"} \subseteq c, "INTENT_MISSING")
  \cup If("intent_mismatch" \in c, "INTENT_MISMATCH")
  \cup If(Governed(c) /\ "revoked" \in c, "INTENT_REVOKED")
  \cup If(Governed(c) /\ "expired" \in c, "INTENT_EXPIRED")
  \cup If(Governed(c) /\ Tool(c) /\ "quota_spent" \in c, "TOOL_BUDGET_EXCEEDED")
  \cup (IF Governed(c) /\ Tool(c) THEN RegoScopeRules(c) ELSE {})
  \cup If(/\ Governed(c) /\ Tool(c) /\ RegoScopeRules(c) = {}
          /\ c \cap {"revoked", "expired", "intent_mismatch", "quota_spent"} = {},
          "INTENT_ALLOW")

RegoResourceRules(c) ==
  If(Governed(c) /\ "resource_denied" \in c, "RESOURCE_EXPLICITLY_DENIED")
  \cup If(Governed(c) /\ "resource_outside" \in c, "RESOURCE_OUTSIDE_INTENT")

RegoDataFlowRules(c) ==
  If({"external_sink", "secret_data"} \subseteq c, "B_CREDENTIAL_EXTERNAL_EXFILTRATION")
  \cup If(Governed(c) /\ "data_outside" \in c, "DATA_SCOPE_VIOLATION")

(* The document's tool.destructive includes the action type.               *)
DestructiveTool(c) == c \cap {"destructive", "DESTRUCTIVE"} # {}
NeedsPrivilege(c) == "privileged" \in c \/ DestructiveTool(c) \/ "EXECUTE" \in c

RegoRuntimeRules(c) ==
  If("PRODUCTION" \in c /\ DestructiveTool(c), "A_PRODUCTION_DESTRUCTIVE")
  \cup If(Tool(c) /\ "unknown_tool" \in c /\ NeedsPrivilege(c), "C_UNKNOWN_TOOL_PRIVILEGED")
  \cup If(/\ "no_contract" \in c /\ "require_intent" \notin c
          /\ ~("PRODUCTION" \in c /\ DestructiveTool(c))
          /\ ~("unknown_tool" \in c /\ NeedsPrivilege(c))
          /\ ~({"external_sink", "secret_data"} \subseteq c),
          "D_NORMAL_LOW_RISK")

RegoGraphRules(c) ==
  (c \cap GraphFailure)
  \cup If({"external_sink", "sensitive_ancestor"} \subseteq c,
          "GRAPH_EXTERNAL_AFTER_SENSITIVE_ACCESS")
  \cup If("denied_ancestor" \in c /\ NeedsPrivilege(c), "GRAPH_DENIED_ANCESTOR_ESCALATION")
  \cup If("two_prior_probes" \in c /\ ("unknown_tool" \in c \/ NeedsPrivilege(c)),
          "GRAPH_REPEATED_PRIVILEGE_PROBING")
  \cup If(/\ "lower_environment_ancestor" \in c /\ "high_environment_ancestor" \notin c
          /\ c \cap EnvironmentFact # {} /\ NeedsPrivilege(c),
          "GRAPH_ENVIRONMENT_ESCALATION")

(* The helper of this package does not look at the action type EXECUTE.    *)
PrivilegedTool(c) == "privileged" \in c \/ DestructiveTool(c)

Analysed(c) == c \cap ProvenanceFailure = {}

RegoProvenanceRules(c) ==
  (c \cap ProvenanceFailure)
  \cup If(Analysed(c)
          /\ {"external_sink", "requires_tracked_inputs", "payload_unbound"} \subseteq c,
          "PROVENANCE_UNTRACKED_EGRESS")
  \cup If(Analysed(c) /\ {"external_sink", "credential_input"} \subseteq c,
          "PROVENANCE_CREDENTIAL_TO_EXTERNAL")
  \cup If(Analysed(c) /\ {"external_sink", "sensitive_input"} \subseteq c,
          "PROVENANCE_SENSITIVE_TO_EXTERNAL")
  \cup If(Analysed(c) /\ "untrusted_input" \in c /\ PrivilegedTool(c),
          "PROVENANCE_UNTRUSTED_TO_PRIVILEGED")
  \cup If(Analysed(c) /\ "unknown_input" \in c /\ PrivilegedTool(c),
          "PROVENANCE_UNKNOWN_TO_PRIVILEGED")

TrajectoryAnalysed(c) == c \cap TrajectoryFailure = {}

RegoTrajectoryRules(c) ==
  (c \cap (TrajectoryStopped \cup TrajectoryFailure))
  \cup If(TrajectoryAnalysed(c) /\ "untrusted_path_to_access" \in c,
          "TRAJECTORY_UNTRUSTED_PATH_TO_SENSITIVE_ACCESS")
  \cup If(TrajectoryAnalysed(c) /\ "untrusted_path_to_egress" \in c,
          "TRAJECTORY_UNTRUSTED_PATH_TO_SENSITIVE_EGRESS")
  \cup If(TrajectoryAnalysed(c) /\ {"authority_expansion", "untrusted_path"} \subseteq c,
          "TRAJECTORY_INFORMATION_CANNOT_EXPAND_AUTHORITY")
  \cup If(TrajectoryAnalysed(c) /\ "egress_threshold" \in c,
          "TRAJECTORY_CUMULATIVE_SENSITIVE_EGRESS")
  \cup If(TrajectoryAnalysed(c) /\ "hop_laundering" \in c,
          "TRAJECTORY_SENSITIVE_HOP_LAUNDERING")

RegoDelegationRules(c) ==
  IF "delegated" \notin c THEN {}
  ELSE (c \cap {"DELEGATION_REVOKED", "DELEGATION_CLOSED", "DELEGATION_EXPIRED"})
    \cup If("not_delegatee" \in c, "DELEGATION_PRINCIPAL_MISMATCH")
    \cup If("consumed" \in c \/ "budget_spent" \in c, "DELEGATION_BUDGET_EXHAUSTED")
    \cup If("root_invalid" \in c, "DELEGATION_ROOT_INTENT_INVALID")
    \cup If("ancestor_invalid" \in c, "DELEGATION_INVALID_PARENT")
    \cup If("tool_outside_grant" \in c, "DELEGATION_TOOL_NOT_AUTHORIZED")
    \cup If("resource_outside_grant" \in c, "DELEGATION_RESOURCE_NOT_AUTHORIZED")
    \cup If("environment_outside_grant" \in c, "DELEGATION_ENVIRONMENT_NOT_AUTHORIZED")
    \cup If("classification_outside_grant" \in c, "DELEGATION_CLASSIFICATION_NOT_AUTHORIZED")

(* authorization.findings                                                  *)
RegoFindingsOfIntentOnly(c) == RegoIntentRules(c) \cup RegoResourceRules(c)
RegoFindings(c) ==
  RegoIntentRules(c) \cup RegoResourceRules(c) \cup RegoDataFlowRules(c)
    \cup RegoRuntimeRules(c) \cup RegoGraphRules(c) \cup RegoProvenanceRules(c)
    \cup RegoTrajectoryRules(c) \cup RegoDelegationRules(c)
=============================================================================
