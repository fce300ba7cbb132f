-------------------------- MODULE PolicyEngineProofs --------------------------
(***************************************************************************)
(* Proofs about PolicyEngine for every set of coherent documents: it fails *)
(* closed, its backends agree outside of the known gaps, and a reason      *)
(* against an action never makes the verdict milder.                       *)
(***************************************************************************)
EXTENDS PolicyEngine, TLAPS

HasDeny(rules_) == \E rule \in rules_ : DenyRule(rule)

-----------------------------------------------------------------------------
(* What the resolver returns.                                              *)
LEMMA ResolveDeny ==
  ASSUME NEW S, HasDeny(S)
  PROVE  Resolve(S) = "DENY"
BY DEF HasDeny, Resolve

LEMMA ResolveSame ==
  ASSUME NEW S, NEW T, S # {}, T # {}, S \ AllowRule = T \ AllowRule
  PROVE  Resolve(S) = Resolve(T)
<1>1. \A rule : rule \notin AllowRule => (rule \in S <=> rule \in T)
  OBVIOUS
<1>2. HasDeny(S) <=> HasDeny(T)
  BY <1>1 DEF HasDeny, DenyRule
<1>3. AllowRule \cap QuarantineRule = {} /\ AllowRule \cap ApprovalRule = {}
  BY DEF AllowRule, QuarantineRule, ApprovalRule
<1>4. S \cap QuarantineRule = T \cap QuarantineRule
  BY <1>1, <1>3
<1>5. S \cap ApprovalRule = T \cap ApprovalRule
  BY <1>1, <1>3
<1> QED BY <1>2, <1>4, <1>5 DEF Resolve, HasDeny

LEMMA SeverityOrder ==
  /\ Severity("DENY") = 6 /\ Severity("QUARANTINE") = 5
  /\ Severity("REQUIRE_APPROVAL") = 3 /\ Severity("ALLOW") = 1
BY DEF Severity

LEMMA ResolveMonotone ==
  ASSUME NEW S, NEW T, S # {}, T # {}, HasDeny(T) \/ S \ AllowRule \subseteq T
  PROVE  Severity(Resolve(T)) >= Severity(Resolve(S))
<1>1. Resolve(S) \in Verdict /\ Resolve(T) \in Verdict
  BY DEF Resolve, Verdict
<1>2. CASE HasDeny(T)
  <2>1. Severity(Resolve(T)) = 6
    BY <1>2, ResolveDeny, SeverityOrder
  <2> QED BY <1>1, <2>1, SeverityOrder DEF Verdict
<1>3. CASE ~HasDeny(T) /\ S \ AllowRule \subseteq T
  <2>1. ~HasDeny(S)
    BY <1>3 DEF HasDeny, DenyRule
  <2>2. AllowRule \cap QuarantineRule = {} /\ AllowRule \cap ApprovalRule = {}
    BY DEF AllowRule, QuarantineRule, ApprovalRule
  <2>3. S \cap QuarantineRule # {} => T \cap QuarantineRule # {}
    BY <1>3, <2>2
  <2>4. S \cap ApprovalRule # {} => T \cap ApprovalRule # {}
    BY <1>3, <2>2
  <2>5. \A U : U # {} /\ ~HasDeny(U) =>
          Resolve(U) = IF U \cap QuarantineRule # {} THEN "QUARANTINE"
                       ELSE IF U \cap ApprovalRule # {} THEN "REQUIRE_APPROVAL" ELSE "ALLOW"
    BY DEF Resolve, HasDeny
  <2>6. /\ Resolve(S) = IF S \cap QuarantineRule # {} THEN "QUARANTINE"
                        ELSE IF S \cap ApprovalRule # {} THEN "REQUIRE_APPROVAL" ELSE "ALLOW"
        /\ Resolve(T) = IF T \cap QuarantineRule # {} THEN "QUARANTINE"
                        ELSE IF T \cap ApprovalRule # {} THEN "REQUIRE_APPROVAL" ELSE "ALLOW"
    BY <1>3, <2>1, <2>5
  <2>7. \/ Resolve(T) = "QUARANTINE" /\ Resolve(S) \in {"QUARANTINE", "REQUIRE_APPROVAL", "ALLOW"}
        \/ Resolve(T) = "REQUIRE_APPROVAL" /\ Resolve(S) \in {"REQUIRE_APPROVAL", "ALLOW"}
        \/ Resolve(T) = "ALLOW" /\ Resolve(S) = "ALLOW"
    BY <2>3, <2>4, <2>6
  <2> QED BY <2>7, SeverityOrder
<1> QED BY <1>2, <1>3

-----------------------------------------------------------------------------
(* The two sets of rules, package by package.                              *)
LEMMA SamePrivilege ==
  ASSUME NEW c
  PROVE  /\ IsPrivilegedOrDestructive(c) <=> NeedsPrivilege(c)
         /\ IsDestructive(c) <=> DestructiveTool(c)
BY DEF IsPrivilegedOrDestructive, NeedsPrivilege, IsDestructive, DestructiveTool

LEMMA SameGraphRules ==
  ASSUME NEW c
  PROVE  GraphRules(c) = RegoGraphRules(c)
BY SamePrivilege DEF GraphRules, RegoGraphRules, IsProbe

LEMMA SameProvenanceRules ==
  ASSUME NEW c, Coherent(c), ~Gap(c)
  PROVE  ProvenanceRules(c) = RegoProvenanceRules(c)
<1>1. CASE c \cap ProvenanceFailure = {}
  <2>1. "untrusted_input" \in c \/ "unknown_input" \in c
          => (IsPrivilegedOrDestructive(c) <=> PrivilegedTool(c))
    BY DEF Gap, IsPrivilegedOrDestructive, PrivilegedTool, DestructiveTool
  <2> QED BY <1>1, <2>1 DEF ProvenanceRules, RegoProvenanceRules, Analysed
<1>2. CASE c \cap ProvenanceFailure # {}
  <2>1. c \cap ProvenanceFact = {}
    BY <1>2 DEF Coherent, Excludes
  <2>2. /\ "payload_unbound" \notin c /\ "credential_input" \notin c
        /\ "sensitive_input" \notin c /\ "untrusted_input" \notin c
        /\ "unknown_input" \notin c
    BY <2>1 DEF ProvenanceFact
  <2>3. ~Analysed(c)
    BY <1>2 DEF Analysed
  <2> QED BY <2>2, <2>3 DEF ProvenanceRules, RegoProvenanceRules, If
<1> QED BY <1>1, <1>2

LEMMA SameTrajectoryRules ==
  ASSUME NEW c, Coherent(c)
  PROVE  TrajectoryRules(c) = RegoTrajectoryRules(c)
<1>1. CASE c \cap TrajectoryFailure = {}
  BY <1>1 DEF TrajectoryRules, RegoTrajectoryRules, TrajectoryAnalysed
<1>2. CASE c \cap TrajectoryFailure # {}
  <2>1. c \cap TrajectoryFact = {}
    BY <1>2 DEF Coherent, Excludes
  <2>2. /\ "untrusted_path" \notin c /\ "untrusted_path_to_access" \notin c
        /\ "untrusted_path_to_egress" \notin c /\ "authority_expansion" \notin c
        /\ "egress_threshold" \notin c /\ "hop_laundering" \notin c
    BY <2>1 DEF TrajectoryFact
  <2>3. ~TrajectoryAnalysed(c)
    BY <1>2 DEF TrajectoryAnalysed
  <2> QED BY <2>2, <2>3 DEF TrajectoryRules, RegoTrajectoryRules, If
<1> QED BY <1>1, <1>2

LEMMA SameDelegationRules ==
  ASSUME NEW c, Coherent(c)
  PROVE  DelegatedActionRules(c) = RegoDelegationRules(c)
<1>1. CASE "delegated" \in c
  <2>1. c \cap {"consumed", "budget_spent"} # {} <=> "consumed" \in c \/ "budget_spent" \in c
    OBVIOUS
  <2> QED BY <1>1, <2>1 DEF DelegatedActionRules, RegoDelegationRules
<1>2. CASE "delegated" \notin c
  <2>1. c \cap (GrantFact \cup GrantInactive) = {}
    BY <1>2 DEF Coherent
  <2>2. c \cap GrantFact = {} /\ c \cap GrantInactive = {} /\ c \cap OutsideGrant = {}
    BY <2>1 DEF GrantFact
  <2>3. DelegatedActionRules(c) = {}
    BY <2>2 DEF DelegatedActionRules, GrantFact, GrantInactive, OutsideGrant, If
  <2> QED BY <1>2, <2>3 DEF RegoDelegationRules
<1> QED BY <1>1, <1>2
-----------------------------------------------------------------------------
(* The rules both sides have in common, and the intent rules of each.      *)
CommonRules(c) ==
  RuntimeRules(c) \cup GraphRules(c) \cup ProvenanceRules(c)
    \cup TrajectoryRules(c) \cup DelegatedActionRules(c)
RegoContractRules(c) ==
  RegoIntentRules(c) \cup RegoResourceRules(c)
    \cup If(Governed(c) /\ "data_outside" \in c, "DATA_SCOPE_VIOLATION")

LEMMA PythonSplit ==
  ASSUME NEW c
  PROVE  /\ MatchedRules(c) # {}
         /\ MatchedRules(c) \ AllowRule = (IntentRules(c) \cup CommonRules(c)) \ AllowRule
<1>1. RestrictiveRules(c) = IntentRules(c) \cup CommonRules(c)
  BY DEF RestrictiveRules, CommonRules
<1> QED BY <1>1 DEF MatchedRules, AllowRule

LEMMA RegoSplit ==
  ASSUME NEW c, Coherent(c), ~Gap(c)
  PROVE  RegoFindings(c) \ AllowRule = (RegoContractRules(c) \cup CommonRules(c)) \ AllowRule
<1>1. "DELEGATION" \notin c
  BY DEF Gap
<1> DEFINE B == If({"external_sink", "secret_data"} \subseteq c,
                   "B_CREDENTIAL_EXTERNAL_EXFILTRATION")
           Data == If(Governed(c) /\ "data_outside" \in c, "DATA_SCOPE_VIOLATION")
           D == If(/\ "no_contract" \in c /\ "require_intent" \notin c
                   /\ ~("PRODUCTION" \in c /\ DestructiveTool(c))
                   /\ ~("unknown_tool" \in c /\ NeedsPrivilege(c))
                   /\ ~({"external_sink", "secret_data"} \subseteq c),
                   "D_NORMAL_LOW_RISK")
           Rest == If("PRODUCTION" \in c /\ DestructiveTool(c), "A_PRODUCTION_DESTRUCTIVE")
                   \cup If(Tool(c) /\ "unknown_tool" \in c /\ NeedsPrivilege(c),
                           "C_UNKNOWN_TOOL_PRIVILEGED")
<1>2. RegoDataFlowRules(c) = B \cup Data
  BY DEF RegoDataFlowRules
<1>3. RegoRuntimeRules(c) = Rest \cup D
  BY DEF RegoRuntimeRules
<1>4. D \subseteq AllowRule
  BY DEF If, AllowRule
<1>5. RuntimeRules(c) = B \cup Rest
  <2>1. {"secret_data", "external_sink"} = {"external_sink", "secret_data"}
    OBVIOUS
  <2>2. Tool(c)
    BY <1>1 DEF Tool
  <2> HIDE DEF B, Rest
  <2>3. B = If({"secret_data", "external_sink"} \subseteq c,
               "B_CREDENTIAL_EXTERNAL_EXFILTRATION")
    BY <2>1 DEF B
  <2>4. Rest = If("PRODUCTION" \in c /\ IsDestructive(c), "A_PRODUCTION_DESTRUCTIVE")
               \cup If("DELEGATION" \notin c /\ "unknown_tool" \in c
                         /\ IsPrivilegedOrDestructive(c), "C_UNKNOWN_TOOL_PRIVILEGED")
    BY <1>1, <2>2, SamePrivilege DEF Rest, If
  <2> QED BY <2>3, <2>4 DEF RuntimeRules
<1>6. RegoContractRules(c) = RegoIntentRules(c) \cup RegoResourceRules(c) \cup Data
  BY DEF RegoContractRules
<1> HIDE DEF B, Data, D, Rest
<1>7. RegoFindings(c) = (RegoContractRules(c) \cup CommonRules(c)) \cup D
  BY <1>2, <1>3, <1>5, <1>6, SameGraphRules, SameProvenanceRules, SameTrajectoryRules,
     SameDelegationRules DEF RegoFindings, CommonRules
<1> QED BY <1>4, <1>7

LEMMA DenyNames ==
  ASSUME NEW rule \in {"INTENT_MISMATCH", "INTENT_MISSING", "INTENT_REVOKED", "INTENT_EXPIRED",
                       "TOOL_BUDGET_EXCEEDED", "DELEGATION_REVOKED", "DELEGATION_CLOSED",
                       "DELEGATION_EXPIRED", "DELEGATION_PRINCIPAL_MISMATCH",
                       "DELEGATION_BUDGET_EXHAUSTED", "DELEGATION_ROOT_INTENT_INVALID",
                       "DELEGATION_INVALID_PARENT", "DELEGATION_TOOL_NOT_AUTHORIZED",
                       "DELEGATION_RESOURCE_NOT_AUTHORIZED",
                       "DELEGATION_ENVIRONMENT_NOT_AUTHORIZED",
                       "DELEGATION_CLASSIFICATION_NOT_AUTHORIZED"}
  PROVE  DenyRule(rule)
BY DEF DenyRule, AllowRule, ApprovalRule, QuarantineRule

(* A grant that does not let its delegatee act denies by its own rules.    *)
LEMMA UnusableGrantDenies ==
  ASSUME NEW c, Coherent(c), "DELEGATION" \notin c, "delegated" \in c, ~ValidlyDelegated(c)
  PROVE  HasDeny(DelegatedActionRules(c))
<1>1. PICK f \in c : f \in GrantInactive \cup OutsideGrant \cup {"not_delegatee"}
  BY DEF ValidlyDelegated
<1>2. \E rule \in DelegatedActionRules(c) :
        rule \in {"DELEGATION_REVOKED", "DELEGATION_CLOSED",
                 "DELEGATION_EXPIRED", "DELEGATION_PRINCIPAL_MISMATCH",
                 "DELEGATION_BUDGET_EXHAUSTED", "DELEGATION_ROOT_INTENT_INVALID",
                 "DELEGATION_INVALID_PARENT", "DELEGATION_TOOL_NOT_AUTHORIZED",
                 "DELEGATION_RESOURCE_NOT_AUTHORIZED",
                 "DELEGATION_ENVIRONMENT_NOT_AUTHORIZED",
                 "DELEGATION_CLASSIFICATION_NOT_AUTHORIZED"}
  <2>1. CASE f \in {"DELEGATION_REVOKED", "DELEGATION_CLOSED", "DELEGATION_EXPIRED"}
    BY <2>1 DEF DelegatedActionRules
  <2>2. CASE f = "consumed"
    <3>1. c \cap {"consumed", "budget_spent"} # {}
      BY <2>2
    <3> QED BY <3>1 DEF DelegatedActionRules, If
  <2>3. CASE f \in {"root_invalid", "ancestor_invalid", "not_delegatee"}
    BY <2>3 DEF DelegatedActionRules, If
  <2>4. CASE f \in OutsideGrant
    BY <2>4 DEF DelegatedActionRules, If, OutsideGrant
  <2> QED BY <1>1, <2>1, <2>2, <2>3, <2>4 DEF GrantInactive
<1> QED BY <1>2, DenyNames DEF HasDeny

(* Either both sides deny, or their intent rules are the same.             *)
LEMMA ContractRulesAgree ==
  ASSUME NEW c, Coherent(c), ~Gap(c)
  PROVE  \/ /\ HasDeny(IntentRules(c) \cup CommonRules(c))
            /\ HasDeny(RegoContractRules(c) \cup CommonRules(c))
         \/ IntentRules(c) \ AllowRule = RegoContractRules(c) \ AllowRule
<1>1. "DELEGATION" \notin c /\ "past_deadline" \notin c /\ Tool(c)
  BY DEF Gap, Tool
<1>2. \A rule : rule \in IntentRules(c) /\ DenyRule(rule)
        => HasDeny(IntentRules(c) \cup CommonRules(c))
  BY DEF HasDeny
<1>3. \A rule : rule \in RegoIntentRules(c) /\ DenyRule(rule)
        => HasDeny(RegoContractRules(c) \cup CommonRules(c))
  BY DEF HasDeny, RegoContractRules
<1>4. CASE "intent_mismatch" \in c
  <2>1. "INTENT_MISMATCH" \in IntentRules(c) /\ "INTENT_MISMATCH" \in RegoIntentRules(c)
    BY <1>4 DEF IntentRules, RegoIntentRules, If
  <2> QED BY <1>2, <1>3, <2>1, DenyNames
<1>5. CASE "intent_mismatch" \notin c /\ "no_contract" \in c
  <2>1. CASE "require_intent" \in c
    <3>1. "INTENT_MISSING" \in IntentRules(c) /\ "INTENT_MISSING" \in RegoIntentRules(c)
      BY <1>5, <2>1 DEF IntentRules, RegoIntentRules, If
    <3> QED BY <1>2, <1>3, <3>1, DenyNames
  <2>2. CASE "require_intent" \notin c
    <3>1. IntentRules(c) = {}
      BY <1>5, <2>2 DEF IntentRules, If
    <3>2. ~Governed(c)
      BY <1>5 DEF Governed
    <3>3. ~({"no_contract", "require_intent"} \subseteq c)
      BY <2>2
    <3>4. RegoIntentRules(c) = {}
      BY <1>5, <3>2, <3>3 DEF RegoIntentRules, If
    <3>5. RegoContractRules(c) = {}
      BY <3>2, <3>4 DEF RegoContractRules, RegoResourceRules, If
    <3> QED BY <3>1, <3>5
  <2> QED BY <2>1, <2>2
<1>6. CASE "intent_mismatch" \notin c /\ "no_contract" \notin c /\ "revoked" \in c
  <2>1. "INTENT_REVOKED" \in IntentRules(c) /\ "INTENT_REVOKED" \in RegoIntentRules(c)
    BY <1>6 DEF IntentRules, RegoIntentRules, If, Governed
  <2> QED BY <1>2, <1>3, <2>1, DenyNames
<1>7. CASE /\ "intent_mismatch" \notin c /\ "no_contract" \notin c /\ "revoked" \notin c
           /\ "expired" \in c
  <2>1. c \cap {"expired", "past_deadline"} # {}
    BY <1>7
  <2>2. "INTENT_EXPIRED" \in IntentRules(c) /\ "INTENT_EXPIRED" \in RegoIntentRules(c)
    BY <1>7, <2>1 DEF IntentRules, RegoIntentRules, If, Governed
  <2> QED BY <1>2, <1>3, <2>2, DenyNames
<1>8. CASE /\ "intent_mismatch" \notin c /\ "no_contract" \notin c /\ "revoked" \notin c
           /\ "expired" \notin c
  <2>1. c \cap {"expired", "past_deadline"} = {}
    BY <1>1, <1>8
  <2>2. CASE "other_agent" \in c /\ ~ValidlyDelegated(c)
    <3>1. "delegated" \in c
      BY <1>8, <2>2 DEF Coherent
    <3>2. HasDeny(DelegatedActionRules(c))
      BY <1>1, <2>2, <3>1, UnusableGrantDenies
    <3> QED BY <3>2 DEF HasDeny, CommonRules
  <2>3. CASE ~("other_agent" \in c /\ ~ValidlyDelegated(c)) /\ "quota_spent" \in c
    <3>1. "TOOL_BUDGET_EXCEEDED" \in IntentRules(c)
      BY <1>1, <1>8, <2>1, <2>3 DEF IntentRules
    <3>2. "TOOL_BUDGET_EXCEEDED" \in RegoIntentRules(c)
      BY <1>1, <1>8, <2>3 DEF RegoIntentRules, If, Governed
    <3> QED BY <1>2, <1>3, <3>1, <3>2, DenyNames
  <2>4. CASE ~("other_agent" \in c /\ ~ValidlyDelegated(c)) /\ "quota_spent" \notin c
    <3>1. IntentRules(c) = IF ScopeRules(c) = {} THEN {"INTENT_ALLOW"} ELSE ScopeRules(c)
      BY <1>1, <1>8, <2>1, <2>4 DEF IntentRules
    <3>2. IntentRules(c) \ AllowRule = ScopeRules(c) \ AllowRule
      BY <3>1 DEF AllowRule
    <3>3. Governed(c)
      BY <1>8 DEF Governed
    <3>4. ~({"no_contract", "require_intent"} \subseteq c)
      BY <1>8
    <3> DEFINE Allow == If(/\ Governed(c) /\ Tool(c) /\ RegoScopeRules(c) = {}
                           /\ c \cap {"revoked", "expired", "intent_mismatch", "quota_spent"} = {},
                           "INTENT_ALLOW")
    <3>5. Allow \subseteq AllowRule
      BY DEF If, AllowRule
    <3>6. RegoIntentRules(c) = RegoScopeRules(c) \cup Allow
      <4> HIDE DEF Allow
      <4> QED BY <1>1, <1>8, <2>4, <3>3, <3>4 DEF RegoIntentRules, If, Allow
    <3>7. ScopeRules(c) = RegoScopeRules(c) \cup RegoResourceRules(c)
            \cup If(Governed(c) /\ "data_outside" \in c, "DATA_SCOPE_VIOLATION")
      BY <3>3 DEF ScopeRules, RegoScopeRules, RegoResourceRules, If
    <3> HIDE DEF Allow
    <3>8. RegoContractRules(c) = ScopeRules(c) \cup Allow
      BY <3>6, <3>7 DEF RegoContractRules
    <3> QED BY <3>2, <3>5, <3>8
  <2> QED BY <2>2, <2>3, <2>4
<1> QED BY <1>4, <1>5, <1>6, <1>7, <1>8

LEMMA VerdictsAgree ==
  ASSUME NEW c, Coherent(c), ~Gap(c), RegoFindings(c) # {}
  PROVE  Resolve(RegoFindings(c)) = Resolve(MatchedRules(c))
<1> DEFINE P == IntentRules(c) \cup CommonRules(c)
           O == RegoContractRules(c) \cup CommonRules(c)
<1>1. MatchedRules(c) # {} /\ MatchedRules(c) \ AllowRule = P \ AllowRule
  BY PythonSplit
<1>2. RegoFindings(c) \ AllowRule = O \ AllowRule
  BY RegoSplit
<1> HIDE DEF P, O
<1>3. \A S, T : S \ AllowRule = T \ AllowRule => (HasDeny(S) <=> HasDeny(T))
  BY DEF HasDeny, DenyRule
<1>4. CASE HasDeny(P) /\ HasDeny(O)
  BY <1>1, <1>2, <1>3, <1>4, ResolveDeny
<1>5. CASE IntentRules(c) \ AllowRule = RegoContractRules(c) \ AllowRule
  <2>1. MatchedRules(c) \ AllowRule = RegoFindings(c) \ AllowRule
    BY <1>1, <1>2, <1>5 DEF P, O
  <2> QED BY <1>1, <2>1, ResolveSame
<1> QED BY <1>4, <1>5, ContractRulesAgree DEF P, O
-----------------------------------------------------------------------------
(* One more reason against an action.                                      *)
LEMMA AgainstKeeps ==
  ASSUME NEW c, NEW f \in Against
  PROVE  /\ c \subseteq c \cup {f}
         /\ "no_contract" \in c \cup {f} <=> "no_contract" \in c
         /\ "DELEGATION" \in c \cup {f} <=> "DELEGATION" \in c
         /\ "delegated" \in c \cup {f} <=> "delegated" \in c
         /\ "high_environment_ancestor" \in c \cup {f} <=> "high_environment_ancestor" \in c
<1>1. /\ f # "no_contract" /\ f # "DELEGATION" /\ f # "delegated"
      /\ f # "high_environment_ancestor"
  BY DEF Against
<1> QED BY <1>1

LEMMA CommonGrows ==
  ASSUME NEW c, NEW f \in Against
  PROVE  CommonRules(c) \subseteq CommonRules(c \cup {f})
<1> DEFINE d == c \cup {f}
<1>1. /\ c \subseteq d
      /\ "DELEGATION" \in d <=> "DELEGATION" \in c
      /\ "high_environment_ancestor" \in d <=> "high_environment_ancestor" \in c
  BY AgainstKeeps
<1> HIDE DEF d
<1>2. /\ IsPrivilegedOrDestructive(c) => IsPrivilegedOrDestructive(d)
      /\ IsDestructive(c) => IsDestructive(d)
      /\ IsProbe(c) => IsProbe(d)
  BY <1>1 DEF IsPrivilegedOrDestructive, IsDestructive, IsProbe
<1>4. RuntimeRules(c) \subseteq RuntimeRules(d)
  BY <1>1, <1>2 DEF RuntimeRules, If
<1>5. GraphRules(c) \subseteq GraphRules(d)
  BY <1>1, <1>2 DEF GraphRules, If
<1>6. ProvenanceRules(c) \subseteq ProvenanceRules(d)
  BY <1>1, <1>2 DEF ProvenanceRules, If
<1>7. TrajectoryRules(c) \subseteq TrajectoryRules(d)
  BY <1>1 DEF TrajectoryRules, If
<1>8. DelegatedActionRules(c) \subseteq DelegatedActionRules(d)
  BY <1>1 DEF DelegatedActionRules, If
<1> QED BY <1>4, <1>5, <1>6, <1>7, <1>8 DEF CommonRules, d

LEMMA IntentGrows ==
  ASSUME NEW c, NEW f \in Against
  PROVE  \/ HasDeny(IntentRules(c \cup {f}))
         \/ IntentRules(c) \ AllowRule \subseteq IntentRules(c \cup {f})
<1> DEFINE d == c \cup {f}
<1>1. /\ c \subseteq d
      /\ "no_contract" \in d <=> "no_contract" \in c
      /\ "DELEGATION" \in d <=> "DELEGATION" \in c
      /\ "delegated" \in d <=> "delegated" \in c
  BY AgainstKeeps
<1> HIDE DEF d
<1>2. \A rule : IntentRules(d) = {rule} /\ DenyRule(rule) => HasDeny(IntentRules(d))
  BY DEF HasDeny
<1>3. CASE "intent_mismatch" \in d
  <2>1. IntentRules(d) = {"INTENT_MISMATCH"}
    BY <1>3 DEF IntentRules
  <2> QED BY <1>2, <2>1, DenyNames DEF d
<1>4. CASE "intent_mismatch" \notin d /\ "no_contract" \in d
  <2>1. CASE "require_intent" \in d
    <3>1. IntentRules(d) = {"INTENT_MISSING"}
      BY <1>4, <2>1 DEF IntentRules, If
    <3> QED BY <1>2, <3>1, DenyNames DEF d
  <2>2. CASE "require_intent" \notin d
    <3>1. IntentRules(c) = {}
      BY <1>1, <1>4, <2>2 DEF IntentRules, If
    <3> QED BY <3>1
  <2> QED BY <2>1, <2>2
<1>5. CASE "intent_mismatch" \notin d /\ "no_contract" \notin d
  <2>1. CASE "revoked" \in d
    <3>1. IntentRules(d) = {"INTENT_REVOKED"}
      BY <1>5, <2>1 DEF IntentRules
    <3> QED BY <1>2, <3>1, DenyNames DEF d
  <2>2. CASE "revoked" \notin d /\ d \cap {"expired", "past_deadline"} # {}
    <3>1. IntentRules(d) = {"INTENT_EXPIRED"}
      BY <1>5, <2>2 DEF IntentRules
    <3> QED BY <1>2, <3>1, DenyNames DEF d
  <2>3. CASE /\ "revoked" \notin d /\ d \cap {"expired", "past_deadline"} = {}
             /\ "other_agent" \in d /\ ~ValidlyDelegated(d)
    <3>1. IntentRules(d) = {"INTENT_MISMATCH"}
      BY <1>5, <2>3 DEF IntentRules
    <3> QED BY <1>2, <3>1, DenyNames DEF d
  <2>4. CASE /\ "revoked" \notin d /\ d \cap {"expired", "past_deadline"} = {}
             /\ ~("other_agent" \in d /\ ~ValidlyDelegated(d))
    <3>1. /\ "intent_mismatch" \notin c /\ "no_contract" \notin c /\ "revoked" \notin c
          /\ c \cap {"expired", "past_deadline"} = {}
      BY <1>1, <1>5, <2>4
    <3>2. ~("other_agent" \in c /\ ~ValidlyDelegated(c))
      <4>1. ValidlyDelegated(d) => ValidlyDelegated(c)
        BY <1>1 DEF ValidlyDelegated
      <4> QED BY <1>1, <2>4, <4>1
    <3>3. CASE "DELEGATION" \in d
      <4>1. IntentRules(c) = {"INTENT_ALLOW"}
        BY <1>1, <3>1, <3>2, <3>3 DEF IntentRules
      <4> QED BY <4>1 DEF AllowRule
    <3>4. CASE "DELEGATION" \notin d /\ "quota_spent" \in d
      <4>1. IntentRules(d) = {"TOOL_BUDGET_EXCEEDED"}
        BY <1>5, <2>4, <3>4 DEF IntentRules
      <4> QED BY <1>2, <4>1, DenyNames DEF d
    <3>5. CASE "DELEGATION" \notin d /\ "quota_spent" \notin d
      <4>1. IntentRules(d) = IF ScopeRules(d) = {} THEN {"INTENT_ALLOW"} ELSE ScopeRules(d)
        BY <1>5, <2>4, <3>5 DEF IntentRules
      <4>2. "DELEGATION" \notin c /\ "quota_spent" \notin c
        BY <1>1, <3>5
      <4>3. IntentRules(c) = IF ScopeRules(c) = {} THEN {"INTENT_ALLOW"} ELSE ScopeRules(c)
        BY <3>1, <3>2, <4>2 DEF IntentRules
      <4>4. ScopeRules(c) \subseteq ScopeRules(d)
        BY <1>1 DEF ScopeRules, If
      <4>5. IntentRules(c) \ AllowRule \subseteq ScopeRules(c)
        BY <4>3 DEF AllowRule
      <4>6. ScopeRules(c) \subseteq IntentRules(d)
        BY <4>1, <4>4
      <4> QED BY <4>5, <4>6 DEF d
    <3> QED BY <3>3, <3>4, <3>5
  <2> QED BY <2>1, <2>2, <2>3, <2>4
<1> QED BY <1>3, <1>4, <1>5

LEMMA VerdictGrows ==
  ASSUME NEW c, NEW f \in Against
  PROVE  Severity(PythonVerdict(c \cup {f})) >= Severity(PythonVerdict(c))
<1> DEFINE d == c \cup {f}
           P == IntentRules(c) \cup CommonRules(c)
           Q == IntentRules(d) \cup CommonRules(d)
<1>1. MatchedRules(c) # {} /\ MatchedRules(c) \ AllowRule = P \ AllowRule
  BY PythonSplit
<1>2. MatchedRules(d) # {} /\ MatchedRules(d) \ AllowRule = Q \ AllowRule
  BY PythonSplit
<1>3. CommonRules(c) \subseteq CommonRules(d)
  BY CommonGrows
<1>4. \A S, T : S \ AllowRule = T \ AllowRule => (HasDeny(S) <=> HasDeny(T))
  BY DEF HasDeny, DenyRule
<1>5. HasDeny(MatchedRules(d)) \/ MatchedRules(c) \ AllowRule \subseteq MatchedRules(d)
  <2>1. CASE HasDeny(IntentRules(d))
    <3>1. HasDeny(Q)
      BY <2>1 DEF HasDeny
    <3> QED BY <1>2, <1>4, <3>1
  <2>2. CASE IntentRules(c) \ AllowRule \subseteq IntentRules(d)
    <3>1. P \ AllowRule \subseteq Q \ AllowRule
      BY <1>3, <2>2
    <3> HIDE DEF P, Q
    <3> QED BY <1>1, <1>2, <3>1
  <2> QED BY <2>1, <2>2, IntentGrows
<1>6. Severity(Resolve(MatchedRules(d))) >= Severity(Resolve(MatchedRules(c)))
  BY <1>1, <1>2, <1>5, ResolveMonotone
<1> QED BY <1>6 DEF PythonVerdict
-----------------------------------------------------------------------------
(* The inductive invariant: what each stage has to show for itself.        *)
StageInv ==
  /\ stage # "idle" => input \in Inputs
  /\ stage = "python" => backend # "OPA"
  /\ stage = "opa" => backend # "PYTHON"

ResultInv ==
  /\ backend # "OPA" /\ stage \in {"opa", "conclude", "done"} => rules = MatchedRules(input)
  /\ opa = "SUCCESS" => RegoFindings(input) # {} /\ stage \in {"conclude", "done"}

VerdictInv ==
  /\ stage = "done" => decision = Outcome
  /\ parity = "MATCH" =>
       /\ stage = "done" /\ backend = "SHADOW" /\ opa = "SUCCESS"
       /\ Parity(rules, RegoFindings(input)) = "MATCH"

EngineInv == EngineTypeOK /\ StageInv /\ ResultInv /\ VerdictInv

LEMMA EngineInitInv == EngineInit => EngineInv
BY EngineAssumption
   DEF EngineInit, EngineInv, EngineTypeOK, StageInv, ResultInv, VerdictInv, OpaFailure

LEMMA OutcomeType == Outcome \in Verdict
<1>1. \A S : Resolve(S) \in Verdict
  BY DEF Resolve, Verdict
<1> QED BY <1>1 DEF Outcome, Verdict

LEMMA EngineStep == EngineInv /\ [EngineNext]_engine_vars => EngineInv'
<1> SUFFICES ASSUME EngineInv, [EngineNext]_engine_vars
             PROVE  EngineInv'
  OBVIOUS
<1> USE DEF EngineInv
<1>1. CASE UNCHANGED engine_vars
  BY <1>1 DEF engine_vars, EngineTypeOK, StageInv, ResultInv, VerdictInv, Outcome
<1>2. CASE \E c \in Inputs : Evaluate(c)
  <2>1. PICK c \in Inputs : Evaluate(c)
    BY <1>2
  <2>2. EngineTypeOK'
    BY <2>1, EngineAssumption DEF Evaluate, EngineTypeOK
  <2>3. StageInv'
    BY <2>1 DEF Evaluate, StageInv, EngineTypeOK
  <2>4. opa # "SUCCESS" /\ parity # "MATCH"
    BY <2>1 DEF Evaluate, ResultInv, VerdictInv
  <2>5. ResultInv' /\ VerdictInv'
    BY <2>1, <2>4 DEF Evaluate, ResultInv, VerdictInv, EngineTypeOK
  <2> QED BY <2>2, <2>3, <2>5
<1>3. CASE EvaluatePython
  <2>1. EngineTypeOK' /\ StageInv'
    BY <1>3 DEF EvaluatePython, EngineTypeOK, StageInv, PolicyBackend
  <2>2. opa # "SUCCESS" /\ parity # "MATCH"
    BY <1>3 DEF EvaluatePython, ResultInv, VerdictInv
  <2>3. ResultInv' /\ VerdictInv'
    BY <1>3, <2>2 DEF EvaluatePython, ResultInv, VerdictInv, EngineTypeOK
  <2> QED BY <2>1, <2>3
<1>4. CASE OpaAnswers
  <2>1. EngineTypeOK' /\ StageInv'
    BY <1>4 DEF OpaAnswers, EngineTypeOK, StageInv, OpaFailure
  <2>2. parity # "MATCH"
    BY <1>4 DEF OpaAnswers, VerdictInv
  <2>3. ResultInv' /\ VerdictInv'
    BY <1>4, <2>2 DEF OpaAnswers, ResultInv, VerdictInv
  <2> QED BY <2>1, <2>3
<1>5. CASE \E failure \in OpaFailure : OpaFails(failure)
  <2>1. PICK failure \in OpaFailure : OpaFails(failure)
    BY <1>5
  <2>2. EngineTypeOK' /\ StageInv'
    BY <2>1 DEF OpaFails, EngineTypeOK, StageInv
  <2>3. parity # "MATCH" /\ failure # "SUCCESS"
    BY <2>1 DEF OpaFails, VerdictInv, OpaFailure
  <2>4. ResultInv' /\ VerdictInv'
    BY <2>1, <2>3 DEF OpaFails, ResultInv, VerdictInv
  <2> QED BY <2>2, <2>4
<1>6. CASE Conclude
  <2>1. Parity(rules, RegoFindings(input)) \in {"MATCH", "DIVERGENCE"}
    BY DEF Parity
  <2>2. Outcome \in Verdict
    BY OutcomeType
  <2>3. EngineTypeOK' /\ StageInv'
    BY <1>6, <2>1, <2>2 DEF Conclude, EngineTypeOK, StageInv
  <2>4. ResultInv'
    BY <1>6 DEF Conclude, ResultInv
  <2>5. Outcome' = Outcome
    BY <1>6 DEF Conclude, Outcome
  <2>6. VerdictInv'
    BY <1>6, <2>5, EngineAssumption DEF Conclude, VerdictInv
  <2> QED BY <2>3, <2>4, <2>6
<1> QED BY <1>1, <1>2, <1>3, <1>4, <1>5, <1>6 DEF EngineNext

LEMMA EngineInvariant == EngineSpec => []EngineInv
BY EngineInitInv, EngineStep, PTL DEF EngineSpec

-----------------------------------------------------------------------------
(* What the engine stores has its type, for every set of documents.        *)
THEOREM EngineTypeCorrect == EngineSpec => []EngineTypeOK
<1>1. EngineInv => EngineTypeOK
  BY DEF EngineInv
<1> QED BY <1>1, EngineInvariant, PTL

LEMMA FailuresDeny ==
  ASSUME NEW c, c \cap (GraphFailure \cup ProvenanceFailure \cup TrajectoryFailure) # {}
  PROVE  HasDeny(MatchedRules(c)) /\ HasDeny(RegoFindings(c))
<1>1. PICK f \in c : f \in GraphFailure \cup ProvenanceFailure \cup TrajectoryFailure
  OBVIOUS
<1>2. DenyRule(f)
  BY <1>1 DEF GraphFailure, ProvenanceFailure, TrajectoryFailure, DenyRule, AllowRule,
     ApprovalRule, QuarantineRule
<1>3. f \in GraphRules(c) \cup ProvenanceRules(c) \cup TrajectoryRules(c)
  BY <1>1 DEF GraphRules, ProvenanceRules, TrajectoryRules
<1>4. f \in RegoGraphRules(c) \cup RegoProvenanceRules(c) \cup RegoTrajectoryRules(c)
  BY <1>1 DEF RegoGraphRules, RegoProvenanceRules, RegoTrajectoryRules
<1>5. f \in RestrictiveRules(c)
  BY <1>3 DEF RestrictiveRules
<1>6. f \in MatchedRules(c)
  BY <1>5 DEF MatchedRules
<1>7. f \in RegoFindings(c)
  BY <1>4 DEF RegoFindings
<1> QED BY <1>2, <1>6, <1>7 DEF HasDeny

(* FailClosed, for every document and every order of answers and failures: *)
(* no backend passes an action without an answer or without the analyses.  *)
THEOREM FailClosedAlways == EngineSpec => []FailClosed
<1>1. EngineInv => FailClosed
  <2> SUFFICES ASSUME EngineInv, stage = "done",
                      \/ backend # "PYTHON" /\ opa # "SUCCESS"
                      \/ input \cap (GraphFailure \cup ProvenanceFailure
                                       \cup TrajectoryFailure) # {}
               PROVE  decision = "DENY"
    BY DEF FailClosed
  <2>1. decision = Outcome
    BY DEF EngineInv, VerdictInv
  <2>2. CASE backend # "PYTHON" /\ opa # "SUCCESS"
    BY <2>1, <2>2 DEF Outcome
  <2>3. CASE /\ ~(backend # "PYTHON" /\ opa # "SUCCESS")
             /\ input \cap (GraphFailure \cup ProvenanceFailure
                              \cup TrajectoryFailure) # {}
    <3>1. Resolve(MatchedRules(input)) = "DENY" /\ Resolve(RegoFindings(input)) = "DENY"
      BY <2>3, FailuresDeny, ResolveDeny
    <3>2. backend # "OPA" => rules = MatchedRules(input)
      BY DEF EngineInv, ResultInv
    <3> QED BY <2>1, <2>3, <3>1, <3>2 DEF Outcome
  <2> QED BY <2>2, <2>3
<1> QED BY <1>1, EngineInvariant, PTL

(* BackendsAgree, for every coherent document: outside of the known gaps,  *)
(* the early returns of the Python rules change no verdict.                *)
THEOREM BackendsAgreeAlways == EngineSpec => []BackendsAgree
<1>1. EngineInv => BackendsAgree
  <2> SUFFICES ASSUME EngineInv, stage = "done", ~Gap(input),
                      backend # "PYTHON" => opa = "SUCCESS"
               PROVE  decision = PythonVerdict(input)
    BY DEF BackendsAgree
  <2>1. decision = Outcome
    BY DEF EngineInv, VerdictInv
  <2>2. Coherent(input)
    BY EngineAssumption DEF EngineInv, StageInv
  <2>3. CASE backend = "OPA"
    <3>1. RegoFindings(input) # {}
      BY <2>3 DEF EngineInv, ResultInv
    <3>2. Resolve(RegoFindings(input)) = Resolve(MatchedRules(input))
      BY <2>2, <3>1, VerdictsAgree
    <3> QED BY <2>1, <2>3, <3>2 DEF Outcome, PythonVerdict
  <2>4. CASE backend # "OPA"
    <3>1. rules = MatchedRules(input)
      BY <2>4 DEF EngineInv, ResultInv
    <3> QED BY <2>1, <2>4, <3>1 DEF Outcome, PythonVerdict
  <2> QED BY <2>3, <2>4
<1> QED BY <1>1, EngineInvariant, PTL

(* MatchPredictsOpa, for every document: what SHADOW reports as a match is *)
(* what OPA would decide alone.                                            *)
THEOREM MatchPredictsOpaAlways == EngineSpec => []MatchPredictsOpa
<1>1. EngineInv => MatchPredictsOpa
  <2> SUFFICES ASSUME EngineInv, parity = "MATCH"
               PROVE  decision = Resolve(RegoFindings(input))
    BY DEF MatchPredictsOpa
  <2>1. /\ stage = "done" /\ backend = "SHADOW" /\ opa = "SUCCESS"
        /\ Parity(rules, RegoFindings(input)) = "MATCH"
    BY DEF EngineInv, VerdictInv
  <2>2. decision = Resolve(rules)
    BY <2>1 DEF EngineInv, VerdictInv, Outcome
  <2>3. Resolve(rules) = Resolve(RegoFindings(input))
    BY <2>1 DEF Parity
  <2> QED BY <2>2, <2>3
<1> QED BY <1>1, EngineInvariant, PTL

(* NeverMilder, for every document: one more reason against an action      *)
(* never makes the verdict of the Python rules milder.                     *)
THEOREM NeverMilderAlways == EngineSpec => []NeverMilder
<1>1. NeverMilder
  BY VerdictGrows DEF NeverMilder
<1> QED BY <1>1, PTL
=============================================================================
