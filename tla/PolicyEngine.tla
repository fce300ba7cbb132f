----------------------------- MODULE PolicyEngine -----------------------------
(***************************************************************************)
(* The PolicyEngine (policies/engine.py): it decides with the Python       *)
(* rules, with the policies of an OPA server, or with both, where Python   *)
(* is authoritative and the comparison is reported.  The server answers,   *)
(* or fails in one of the ways the OpaClient tells apart.                  *)
(***************************************************************************)
EXTENDS RegoPolicies

CONSTANTS Inputs,      \* documents to evaluate
          None

PolicyBackend == {"PYTHON", "SHADOW", "OPA"}
OpaFailure == {"TIMEOUT", "UNAVAILABLE", "INVALID_RESPONSE", "EVALUATION_ERROR"}

ASSUME EngineAssumption ==
  /\ \A c \in Inputs : c \subseteq Fact /\ Coherent(c)
  /\ None \notin Verdict \cup OpaFailure \cup {"SUCCESS", "MATCH", "DIVERGENCE", "OPA_ERROR"}

VARIABLES backend,   \* as configured
          input,     \* the document of the call under way
          stage,     \* the step it takes next
          rules,     \* what the Python evaluator matched
          opa,       \* status of the OpaEvaluationResult
          decision, parity

engine_vars == <<backend, input, stage, rules, opa, decision, parity>>

EngineTypeOK ==
  /\ backend \in PolicyBackend
  /\ input \subseteq Fact
  /\ stage \in {"idle", "python", "opa", "conclude", "done"}
  /\ opa \in OpaFailure \cup {"SUCCESS", None}
  /\ decision \in Verdict \cup {None}
  /\ parity \in {"MATCH", "DIVERGENCE", "OPA_ERROR", None}

EngineInit ==
  /\ backend \in PolicyBackend
  /\ stage = "idle"
  /\ input = {} /\ rules = {}
  /\ opa = None /\ decision = None /\ parity = None

-----------------------------------------------------------------------------
Evaluate(c) ==
  /\ stage = "idle"
  /\ input' = c
  /\ stage' = IF backend = "OPA" THEN "opa" ELSE "python"
  /\ UNCHANGED <<backend, rules, opa, decision, parity>>

EvaluatePython ==
  /\ stage = "python"
  /\ rules' = MatchedRules(input)
  /\ stage' = IF backend = "SHADOW" THEN "opa" ELSE "conclude"
  /\ UNCHANGED <<backend, input, opa, decision, parity>>

(* An empty list of findings is an invalid response.                       *)
OpaAnswers ==
  /\ stage = "opa"
  /\ opa' = IF RegoFindings(input) = {} THEN "INVALID_RESPONSE" ELSE "SUCCESS"
  /\ stage' = "conclude"
  /\ UNCHANGED <<backend, input, rules, decision, parity>>

(* A timeout, a refused connection, a status other than 200, or a body     *)
(* that is not JSON or not a list of well-formed findings.                 *)
OpaFails(failure) ==
  /\ stage = "opa"
  /\ opa' = failure
  /\ stage' = "conclude"
  /\ UNCHANGED <<backend, input, rules, decision, parity>>

(* Rules of the infrastructure take no part in the comparison.             *)
InfrastructureRule == GraphFailure

ParityOneSided(python, rego) ==
  IF (rego \ python) \subseteq InfrastructureRule THEN "MATCH" ELSE "DIVERGENCE"
Parity(python, rego) ==
  IF /\ python \ InfrastructureRule = rego \ InfrastructureRule
     /\ Resolve(python) = Resolve(rego)
  THEN "MATCH" ELSE "DIVERGENCE"

OutcomeOfShadowIgnored ==
  IF backend = "OPA" /\ opa # "SUCCESS" THEN "DENY"
  ELSE Resolve(IF backend = "OPA" THEN RegoFindings(input) ELSE rules)
(* Without an answer OPA and SHADOW deny; with it, SHADOW follows Python.  *)
Outcome ==
  IF backend # "PYTHON" /\ opa # "SUCCESS" THEN "DENY"
  ELSE Resolve(IF backend = "OPA" THEN RegoFindings(input) ELSE rules)

Conclude ==
  /\ stage = "conclude"
  /\ decision' = Outcome
  /\ parity' = IF backend # "SHADOW" THEN None
               ELSE IF opa # "SUCCESS" THEN "OPA_ERROR"
               ELSE Parity(rules, RegoFindings(input))
  /\ stage' = "done"
  /\ UNCHANGED <<backend, input, rules, opa>>

EngineNext ==
  \/ \E c \in Inputs : Evaluate(c)
  \/ EvaluatePython
  \/ OpaAnswers \/ \E failure \in OpaFailure : OpaFails(failure)
  \/ Conclude

EngineSpec == EngineInit /\ [][EngineNext]_engine_vars

-----------------------------------------------------------------------------
(* An action passes only on an answer: without one, an engine that is to   *)
(* ask OPA denies, and so it does when a graph, provenance or trajectory   *)
(* analysis did not complete, whatever else holds.                         *)
FailClosed ==
  /\ stage = "done"
  /\ \/ backend # "PYTHON" /\ opa # "SUCCESS"
     \/ input \cap (GraphFailure \cup ProvenanceFailure \cup TrajectoryFailure) # {}
  => decision = "DENY"

(* Where the two sets of rules are known to differ: actions of type        *)
(* DELEGATION, a contract whose deadline passed but whose status is still  *)
(* ACTIVE, and EXECUTE on inputs that are not trusted.                     *)
Gap(c) ==
  \/ c \cap {"DELEGATION", "past_deadline"} # {}
  \/ "EXECUTE" \in c /\ c \cap {"untrusted_input", "unknown_input"} # {}

(* Outside of those, what is decided does not depend on the backend,       *)
(* although the Python rules return early and the packages of OPA do not.  *)
BackendsAgree ==
  stage = "done" /\ ~Gap(input) /\ (backend # "PYTHON" => opa = "SUCCESS")
    => decision = PythonVerdict(input)

(* A MATCH reported in SHADOW predicts what OPA would decide alone, so a   *)
(* gap in the policies is noticed before the backend is switched.          *)
MatchPredictsOpa ==
  parity = "MATCH" => decision = Resolve(RegoFindings(input))

(* One more reason against an action never makes the verdict milder: no    *)
(* early return hides a severer finding.                                   *)
Against == Fact \ {"no_contract", "DELEGATION", "delegated", "high_environment_ancestor"}
NeverMilder ==
  stage = "python" =>
    \A f \in Against :
      Coherent(input \cup {f}) =>
        Severity(PythonVerdict(input \cup {f})) >= Severity(PythonVerdict(input))

(* Both sets of rules decide alike on every document.                      *)
DecisionParity ==
  stage = "done" /\ opa = "SUCCESS" => decision = PythonVerdict(input)
=============================================================================
