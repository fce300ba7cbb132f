---------------------------- MODULE MCPolicyEngine ----------------------------
(* The documents that differ from a usual one in at most two facts.        *)
EXTENDS PolicyEngine

Usual == {{"require_intent"}, {"no_contract"}, {"EXECUTE", "privileged"},
          {"delegated", "other_agent"}, {"external_sink", "requires_tracked_inputs"}}

Near == {base \cup {f, g} : base \in Usual, f, g \in Fact}
Documents == {c \in Near \cup Usual : Coherent(c)}
=============================================================================
