---------------------------- MODULE InformationFlow ----------------------------
(***************************************************************************)
(* What flows through one session: the gateway (gateway/service.py) joins  *)
(* the causal graph, the provenance store, the analyzers of both and of    *)
(* the trajectory, and the Python rules.  A proposal is judged by what the *)
(* graph and the store hold at that moment; an allowed action is executed  *)
(* by a later call, and its output becomes an artifact.                    *)
(*                                                                         *)
(* One agent acts, under a contract that permits everything and lasts, in  *)
(* one environment.  AgentGateway models what this leaves out: the checks  *)
(* of the contract and of grants, the calls that run at the same time, and *)
(* the proposals that a continuation check refuses, which change nothing   *)
(* here.  The depth limits of the analyses are above the bounds.           *)
(***************************************************************************)
EXTENDS ProvenanceStore, PolicyRules

CONSTANTS Tools,           \* the tools that are proposed
          Ingestible,      \* <<source, trust, classes>> of artifacts from outside
          PayloadFields,   \* the arguments that may name the artifact to send
          MaxInputs,       \* bound on the inputs of a proposal
          MaxRecords,      \* bound on the actions and artifacts together
          RepeatParent,    \* whether previous_action_ids may hold the parent
          MaxDistance,     \* max_untrusted_sensitive_access_distance
          EgressThreshold  \* sensitive_egress_count_threshold

Field == {"body_artifact_id", "payload_artifact_id"}

(* The walks over causes are as long as there are ids.                     *)
ASSUME FlowAssumption ==
  /\ PayloadFields \subseteq Field /\ IsFiniteSet(ActionNode)
  /\ Ingestible \subseteq Source \X Trust \X SUBSET Classification
  /\ MaxInputs \in Nat /\ MaxRecords \in Nat /\ MaxDistance \in Nat /\ EgressThreshold \in Nat
  /\ RepeatParent \in BOOLEAN

VARIABLES actions,     \* from the ids that are recorded to what is known of them
          trajectory   \* the TrajectoryState of the session

flow_vars == <<nodes, edges, artifacts, payloads, actions, trajectory>>

Recorded == DOMAIN actions

Named == UNION {[F -> ArtifactNode] : F \in SUBSET PayloadFields}

FlowTypeOK ==
  /\ GraphTypeOK /\ StoreTypeOK
  /\ Recorded = nodes \cap ActionNode
  /\ actions \in [Recorded -> [tool: Tools, decision: Verdict, approved: BOOLEAN,
                              inputs: SUBSET ArtifactNode, named: Named,
                              executed: BOOLEAN, sent: ArtifactNode \cup {None}]]
  /\ trajectory \in [last: ActionNode \cup {None}, pending: ActionNode \cup {None},
                     egress: Nat, quarantined: BOOLEAN]

FlowInit ==
  /\ GraphInit /\ StoreInit
  /\ actions = [a \in {} |-> a]
  /\ trajectory = [last |-> None, pending |-> None, egress |-> 0, quarantined |-> FALSE]

-----------------------------------------------------------------------------
(* The tools of the registry, and the resource each reports as its source; *)
(* any other tool is unknown.                                              *)
KnownTool == {"web.search", "file.read", "file.write", "database.read", "agent.transform",
              "secrets.vault_read", "external.http_post", "system.delete_resource"}

ToolFacts(tool) ==
  If(tool \notin KnownTool, "unknown_tool")
  \cup If(tool \notin KnownTool \/ tool \in {"database.read", "secrets.vault_read",
                                             "system.delete_resource"}, "privileged")
  \cup If(tool = "system.delete_resource", "destructive")
  \cup If(tool = "secrets.vault_read", "secret_data")
  \cup (IF tool = "external.http_post" THEN {"external_sink", "requires_tracked_inputs"} ELSE {})

ReadsResource(tool) == tool \in {"database.read", "secrets.vault_read"}
DerivesOutput(tool) == tool \in {"agent.transform", "file.write"}
Silent(tool) == tool \in {"external.http_post", "system.delete_resource"}
IsSink(tool) == tool = "external.http_post"

(* What the registry of resources says of that source.                     *)
SourceOf(tool) == IF tool = "web.search" THEN "EXTERNAL_CONTENT" ELSE "OTHER"
TrustOf(tool) ==
  CASE tool = "web.search" -> "EXTERNAL_UNTRUSTED"
    [] tool \in {"database.read", "secrets.vault_read"} -> "INTERNAL_TRUSTED"
    [] tool = "agent.transform" -> "AGENT_DERIVED"
    [] OTHER -> "UNKNOWN"
ClassesOf(tool) ==
  CASE tool = "database.read" -> {"CONFIDENTIAL"}
    [] tool = "secrets.vault_read" -> {"CREDENTIAL"}
    [] OTHER -> {}

-----------------------------------------------------------------------------
(* The walk from a parent along CAUSES edges: at[d] is d steps before the  *)
(* action whose parent it is.                                              *)
CauseOf(E, a) ==
  IF a = None \/ Preds(E, "CAUSES", a) = {} THEN None
  ELSE CHOOSE b \in Preds(E, "CAUSES", a) : TRUE

Walk(E, parent) ==
  LET at[d \in 1..Cardinality(ActionNode)] ==
        IF d = 1 THEN parent ELSE CauseOf(E, at[d - 1])
  IN  at

OnWalk(at) == {at[d] : d \in DOMAIN at} \ {None}

Probe(a) == ToolFacts(actions[a].tool) \cap {"unknown_tool", "privileged", "destructive"} # {}

(* analyze_action_causality: by the tools of the ancestors, not by what    *)
(* they read.                                                              *)
GraphFacts(at) ==
  If(\E a \in OnWalk(at) : "secret_data" \in ToolFacts(actions[a].tool), "sensitive_ancestor")
  \cup If(\E a \in OnWalk(at) : actions[a].decision # "ALLOW", "denied_ancestor")
  \cup If(\A d \in {1, 2} : d \in DOMAIN at /\ at[d] # None /\ Probe(at[d]), "two_prior_probes")

(* A proposal: [tool, inputs, named, raw], where named maps the payload    *)
(* fields that are given to artifacts, and raw is other outbound data.     *)
NoField == [f \in {} |-> None]

Bound(p) == {p.named[f] : f \in DOMAIN p.named} \cap p.inputs

ProvenanceFacts(p) ==
  IF ReferenceError(p.inputs) # {} THEN ReferenceError(p.inputs)
  ELSE If(IsSink(p.tool) /\ (p.raw \/ Bound(p) = {})
            /\ (p.raw \/ p.inputs # {} \/ DOMAIN p.named # {}), "payload_unbound")
    \cup If("CREDENTIAL" \in Classes(p.inputs), "credential_input")
    \cup If("CONFIDENTIAL" \in Classes(p.inputs), "sensitive_input")
    \cup If("EXTERNAL_UNTRUSTED" \in Origins(p.inputs), "untrusted_input")
    \cup If("UNKNOWN" \in Origins(p.inputs), "unknown_input")

(* Invalid references leave no validated input.                            *)
Validated(p) == IF ReferenceError(p.inputs) = {} THEN p.inputs ELSE {}

SendsSensitive(p) ==
  /\ IsSink(p.tool) /\ ReferenceError(p.inputs) = {}
  /\ \E x \in Bound(p) : artifacts[x].classes # {}

(* The trajectory analyzer reads the labels of an artifact as they are.    *)
UntrustedArtifact(x) == "EXTERNAL_UNTRUSTED" \in {artifacts[x].trust} \cup artifacts[x].inherited

Touched(E, a) == (Preds(E, "CONSUMES", a) \cup Succs(E, "PRODUCES", a)) \cap Registered

UntrustedAt(E, at) ==
  {d \in DOMAIN at : at[d] # None /\ \E x \in Touched(E, at[d]) : UntrustedArtifact(x)}

TrajectoryFacts(p, E, at, egress) ==
  LET own == \E x \in Validated(p) : UntrustedArtifact(x)
      path == own \/ UntrustedAt(E, at) # {}
      near == own \/ \E d \in UntrustedAt(E, at) : d <= MaxDistance
      transforms == {d \in DOMAIN at : at[d] # None /\ actions[at[d]].tool = "agent.transform"}
  IN  If(path, "untrusted_path")
      \cup If(ReadsResource(p.tool) /\ near, "untrusted_path_to_access")
      \cup If(SendsSensitive(p) /\ path, "untrusted_path_to_egress")
      \cup If(SendsSensitive(p) /\ Cardinality(transforms) >= 2, "hop_laundering")
      \cup If(egress >= EgressThreshold, "egress_threshold")

-----------------------------------------------------------------------------
LinkedToPrevious(E, a, parent, previous) ==
  IF parent = None \/ previous # {} THEN AddInto(E, "precedes", previous, a)
  ELSE AddEdge(E, "CAUSES", parent, a)
(* The parent first, then the previous actions.                            *)
Linked(E, a, parent, previous) ==
  LET caused == IF parent = None THEN E ELSE AddEdge(E, "CAUSES", parent, a)
  IN  AddInto(caused, "precedes", previous, a)

(* Bound.                                                                  *)
RecordsLeft == Cardinality(Recorded) + Cardinality(Registered) < MaxRecords

(* A uuid4: which of the unused ids it is does not matter.                 *)
Fresh(unused) == {n \in unused : RecordsLeft /\ n = CHOOSE m \in unused : TRUE}
FreshAction == Fresh(ActionNode \ Recorded)
FreshArtifact(here) == Fresh(here \ Registered)

(* evaluate_proposal, past the checks on pending approvals and on          *)
(* continuation: the proposal is recorded, then analysed, then decided.    *)
(* Nothing reads the arguments of a denied action again: they are dropped. *)
EvaluateProposal(a, p, previous) ==
  LET parent == trajectory.last
      E == Linked(AddInto(edges, "GOVERNS", IntentNode, a), a, parent, previous)
      at == Walk(E, parent)
      egress == trajectory.egress + (IF SendsSensitive(p) THEN 1 ELSE 0)
      facts == {"require_intent"} \cup ToolFacts(p.tool) \cup GraphFacts(at)
                 \cup ProvenanceFacts(p) \cup TrajectoryFacts(p, E, at, egress)
      verdict == PythonVerdict(facts)
  IN  /\ ~trajectory.quarantined /\ trajectory.pending = None
      /\ parent \in previous => RepeatParent
      /\ nodes' = nodes \cup IntentNode \cup {a}
      /\ edges' = E
      /\ actions' = [b \in Recorded \cup {a} |->
                       IF b # a THEN actions[b]
                       ELSE [tool |-> p.tool, decision |-> verdict, approved |-> FALSE,
                             inputs |-> IF verdict = "DENY" THEN {} ELSE Validated(p),
                             named |-> IF verdict = "DENY" THEN NoField ELSE p.named,
                             executed |-> FALSE, sent |-> None]]
      /\ trajectory' = [last |-> a, egress |-> egress,
                        pending |-> IF verdict = "REQUIRE_APPROVAL" THEN a ELSE None,
                        quarantined |-> verdict = "QUARANTINE" \/ "egress_threshold" \in facts]
      /\ UNCHANGED store_vars

(* The payload that goes out: of the body if it is named, else of the      *)
(* other field, wherever that artifact is.                                 *)
Sent(action) ==
  LET field == IF "body_artifact_id" \in DOMAIN action.named THEN "body_artifact_id"
               ELSE "payload_artifact_id"
  IN  IF IsSink(action.tool) /\ field \in DOMAIN action.named
           /\ action.named[field] \in payloads
      THEN action.named[field] ELSE None

(* execute_authorized_action, which does not ask whether it already ran;   *)
(* an input that the graph misses is added to it.                          *)
Execution(a, action) ==
  LET g == [nodes |-> nodes \cup action.inputs, edges |-> AddInto(edges, "CONSUMES", action.inputs, a)]
      tool == action.tool
  IN  /\ actions' = [actions EXCEPT ![a] = [action EXCEPT !.executed = TRUE, !.sent = Sent(action)]]
      /\ \/ Silent(tool) /\ SetGraph(g) /\ UNCHANGED store_vars
         \/ /\ ~Silent(tool)
            /\ \E x \in FreshArtifact(ArtifactNode \ Foreign) :
                 RegisterIn(g, x, Output(a, SourceOf(tool), TrustOf(tool), ClassesOf(tool),
                                         DerivesOutput(tool), action.inputs))

MayExecuteUnlessDenied(action) == action.decision # "DENY"
MayExecute(action) == action.decision = "ALLOW"

ExecuteAuthorizedAction(a) ==
  /\ a \in Recorded /\ MayExecute(actions[a])
  /\ Execution(a, actions[a])
  /\ UNCHANGED trajectory

Cleared == trajectory' = [trajectory EXCEPT !.pending = None]

(* resolve_pending_approval: an approved action is executed at once, if    *)
(* the payload of each of its inputs is there; otherwise it is rejected,   *)
(* as by a human.                                                          *)
Approve(a) ==
  /\ a = trajectory.pending /\ Cleared
  /\ actions[a].inputs \subseteq payloads
  /\ Execution(a, [actions[a] EXCEPT !.decision = "ALLOW", !.approved = TRUE])

Reject(a) ==
  /\ a = trajectory.pending /\ Cleared
  /\ actions' = [actions EXCEPT ![a].decision = "DENY"]
  /\ UNCHANGED <<nodes, edges, artifacts, payloads>>

(* An artifact from outside is registered, with the graph and its payload, *)
(* or without the graph and maybe without a payload.                       *)
Ingest(x, label, parents, stored) ==
  LET artifact == Ingested(label[1], label[2], label[3], parents)
  IN  /\ UNCHANGED <<actions, trajectory>>
      /\ \/ x \notin Foreign /\ RegisterIn([nodes |-> nodes, edges |-> edges], x, artifact)
         \/ RegisterOnly(x, artifact, stored)

(* Payload arguments matter to a sink only.                                *)
Proposals ==
  {p \in [tool: Tools, inputs: {I \in SUBSET ArtifactNode : Cardinality(I) <= MaxInputs},
          named: Named, raw: BOOLEAN] :
     IsSink(p.tool) \/ (DOMAIN p.named = {} /\ ~p.raw)}

FlowNext ==
  \/ \E a \in FreshAction, p \in Proposals, previous \in SUBSET Recorded :
       EvaluateProposal(a, p, previous)
  \/ \E a \in ActionNode : ExecuteAuthorizedAction(a)
  \/ \E a \in Recorded : Approve(a) \/ Reject(a)
  \/ \E x \in FreshArtifact(Foreign) \cup FreshArtifact(ArtifactNode \ Foreign),
        label \in Ingestible, stored \in BOOLEAN, parents \in SUBSET ArtifactNode :
       Ingest(x, label, parents, stored)

FlowSpec == FlowInit /\ [][FlowNext]_flow_vars

-----------------------------------------------------------------------------
RanTool(tools) == {a \in Recorded : actions[a].executed /\ actions[a].tool \in tools}

(* Nothing that was sent out has sensitive data anywhere upstream: neither *)
(* tools in between, nor artifacts that were ingested with other labels,   *)
(* launder it (RULE_PROVENANCE_SENSITIVE_TO_EXTERNAL).                     *)
NothingSensitiveSent ==
  \A a \in RanTool(KnownTool) :
    actions[a].sent # None => \A x \in Upstream({actions[a].sent}) : artifacts[x].classes = {}

(* What was sent out is one of the inputs that were analysed.              *)
SentWasAnalysed ==
  \A a \in RanTool(KnownTool) : actions[a].sent # None => actions[a].sent \in actions[a].inputs

(* A privileged tool ran on data of untrusted or unknown origin, however   *)
(* far upstream, only after a human approved                               *)
(* (RULE_PROVENANCE_UNTRUSTED_TO_PRIVILEGED).                              *)
UntrustedNeedsApproval ==
  \A a \in Recorded :
    /\ actions[a].executed /\ "privileged" \in ToolFacts(actions[a].tool)
    /\ \E x \in Upstream(actions[a].inputs) :
         Normalized(artifacts[x]) \in {"EXTERNAL_UNTRUSTED", "UNKNOWN"}
    => actions[a].approved

(* The recorded causes reach everything that data came from: who made an   *)
(* artifact is a causal ancestor of who takes it as an input, so that the  *)
(* walks of the analyzers, which follow CAUSES alone, do not miss it.      *)
FlowFollowsCausality ==
  \A a \in Recorded, c \in ActionNode :
    (\E x \in Upstream(actions[a].inputs) : artifacts[x].creator = c)
      => c \in OnWalk(Walk(edges, a))

(* The store and the graph tell the same derivation of every artifact that *)
(* both know, and a registration that failed left no trace in either.      *)
StoreMatchesGraph ==
  /\ payloads \cup (nodes \cap ArtifactNode) \subseteq Registered
  /\ \A x \in nodes \cap ArtifactNode :
       LET shown == Succs(edges, "DERIVED_FROM", x)
       IN  /\ shown \in {artifacts[x].parents, {}}
           /\ artifacts[x].creator # None
                => shown = artifacts[x].parents
                   /\ Preds(edges, "PRODUCES", x) = {artifacts[x].creator}

(* Sensitive data was read within MaxDistance causal steps of untrusted    *)
(* content only after a human approved                                     *)
(* (RULE_TRAJECTORY_UNTRUSTED_PATH_TO_SENSITIVE_ACCESS).                   *)
AccessAfterUntrustedApproved ==
  \A a \in Recorded :
    /\ actions[a].executed /\ ReadsResource(actions[a].tool)
    /\ \E d \in UntrustedAt(edges, Walk(edges, a)) : 1 < d /\ d <= MaxDistance + 1
    => actions[a].approved
=============================================================================
