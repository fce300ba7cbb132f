---------------------------- MODULE ProvenanceStore ----------------------------
(***************************************************************************)
(* The ProvenanceStore (provenance/store.py) keeps the metadata and the    *)
(* payload of every artifact, and records artifacts in the graph of their  *)
(* session; the ArtifactFactory labels what a tool returns; the            *)
(* ProvenanceAnalyzer reads the labels upstream of the inputs of an        *)
(* action.  Of the classifications those that a rule asks for are kept,    *)
(* one for each of its two tiers.                                          *)
(***************************************************************************)
EXTENDS SessionGraph

CONSTANTS Foreign,   \* the artifacts of another session, which has its own graph
          None

(* The ids of actions, artifacts and contracts are of uuid4.               *)
ASSUME StoreAssumption ==
  /\ Foreign \subseteq ArtifactNode /\ None \notin Node
  /\ ActionNode \cap ArtifactNode = {} /\ IntentNode \cap (ActionNode \cup ArtifactNode) = {}

Trust == {"TRUSTED_HUMAN", "INTERNAL_TRUSTED", "EXTERNAL_UNTRUSTED", "AGENT_DERIVED", "UNKNOWN"}
Classification == {"CREDENTIAL", "CONFIDENTIAL"}
Source == {"HUMAN_INPUT", "EXTERNAL_CONTENT", "OTHER"}

Artifact == [creator: ActionNode \cup {None}, parents: SUBSET ArtifactNode,
             source: Source, trust: Trust, inherited: SUBSET Trust,
             classes: SUBSET Classification]

VARIABLES artifacts,   \* from the ids that are registered to their metadata
          payloads     \* the ids whose payload is stored

store_vars == <<artifacts, payloads>>

Registered == DOMAIN artifacts

StoreTypeOK ==
  /\ Registered \subseteq ArtifactNode /\ payloads \subseteq ArtifactNode
  /\ artifacts \in [Registered -> Artifact]

StoreInit == artifacts = [x \in {} |-> x] /\ payloads = {}

-----------------------------------------------------------------------------
(* Derivation, any number of steps upstream: the least set that holds X    *)
(* and the parents of all it holds.                                        *)
WithParents(C) == \A x \in C \cap Registered : artifacts[x].parents \subseteq C
Upstream(X) ==
  {y \in X \cup Registered :
     \A C \in SUBSET (X \cup Registered) : X \subseteq C /\ WithParents(C) => y \in C}

SameSession(x, y) == (x \in Foreign) = (y \in Foreign)

(* MissingArtifactError, CrossSessionReferenceError, ProvenanceCycleError; *)
(* nothing is written before.  Nor is it when the payload is too large.    *)
MayRegister(x, artifact) ==
  /\ \A p \in artifact.parents : p \in Registered /\ SameSession(x, p)
  /\ x \notin Upstream(artifact.parents)

(* The projection of an artifact to a graph, which raises when the node of *)
(* its creator or of a parent is missing, or on a cycle of derivation.     *)
Accepts(g, x, artifact) ==
  /\ artifact.parents \cup ({artifact.creator} \ {None}) \subseteq g.nodes
  /\ \A p \in artifact.parents : ~HasPath(g.edges["DERIVED_FROM"], p, x)

Projected(g, x, artifact) ==
  LET produced == IF artifact.creator = None THEN g.edges
                  ELSE AddEdge(g.edges, "PRODUCES", artifact.creator, x)
  IN  [nodes |-> g.nodes \cup {x},
       edges |-> AddFrom(produced, "DERIVED_FROM", x, artifact.parents)]

RolledBackMetadataOnly(g, x) == g
RolledBack(g, x) == [nodes |-> g.nodes \ {x}, edges |-> Without(g.edges, x)]

SetGraph(g) == nodes' = g.nodes /\ edges' = g.edges

(* register_artifact with a graph g, as the caller left it.  If the graph  *)
(* raises, what was written of x is removed everywhere.                    *)
RegisterIn(g, x, artifact) ==
  /\ MayRegister(x, artifact)
  /\ IF Accepts(g, x, artifact)
     THEN /\ artifacts' = [y \in Registered \cup {x} |-> IF y = x THEN artifact ELSE artifacts[y]]
          /\ payloads' = payloads \cup {x}
          /\ SetGraph(Projected(g, x, artifact))
     ELSE /\ artifacts' = [y \in Registered \ {x} |-> artifacts[y]]
          /\ payloads' = payloads \ {x}
          /\ SetGraph(RolledBack(Projected(g, x, artifact), x))

(* register_artifact without a graph; the payload may be left out, too.    *)
RegisterOnly(x, artifact, stored) ==
  /\ MayRegister(x, artifact)
  /\ artifacts' = [y \in Registered \cup {x} |-> IF y = x THEN artifact ELSE artifacts[y]]
  /\ payloads' = IF stored THEN payloads \cup {x} ELSE payloads
  /\ UNCHANGED graph_vars

-----------------------------------------------------------------------------
(* create_ingested_artifact: the caller says what it is.                   *)
Ingested(source, trust, classes, parents) ==
  [creator |-> None, parents |-> parents, source |-> source, trust |-> trust,
   inherited |-> {}, classes |-> classes]

(* create_output_artifact.  A tool that derives its output from its inputs *)
(* passes on all their labels, another one none.                           *)
Output(action, source, trust, classes, derives, inputs) ==
  LET parents == IF derives THEN inputs ELSE {}
  IN  [creator |-> action, parents |-> parents, source |-> source, trust |-> trust,
       inherited |-> UNION {artifacts[p].inherited \cup {artifacts[p].trust} : p \in parents},
       classes |-> classes \cup UNION {artifacts[p].classes : p \in parents}]

(* normalize_to_provenance_trust                                           *)
Normalized(artifact) ==
  CASE artifact.source = "HUMAN_INPUT" -> "TRUSTED_HUMAN"
    [] artifact.source = "EXTERNAL_CONTENT" -> "EXTERNAL_UNTRUSTED"
    [] OTHER -> artifact.trust

(* analyze_provenance: the unions over the inputs and all upstream of them. *)
AnalysedInputsOnly(X) == X
Analysed(X) == Upstream(X)

Classes(X) == UNION {artifacts[x].classes : x \in Analysed(X)}
Origins(X) == UNION {artifacts[x].inherited \cup {Normalized(artifacts[x])} : x \in Analysed(X)}

ReferenceError(X) ==
  IF ~(X \subseteq Registered) THEN {"PROVENANCE_MISSING_ARTIFACT"}
  ELSE IF X \cap Foreign # {} THEN {"PROVENANCE_CROSS_SESSION_REFERENCE"} ELSE {}
=============================================================================
