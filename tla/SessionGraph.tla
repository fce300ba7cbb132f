----------------------------- MODULE SessionGraph -----------------------------
(***************************************************************************)
(* The CausalExecutionGraph of one session (graph/causal_graph.py): a      *)
(* directed graph of intents, agents, grants, actions and artifacts, that  *)
(* the gateway, the delegation service and the provenance store all write  *)
(* to, one method call at a time.  networkx keeps one edge per ordered     *)
(* pair of nodes: adding another replaces its relation.                    *)
(***************************************************************************)
EXTENDS Naturals, FiniteSets

CONSTANTS IntentNode, AgentNode, DelegationNode, ActionNode, ArtifactNode,
          MaxEdges   \* bound on the edges of the graph

Node == IntentNode \cup AgentNode \cup DelegationNode \cup ActionNode \cup ArtifactNode

Relation == {"GOVERNS", "ISSUES_DELEGATION", "GRANTS_TO", "SUBDELEGATES",
             "CREATES_DELEGATION", "PRODUCES", "CONSUMES", "DERIVED_FROM",
             "CAUSES", "precedes"}

ASSUME GraphAssumption == MaxEdges \in Nat

VARIABLES nodes,
          edges   \* the pairs of nodes of each relation

graph_vars == <<nodes, edges>>

GraphTypeOK ==
  /\ nodes \subseteq Node
  /\ edges \in [Relation -> SUBSET (Node \X Node)]

GraphInit ==
  /\ nodes = {}
  /\ edges = [r \in Relation |-> {}]

-----------------------------------------------------------------------------
(* Paths, by the sets that no edge leaves: there is no path from u to v    *)
(* when some such set holds u and not v.                                   *)
Ends(E) == {e[1] : e \in E} \cup {e[2] : e \in E}
Closed(E, C) == \A e \in E : e[1] \in C => e[2] \in C
HasPath(E, u, v) == u = v \/ \A D \in SUBSET (Ends(E) \ {u, v}) : ~Closed(E, D \cup {u})

(* is_directed_acyclic_graph: every set of nodes has one from which no     *)
(* edge stays in the set.                                                  *)
Acyclic(E) ==
  \A S \in SUBSET {e[1] : e \in E} :
    S # {} => \E x \in S : \A e \in E : e[1] = x => e[2] \notin S

All(E) == UNION {E[r] : r \in Relation}

AddEdgeBeside(E, r, u, v) == [E EXCEPT ![r] = @ \cup {<<u, v>>}]
AddEdge(E, r, u, v) ==
  [q \in Relation |-> IF q = r THEN E[q] \cup {<<u, v>>} ELSE E[q] \ {<<u, v>>}]

(* Edges that are added one after the other, with one end in common.       *)
AddFrom(E, r, u, V) ==
  [q \in Relation |-> IF q = r THEN E[q] \cup ({u} \X V) ELSE E[q] \ ({u} \X V)]
AddInto(E, r, U, v) ==
  [q \in Relation |-> IF q = r THEN E[q] \cup (U \X {v}) ELSE E[q] \ (U \X {v})]

WithoutOutgoing(E, n) == [r \in Relation |-> {e \in E[r] : e[1] # n}]
Without(E, n) == [r \in Relation |-> {e \in E[r] : n \notin {e[1], e[2]}}]

Preds(E, r, n) == {e[1] : e \in {e \in E[r] : e[2] = n}}
Succs(E, r, n) == {e[2] : e \in {e \in E[r] : e[1] = n}}

-----------------------------------------------------------------------------
(* add_intent_node, add_agent_node, add_delegation_node,                   *)
(* add_artifact_node: adding a node again changes nothing.                 *)
AddNode(n) ==
  /\ n \in Node \ ActionNode
  /\ nodes' = nodes \cup {n}
  /\ UNCHANGED edges

(* add_action refuses an id that is taken (ActionCollisionError).          *)
AddAction(a) ==
  /\ a \in ActionNode \ nodes
  /\ nodes' = nodes \cup {a}
  /\ UNCHANGED edges

(* Bound.                                                                  *)
EdgesLeft == Cardinality(All(edges)) < MaxEdges

Link(r, u, v) ==
  /\ EdgesLeft
  /\ edges' = AddEdge(edges, r, u, v)

BothExist(u, v) == {u, v} \subseteq nodes

(* add_governs_edge, add_delegation_governs_edge,                          *)
(* add_intent_delegation_governs_edge                                      *)
AddGovernsEdge(u, v) ==
  /\ <<u, v>> \in (IntentNode \X (ActionNode \cup DelegationNode))
                    \cup (DelegationNode \X ActionNode)
  /\ BothExist(u, v) /\ Link("GOVERNS", u, v)
  /\ UNCHANGED nodes

(* These two make the agent's node when it is missing.                     *)
AddIssuesDelegationEdge(agent, d) ==
  /\ d \in nodes /\ nodes' = nodes \cup {agent}
  /\ Link("ISSUES_DELEGATION", agent, d)

AddGrantsToEdge(d, agent) ==
  /\ d \in nodes /\ nodes' = nodes \cup {agent}
  /\ Link("GRANTS_TO", d, agent)

(* DelegationCycleError                                                    *)
AddSubdelegatesEdge(parent, child) ==
  /\ BothExist(parent, child)
  /\ ~HasPath(edges["SUBDELEGATES"], child, parent)
  /\ Link("SUBDELEGATES", parent, child)
  /\ UNCHANGED nodes

AddCreatesDelegationEdge(a, d) ==
  BothExist(a, d) /\ Link("CREATES_DELEGATION", a, d) /\ UNCHANGED nodes

AddProducesEdge(a, x) == BothExist(a, x) /\ Link("PRODUCES", a, x) /\ UNCHANGED nodes

AddConsumesEdge(x, a) == BothExist(a, x) /\ Link("CONSUMES", x, a) /\ UNCHANGED nodes

(* ProvenanceCycleError                                                    *)
AddDerivedFromEdge(child, parent) ==
  /\ BothExist(child, parent)
  /\ ~HasPath(edges["DERIVED_FROM"], parent, child)
  /\ Link("DERIVED_FROM", child, parent)
  /\ UNCHANGED nodes

(* add_relationship: only CAUSES is checked, against paths of every        *)
(* relation (GraphCycleError).                                             *)
MayCauseUnlessMutual(u, v) == <<v, u>> \notin All(edges)
MayCause(u, v) == ~HasPath(All(edges), v, u)

AddRelationship(u, v, r) ==
  /\ r \in {"CAUSES", "precedes"}
  /\ BothExist(u, v)
  /\ r = "CAUSES" => MayCause(u, v)
  /\ Link(r, u, v)
  /\ UNCHANGED nodes

(* remove_node, by which the provenance store rolls an artifact back.      *)
RemoveNode(x) ==
  /\ x \in nodes \cap ArtifactNode
  /\ nodes' = nodes \ {x}
  /\ edges' = Without(edges, x)

GraphNext ==
  \/ \E n \in Node : AddNode(n) \/ AddAction(n) \/ RemoveNode(n)
  \/ \E u, v \in Node : AddGovernsEdge(u, v)
                        \/ \E r \in Relation : AddRelationship(u, v, r)
  \/ \E g \in AgentNode, d \in DelegationNode :
       AddIssuesDelegationEdge(g, d) \/ AddGrantsToEdge(d, g)
  \/ \E c, d \in DelegationNode : AddSubdelegatesEdge(c, d)
  \/ \E a \in ActionNode, d \in DelegationNode : AddCreatesDelegationEdge(a, d)
  \/ \E a \in ActionNode, x \in ArtifactNode : AddProducesEdge(a, x) \/ AddConsumesEdge(x, a)
  \/ \E x, y \in ArtifactNode : AddDerivedFromEdge(x, y)

GraphSpec == GraphInit /\ [][GraphNext]_graph_vars

-----------------------------------------------------------------------------
(* Causes, derivation and subdelegation never form a cycle, although       *)
(* edges of the other relations, and CAUSES between any nodes, are added   *)
(* in any order and replace each other (has_valid_typed_dags).             *)
TypedDags ==
  /\ Acyclic(edges["CAUSES"])
  /\ Acyclic(edges["DERIVED_FROM"])
  /\ Acyclic(edges["SUBDELEGATES"])

(* Edges join nodes that exist, also after a rollback removed one.         *)
EdgesJoinNodes == \A e \in All(edges) : {e[1], e[2]} \subseteq nodes
=============================================================================
