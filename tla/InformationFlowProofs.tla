------------------------- MODULE InformationFlowProofs -------------------------
(***************************************************************************)
(* Proofs about a session: its graph, its provenance store and what flows  *)
(* between its actions.  The first part is about SessionGraph alone: for   *)
(* any sets of nodes and any number of edges the graph stays well formed,  *)
(* and causes, derivation and subdelegation stay free of cycles.  The rest *)
(* is about InformationFlow, for any tools, ids, labels and bounds.  Three *)
(* invariants carry it, each preserved step by step:                       *)
(*   FlowInv   types, references that resolve, and a graph that shows of   *)
(*             every artifact what the store knows;                        *)
(*   Judged    what a verdict established of all data upstream of the      *)
(*             inputs of an action still holds, since artifacts are added  *)
(*             and never change;                                           *)
(*   Lined     the actions of a session are one line of causes, and data   *)
(*             comes from earlier in the line.                             *)
(***************************************************************************)
EXTENDS InformationFlow, FiniteSetTheorems, WellFoundedInduction, TLAPS

USE DEF Relation

-----------------------------------------------------------------------------
(* Acyclic looks at sets of sources only; the property holds of all sets,  *)
(* since a node that is no source has no edge to stay in the set.          *)
LEMMA AcyclicEverySet ==
  ASSUME NEW E, Acyclic(E), NEW S, S # {}
  PROVE  \E x \in S : \A e \in E : e[1] = x => e[2] \notin S
<1>1. CASE S \subseteq {e[1] : e \in E}
  BY <1>1 DEF Acyclic
<1>2. CASE ~(S \subseteq {e[1] : e \in E})
  <2>1. PICK x \in S : x \notin {e[1] : e \in E}
    BY <1>2
  <2>2. \A e \in E : e[1] # x
    BY <2>1
  <2> QED BY <2>1, <2>2
<1> QED BY <1>1, <1>2

(* Taking edges away makes no cycle.                                       *)
LEMMA AcyclicSubset ==
  ASSUME NEW E, NEW F \in SUBSET E, Acyclic(E)
  PROVE  Acyclic(F)
<1> SUFFICES ASSUME NEW S \in SUBSET {e[1] : e \in F}, S # {}
             PROVE  \E x \in S : \A e \in F : e[1] = x => e[2] \notin S
  BY DEF Acyclic
<1>1. PICK x \in S : \A e \in E : e[1] = x => e[2] \notin S
  BY AcyclicEverySet
<1> QED BY <1>1

(* An edge from u to v closes no cycle when a set that no edge leaves      *)
(* holds v and not u.                                                      *)
LEMMA AcyclicAdd ==
  ASSUME NEW E, Acyclic(E), NEW C, Closed(E, C), NEW u, NEW v, v \in C, u \notin C
  PROVE  Acyclic(E \cup {<<u, v>>})
<1> DEFINE F == E \cup {<<u, v>>}
<1> SUFFICES ASSUME NEW S \in SUBSET {e[1] : e \in F}, S # {}
             PROVE  \E x \in S : \A e \in F : e[1] = x => e[2] \notin S
  BY DEF Acyclic
<1>1. CASE S \cap C = {}
  <2>1. PICK x \in S : \A e \in E : e[1] = x => e[2] \notin S
    BY AcyclicEverySet
  <2>2. v \notin S
    BY <1>1
  <2>3. \A e \in F : e[1] = x => e[2] \notin S
    BY <2>1, <2>2
  <2> QED BY <2>3
<1>2. CASE S \cap C # {}
  <2>1. PICK x \in S \cap C : \A e \in E : e[1] = x => e[2] \notin S \cap C
    <3> DEFINE T == S \cap C
    <3>1. T # {} /\ Acyclic(E)
      BY <1>2
    <3> HIDE DEF T
    <3>2. \E x \in T : \A e \in E : e[1] = x => e[2] \notin T
      BY <3>1, AcyclicEverySet
    <3> QED BY <3>2 DEF T
  <2>2. ASSUME NEW e \in F, e[1] = x
        PROVE  e[2] \notin S
    <3>1. e \in E
      BY <2>2
    <3>2. e[2] \in C
      BY <2>2, <3>1 DEF Closed
    <3> QED BY <2>1, <2>2, <3>1, <3>2
  <2> QED BY <2>1, <2>2
<1> QED BY <1>1, <1>2

(* Without a path from v to u there is such a set, for every subset of the *)
(* edges.                                                                  *)
LEMMA NoPathClosed ==
  ASSUME NEW E, NEW F \in SUBSET E, NEW u, NEW v, ~HasPath(E, v, u)
  PROVE  \E C : Closed(F, C) /\ v \in C /\ u \notin C
<1>1. u # v /\ \E D \in SUBSET (Ends(E) \ {v, u}) : Closed(E, D \cup {v})
  BY DEF HasPath
<1>2. PICK D \in SUBSET (Ends(E) \ {v, u}) : Closed(E, D \cup {v})
  BY <1>1
<1>3. Closed(F, D \cup {v})
  BY <1>2 DEF Closed
<1>4. u \notin D \cup {v}
  BY <1>1, <1>2
<1> QED BY <1>3, <1>4

-----------------------------------------------------------------------------
Typed == {"CAUSES", "DERIVED_FROM", "SUBDELEGATES"}

LEMMA TypedDagsEach == TypedDags <=> \A r \in Typed : Acyclic(edges[r])
BY DEF TypedDags, Typed

(* An edge of one relation takes the same pair from the others, and needs  *)
(* a closed set only when its own relation is typed.                       *)
LEMMA LinkKeepsDags ==
  ASSUME TypedDags, NEW r \in Relation, NEW u, NEW v, Link(r, u, v),
         r \in Typed => \E C : Closed(edges[r], C) /\ v \in C /\ u \notin C
  PROVE  TypedDags'
<1>1. edges' = AddEdge(edges, r, u, v)
  BY DEF Link
<1> SUFFICES ASSUME NEW q \in Typed PROVE Acyclic(edges'[q])
  BY DEF TypedDags, Typed
<1>2. Acyclic(edges[q]) /\ q \in Relation
  BY TypedDagsEach DEF Typed
<1>3. CASE q # r
  <2>1. edges'[q] = edges[q] \ {<<u, v>>}
    BY <1>1, <1>2, <1>3 DEF AddEdge
  <2>2. edges'[q] \in SUBSET edges[q]
    BY <2>1
  <2> QED BY <1>2, <2>2, AcyclicSubset
<1>4. CASE q = r
  <2>1. edges'[q] = edges[q] \cup {<<u, v>>}
    BY <1>1, <1>2, <1>4 DEF AddEdge
  <2>2. PICK C : Closed(edges[q], C) /\ v \in C /\ u \notin C
    BY <1>4
  <2>3. Acyclic(edges[q] \cup {<<u, v>>})
    BY <1>2, <2>2, AcyclicAdd
  <2> QED BY <2>1, <2>3
<1> QED BY <1>3, <1>4

LEMMA GraphKeepsDags == TypedDags /\ [GraphNext]_graph_vars => TypedDags'
<1> SUFFICES ASSUME TypedDags, [GraphNext]_graph_vars PROVE TypedDags'
  OBVIOUS
<1> USE DEF Typed
<1>1. CASE UNCHANGED edges
  BY <1>1 DEF TypedDags
<1>2. ASSUME NEW x \in Node, RemoveNode(x) PROVE TypedDags'
  <2>1. edges' = Without(edges, x)
    BY <1>2 DEF RemoveNode
  <2>2. \A q \in Typed : edges'[q] \in SUBSET edges[q]
    BY <2>1 DEF Without
  <2>3. \A q \in Typed : Acyclic(edges'[q])
    BY <2>2, TypedDagsEach, AcyclicSubset
  <2> QED BY <2>3 DEF TypedDags
<1>3. ASSUME NEW u \in Node, NEW v \in Node, NEW r \in Relation, AddRelationship(u, v, r)
      PROVE  TypedDags'
  <2>1. Link(r, u, v) /\ (r = "CAUSES" => ~HasPath(All(edges), v, u))
        /\ r \in {"CAUSES", "precedes"}
    BY <1>3 DEF AddRelationship, MayCause
  <2>2. edges["CAUSES"] \in SUBSET All(edges)
    BY DEF All
  <2>3. r \in Typed => \E C : Closed(edges[r], C) /\ v \in C /\ u \notin C
    BY <2>1, <2>2, NoPathClosed
  <2> QED BY <2>1, <2>3, LinkKeepsDags
<1>4. ASSUME NEW c \in DelegationNode, NEW d \in DelegationNode, AddSubdelegatesEdge(c, d)
      PROVE  TypedDags'
  <2>1. Link("SUBDELEGATES", c, d) /\ ~HasPath(edges["SUBDELEGATES"], d, c)
    BY <1>4 DEF AddSubdelegatesEdge
  <2>2. \E C : Closed(edges["SUBDELEGATES"], C) /\ d \in C /\ c \notin C
    BY <2>1, NoPathClosed
  <2> QED BY <2>1, <2>2, LinkKeepsDags
<1>5. ASSUME NEW x \in ArtifactNode, NEW y \in ArtifactNode, AddDerivedFromEdge(x, y)
      PROVE  TypedDags'
  <2>1. Link("DERIVED_FROM", x, y) /\ ~HasPath(edges["DERIVED_FROM"], y, x)
    BY <1>5 DEF AddDerivedFromEdge
  <2>2. \E C : Closed(edges["DERIVED_FROM"], C) /\ y \in C /\ x \notin C
    BY <2>1, NoPathClosed
  <2> QED BY <2>1, <2>2, LinkKeepsDags
<1>6. ASSUME NEW r \in Relation \ Typed, NEW u, NEW v, Link(r, u, v) PROVE TypedDags'
  BY <1>6, LinkKeepsDags
<1>7. CASE \E n \in Node : AddNode(n) \/ AddAction(n)
  BY <1>7, <1>1 DEF AddNode, AddAction
<1>8. CASE \E u, v \in Node : AddGovernsEdge(u, v)
  BY <1>8, <1>6 DEF AddGovernsEdge
<1>9. CASE \E g \in AgentNode, d \in DelegationNode :
             AddIssuesDelegationEdge(g, d) \/ AddGrantsToEdge(d, g)
  BY <1>9, <1>6 DEF AddIssuesDelegationEdge, AddGrantsToEdge
<1>10. CASE \E a \in ActionNode, d \in DelegationNode : AddCreatesDelegationEdge(a, d)
  BY <1>10, <1>6 DEF AddCreatesDelegationEdge
<1>11. CASE \E a \in ActionNode, x \in ArtifactNode :
              AddProducesEdge(a, x) \/ AddConsumesEdge(x, a)
  BY <1>11, <1>6 DEF AddProducesEdge, AddConsumesEdge
<1>12. CASE UNCHANGED graph_vars
  BY <1>12, <1>1 DEF graph_vars
<1> QED
  BY <1>2, <1>3, <1>4, <1>5, <1>7, <1>8, <1>9, <1>10, <1>11, <1>12 DEF GraphNext

(* Causes, derivation and subdelegation never form a cycle, whatever is    *)
(* added, replaced and rolled back in whatever order                       *)
(* (has_valid_typed_dags): the analyzers may walk them without a bound.    *)
THEOREM TypedDagsAlways == GraphSpec => []TypedDags
<1>1. GraphInit => TypedDags
  BY DEF GraphInit, TypedDags, Acyclic
<1> QED BY <1>1, GraphKeepsDags, PTL DEF GraphSpec

-----------------------------------------------------------------------------
(* An edge between nodes that are there keeps the graph in one piece.      *)
LEMMA LinkJoins ==
  ASSUME EdgesJoinNodes, NEW r \in Relation, NEW u, NEW v, Link(r, u, v),
         nodes \subseteq nodes', {u, v} \subseteq nodes'
  PROVE  EdgesJoinNodes'
<1>1. \A q \in Relation : edges'[q] \subseteq edges[q] \cup {<<u, v>>}
  BY DEF Link, AddEdge
<1>2. \A e \in All(edges') : e \in All(edges) \/ e = <<u, v>>
  BY <1>1 DEF All
<1>3. ASSUME NEW e \in All(edges') PROVE {e[1], e[2]} \subseteq nodes'
  <2>1. CASE e \in All(edges)
    BY <2>1 DEF EdgesJoinNodes
  <2>2. CASE e = <<u, v>>
    BY <2>2
  <2> QED BY <1>2, <2>1, <2>2
<1> QED BY <1>3 DEF EdgesJoinNodes

LEMMA GraphKeepsJoined ==
  EdgesJoinNodes /\ [GraphNext]_graph_vars => EdgesJoinNodes'
<1> SUFFICES ASSUME EdgesJoinNodes, [GraphNext]_graph_vars PROVE EdgesJoinNodes'
  OBVIOUS
<1>1. CASE UNCHANGED edges /\ nodes \subseteq nodes'
  BY <1>1 DEF EdgesJoinNodes
<1>2. ASSUME NEW x \in Node, RemoveNode(x) PROVE EdgesJoinNodes'
  <2>1. \A e \in All(edges') : e \in All(edges) /\ x \notin {e[1], e[2]}
    BY <1>2 DEF RemoveNode, Without, All
  <2>2. nodes' = nodes \ {x}
    BY <1>2 DEF RemoveNode
  <2> QED BY <2>1, <2>2 DEF EdgesJoinNodes
<1>3. ASSUME NEW r \in Relation, NEW u, NEW v, Link(r, u, v),
             BothExist(u, v), UNCHANGED nodes
      PROVE  EdgesJoinNodes'
  BY <1>3, LinkJoins DEF BothExist
<1>4. CASE \E n \in Node : AddNode(n) \/ AddAction(n)
  BY <1>4, <1>1 DEF AddNode, AddAction
<1>5. CASE \E u, v \in Node : AddGovernsEdge(u, v)
                              \/ \E r \in Relation : AddRelationship(u, v, r)
  BY <1>5, <1>3 DEF AddGovernsEdge, AddRelationship
<1>6. ASSUME NEW g \in AgentNode, NEW d \in DelegationNode,
             AddIssuesDelegationEdge(g, d) \/ AddGrantsToEdge(d, g)
      PROVE  EdgesJoinNodes'
  BY <1>6, LinkJoins DEF AddIssuesDelegationEdge, AddGrantsToEdge
<1>7. CASE \E c, d \in DelegationNode : AddSubdelegatesEdge(c, d)
  BY <1>7, <1>3 DEF AddSubdelegatesEdge
<1>8. CASE \E a \in ActionNode, d \in DelegationNode : AddCreatesDelegationEdge(a, d)
  BY <1>8, <1>3 DEF AddCreatesDelegationEdge
<1>9. CASE \E a \in ActionNode, x \in ArtifactNode :
             AddProducesEdge(a, x) \/ AddConsumesEdge(x, a)
  BY <1>9, <1>3 DEF AddProducesEdge, AddConsumesEdge, BothExist
<1>10. CASE \E x, y \in ArtifactNode : AddDerivedFromEdge(x, y)
  BY <1>10, <1>3 DEF AddDerivedFromEdge
<1>11. CASE UNCHANGED graph_vars
  BY <1>11, <1>1 DEF graph_vars
<1> QED
  BY <1>2, <1>4, <1>5, <1>6, <1>7, <1>8, <1>9, <1>10, <1>11 DEF GraphNext

(* No edge ever hangs in the air: a rollback takes the edges of the        *)
(* artifact with it.                                                       *)
THEOREM EdgesJoinNodesAlways == GraphSpec => []EdgesJoinNodes
<1>1. GraphInit => EdgesJoinNodes
  BY DEF GraphInit, EdgesJoinNodes, All
<1> QED BY <1>1, GraphKeepsJoined, PTL DEF GraphSpec

-----------------------------------------------------------------------------
(* Type correctness.                                                       *)
LEMMA LinkType ==
  ASSUME GraphTypeOK, NEW r \in Relation, NEW u \in Node, NEW v \in Node, Link(r, u, v)
  PROVE  edges' \in [Relation -> SUBSET (Node \X Node)]
<1> HIDE DEF Relation
<1>1. \A q \in Relation : edges[q] \in SUBSET (Node \X Node)
  BY DEF GraphTypeOK
<1>2. <<u, v>> \in Node \X Node
  OBVIOUS
<1>3. \A q \in Relation :
        (IF q = r THEN edges[q] \cup {<<u, v>>} ELSE edges[q] \ {<<u, v>>})
          \in SUBSET (Node \X Node)
  BY <1>1, <1>2
<1>4. edges' = [q \in Relation |->
                 IF q = r THEN edges[q] \cup {<<u, v>>} ELSE edges[q] \ {<<u, v>>}]
  BY DEF Link, AddEdge
<1> QED BY <1>3, <1>4

LEMMA GraphTypeStep == GraphTypeOK /\ [GraphNext]_graph_vars => GraphTypeOK'
<1> SUFFICES ASSUME GraphTypeOK, [GraphNext]_graph_vars PROVE GraphTypeOK'
  OBVIOUS
<1>1. IntentNode \cup AgentNode \cup DelegationNode \cup ActionNode \cup ArtifactNode = Node
  BY DEF Node
<1>2. CASE UNCHANGED edges /\ nodes' \subseteq Node
  BY <1>2 DEF GraphTypeOK
<1>3. ASSUME NEW r \in Relation, NEW u \in Node, NEW v \in Node, Link(r, u, v),
             nodes' \subseteq Node
      PROVE  GraphTypeOK'
  BY <1>3, LinkType DEF GraphTypeOK
<1>4. nodes \subseteq Node
  BY DEF GraphTypeOK
<1>5. CASE \E n \in Node : AddNode(n) \/ AddAction(n)
  BY <1>5, <1>2, <1>4 DEF AddNode, AddAction
<1>6. ASSUME NEW x \in Node, RemoveNode(x) PROVE GraphTypeOK'
  <2>1. edges' = Without(edges, x) /\ nodes' \subseteq nodes
    BY <1>6 DEF RemoveNode
  <2>2. \A r \in Relation : edges[r] \in SUBSET (Node \X Node)
    BY DEF GraphTypeOK
  <2>3. \A r \in Relation : {e \in edges[r] : x \notin {e[1], e[2]}} \in SUBSET (Node \X Node)
    BY <2>2
  <2>4. edges' \in [Relation -> SUBSET (Node \X Node)]
    BY <2>1, <2>3 DEF Without
  <2> QED BY <2>1, <2>4 DEF GraphTypeOK
<1>7. CASE \E u, v \in Node : AddGovernsEdge(u, v)
                              \/ \E r \in Relation : AddRelationship(u, v, r)
  BY <1>7, <1>3, <1>4 DEF AddGovernsEdge, AddRelationship
<1>8. ASSUME NEW g \in AgentNode, NEW d \in DelegationNode,
             AddIssuesDelegationEdge(g, d) \/ AddGrantsToEdge(d, g)
      PROVE  GraphTypeOK'
  <2>1. g \in Node /\ d \in Node /\ nodes' \subseteq Node
    BY <1>1, <1>4, <1>8 DEF AddIssuesDelegationEdge, AddGrantsToEdge
  <2> QED BY <2>1, <1>3, <1>8 DEF AddIssuesDelegationEdge, AddGrantsToEdge
<1>9. CASE \E c, d \in DelegationNode : AddSubdelegatesEdge(c, d)
  BY <1>9, <1>1, <1>3, <1>4 DEF AddSubdelegatesEdge
<1>10. CASE \E a \in ActionNode, d \in DelegationNode : AddCreatesDelegationEdge(a, d)
  BY <1>10, <1>1, <1>3, <1>4 DEF AddCreatesDelegationEdge
<1>11. CASE \E a \in ActionNode, x \in ArtifactNode :
              AddProducesEdge(a, x) \/ AddConsumesEdge(x, a)
  BY <1>11, <1>1, <1>3, <1>4 DEF AddProducesEdge, AddConsumesEdge
<1>12. CASE \E x, y \in ArtifactNode : AddDerivedFromEdge(x, y)
  BY <1>12, <1>1, <1>3, <1>4 DEF AddDerivedFromEdge
<1>13. CASE UNCHANGED graph_vars
  BY <1>13, <1>2, <1>4 DEF graph_vars
<1> QED
  BY <1>5, <1>6, <1>7, <1>8, <1>9, <1>10, <1>11, <1>12, <1>13 DEF GraphNext

(* Type correctness of the graph, under any sequence of its methods.       *)
THEOREM GraphTypeCorrect == GraphSpec => []GraphTypeOK
<1>1. GraphInit => GraphTypeOK
  BY DEF GraphInit, GraphTypeOK
<1> QED BY <1>1, GraphTypeStep, PTL DEF GraphSpec

HIDE DEF Relation

-----------------------------------------------------------------------------
(* Upstream with the artifacts as a parameter, so that it can be compared  *)
(* before and after a step.                                                *)
ClosedAbove(A, C) == \A x \in C \cap DOMAIN A : A[x].parents \subseteq C
Above(A, X) ==
  {y \in X \cup DOMAIN A :
     \A C \in SUBSET (X \cup DOMAIN A) : X \subseteq C /\ ClosedAbove(A, C) => y \in C}

(* Every record names only what is recorded.                               *)
StoreGrounded ==
  \A x \in Registered : /\ artifacts[x].parents \subseteq Registered
                        /\ artifacts[x].creator \in Recorded \cup {None}

Grounded ==
  /\ StoreGrounded
  /\ \A a \in Recorded : actions[a].inputs \subseteq Registered
  /\ trajectory.last \in Recorded \cup {None}
  /\ trajectory.pending # None =>
       /\ trajectory.pending \in Recorded
       /\ actions[trajectory.pending].decision = "REQUIRE_APPROVAL"

-----------------------------------------------------------------------------
(* The graph against the store: edges join nodes, what an action made is a *)
(* node, and an artifact that is a node shows its derivation.              *)
Joined(N, E) == \A r \in Relation : \A e \in E[r] : e[1] \in N /\ e[2] \in N

Told(N, E, A) ==
  /\ \A x \in DOMAIN A : A[x].creator # None => x \in N
  /\ \A x \in N \cap ArtifactNode :
       /\ x \in DOMAIN A
       /\ Succs(E, "DERIVED_FROM", x) \in {A[x].parents, {}}
       /\ A[x].creator # None =>
            /\ Succs(E, "DERIVED_FROM", x) = A[x].parents
            /\ Preds(E, "PRODUCES", x) = {A[x].creator}

Matched ==
  /\ payloads \subseteq Registered
  /\ Joined(nodes, edges)
  /\ Told(nodes, edges, artifacts)

-----------------------------------------------------------------------------
(* What a verdict has established of the data upstream.                    *)
Clean(A, X) == \A x \in Above(A, X) : A[x].classes = {}
Tainted(A, X) ==
  \E x \in Above(A, X) : Normalized(A[x]) \in {"EXTERNAL_UNTRUSTED", "UNKNOWN"}

OneField == \A f, g \in PayloadFields : f = g

JudgedWell(A, r) ==
  /\ OneField /\ IsSink(r.tool) /\ r.decision # "DENY" =>
       Clean(A, r.inputs) /\ \A f \in DOMAIN r.named : r.named[f] \in r.inputs
  /\ OneField /\ r.sent # None => Clean(A, r.inputs) /\ r.sent \in r.inputs
  /\ "privileged" \in ToolFacts(r.tool) /\ Tainted(A, r.inputs)
       /\ (r.executed \/ r.decision = "ALLOW")
       => r.approved

Judged == \A a \in Recorded : JudgedWell(artifacts, actions[a])

-----------------------------------------------------------------------------
(* The actions of the session are one line of causes, and data comes from  *)
(* earlier in the line.                                                    *)
LineOf(n, s) ==
  /\ s \in [1..n -> Recorded]
  /\ \A a \in Recorded : \E i \in 1..n : s[i] = a
  /\ \A i, j \in 1..n : s[i] = s[j] => i = j
  /\ trajectory.last = IF n = 0 THEN None ELSE s[n]
  /\ \A i \in 1..n : Preds(edges, "CAUSES", s[i]) = IF i = 1 THEN {} ELSE {s[i - 1]}
  /\ \A i \in 1..n : \A x \in Above(artifacts, actions[s[i]].inputs) :
       artifacts[x].creator # None => \E j \in 1..i : artifacts[x].creator = s[j]

Lined == \E n \in Nat : \E s \in [1..n -> Recorded] : LineOf(n, s)

-----------------------------------------------------------------------------
(* Facts about what is upstream.                                           *)
LEMMA UpstreamIsAbove ==
  ASSUME NEW X
  PROVE  Upstream(X) = Above(artifacts, X)
BY DEF Upstream, Above, WithParents, ClosedAbove, Registered

ParentsIn(A) == \A x \in DOMAIN A : A[x].parents \subseteq DOMAIN A

(* It holds the sources, and nothing that is not registered but them.      *)
LEMMA AboveHolds ==
  ASSUME NEW A, NEW X
  PROVE  X \subseteq Above(A, X) /\ Above(A, X) \subseteq X \cup DOMAIN A
BY DEF Above

(* It is closed itself, so that it is the least closed set.                *)
LEMMA AboveClosed ==
  ASSUME NEW A, ParentsIn(A), NEW X
  PROVE  ClosedAbove(A, Above(A, X))
<1> SUFFICES ASSUME NEW x \in Above(A, X) \cap DOMAIN A, NEW p \in A[x].parents
             PROVE  p \in Above(A, X)
  BY DEF ClosedAbove
<1>1. p \in X \cup DOMAIN A
  BY DEF ParentsIn
<1>2. ASSUME NEW C \in SUBSET (X \cup DOMAIN A), X \subseteq C, ClosedAbove(A, C)
      PROVE  p \in C
  <2>1. x \in C
    BY <1>2 DEF Above
  <2> QED BY <2>1, <1>2 DEF ClosedAbove
<1> QED BY <1>1, <1>2 DEF Above

(* A closed set that holds the sources holds all that is above them.       *)
LEMMA AboveLeast ==
  ASSUME NEW A, ParentsIn(A), NEW X, NEW C, X \subseteq C, ClosedAbove(A, C)
  PROVE  Above(A, X) \subseteq C
<1> DEFINE D == C \cap (X \cup DOMAIN A)
<1>1. X \subseteq D /\ D \in SUBSET (X \cup DOMAIN A)
  OBVIOUS
<1>2. ClosedAbove(A, D)
  BY DEF ClosedAbove, ParentsIn
<1>3. \A y \in Above(A, X) : y \in D
  BY <1>1, <1>2 DEF Above
<1> QED BY <1>3

(* What is upstream of what is upstream is upstream.                       *)
LEMMA AboveGrows ==
  ASSUME NEW A, ParentsIn(A), NEW X, NEW Y, X \subseteq Above(A, Y)
  PROVE  Above(A, X) \subseteq Above(A, Y)
BY AboveClosed, AboveLeast

(* Artifacts that are added later change nothing upstream of those that    *)
(* are there.                                                              *)
Extends(A, B) ==
  /\ DOMAIN A \subseteq DOMAIN B
  /\ \A x \in DOMAIN A : B[x] = A[x]

LEMMA AboveStays ==
  ASSUME NEW A, NEW B, ParentsIn(A), ParentsIn(B), Extends(A, B),
         NEW X, X \subseteq DOMAIN A
  PROVE  Above(B, X) = Above(A, X) /\ Above(A, X) \subseteq DOMAIN A
<1>1. Above(A, X) \subseteq DOMAIN A
  BY AboveHolds
<1>2. ClosedAbove(A, Above(A, X)) /\ ClosedAbove(B, Above(B, X))
  BY AboveClosed
<1>3. X \subseteq Above(A, X) /\ X \subseteq Above(B, X)
  BY AboveHolds
<1>4. ClosedAbove(B, Above(A, X))
  BY <1>1, <1>2 DEF ClosedAbove, Extends
<1>5. ClosedAbove(A, Above(B, X))
  BY <1>2 DEF ClosedAbove, Extends
<1>6. Above(B, X) \subseteq Above(A, X)
  BY <1>3, <1>4, AboveLeast
<1>7. Above(A, X) \subseteq Above(B, X)
  BY <1>3, <1>5, AboveLeast
<1> QED BY <1>1, <1>6, <1>7

-----------------------------------------------------------------------------
(* Edges into an action.                                                   *)
GraphEdges == [Relation -> SUBSET (Node \X Node)]

(* Adding edges of one relation into a node keeps the edges typed, and     *)
(* touches nothing but edges that end there.                               *)
LEMMA AddIntoTyped ==
  ASSUME NEW E \in GraphEdges, NEW r \in Relation, NEW U \in SUBSET Node, NEW v \in Node
  PROVE  AddInto(E, r, U, v) \in GraphEdges
<1>1. U \X {v} \subseteq Node \X Node
  OBVIOUS
<1>2. \A q \in Relation : E[q] \subseteq Node \X Node
  BY DEF GraphEdges
<1>3. \A q \in Relation :
        (IF q = r THEN E[q] \cup (U \X {v}) ELSE E[q] \ (U \X {v})) \in SUBSET (Node \X Node)
  BY <1>1, <1>2
<1> QED BY <1>3 DEF AddInto, GraphEdges

LEMMA AddEdgeIsAddInto ==
  ASSUME NEW E, NEW r, NEW u, NEW v
  PROVE  AddEdge(E, r, u, v) = AddInto(E, r, {u}, v)
<1>1. {u} \X {v} = {<<u, v>>}
  OBVIOUS
<1> QED BY <1>1 DEF AddEdge, AddInto

LEMMA AddFromTyped ==
  ASSUME NEW E \in GraphEdges, NEW r \in Relation, NEW u \in Node, NEW V \in SUBSET Node
  PROVE  AddFrom(E, r, u, V) \in GraphEdges
<1>1. {u} \X V \subseteq Node \X Node
  OBVIOUS
<1>2. \A q \in Relation : E[q] \subseteq Node \X Node
  BY DEF GraphEdges
<1>3. \A q \in Relation :
        (IF q = r THEN E[q] \cup ({u} \X V) ELSE E[q] \ ({u} \X V)) \in SUBSET (Node \X Node)
  BY <1>1, <1>2
<1> QED BY <1>3 DEF AddFrom, GraphEdges

(* F differs from E in edges that end in a alone, and no artifact is       *)
(* produced by them or derived.                                            *)
EndsIn(E, F, a) ==
  /\ \A r \in Relation : \A e : e[2] # a => (e \in F[r] <=> e \in E[r])
  /\ \A r \in {"DERIVED_FROM", "PRODUCES"} : F[r] \subseteq E[r]

LEMMA AddIntoEndsIn ==
  ASSUME NEW E, NEW r \in Relation \ {"DERIVED_FROM", "PRODUCES"}, NEW U, NEW a
  PROVE  EndsIn(E, AddInto(E, r, U, a), a)
<1>1. \A e : e \in U \X {a} => e[2] = a
  OBVIOUS
<1>2. \A q \in Relation : AddInto(E, r, U, a)[q]
          = IF q = r THEN E[q] \cup (U \X {a}) ELSE E[q] \ (U \X {a})
  BY DEF AddInto
<1>3. "DERIVED_FROM" \in Relation /\ "PRODUCES" \in Relation
  BY DEF Relation
<1> QED BY <1>1, <1>2, <1>3 DEF EndsIn

LEMMA EndsInTransitive ==
  ASSUME NEW D, NEW E, NEW F, NEW a, EndsIn(D, E, a), EndsIn(E, F, a)
  PROVE  EndsIn(D, F, a)
BY DEF EndsIn

LEMMA EndsInJoined ==
  ASSUME NEW N, NEW M, NEW E, NEW r \in Relation, NEW U, NEW a, Joined(N, E),
         N \subseteq M, U \subseteq M, a \in M
  PROVE  Joined(M, AddInto(E, r, U, a))
BY DEF Joined, AddInto

(* The artifacts of a store, by what the graph may show of them.           *)
StoreShape(A) ==
  /\ DOMAIN A \subseteq ArtifactNode
  /\ \A x \in DOMAIN A : /\ A[x].parents \subseteq DOMAIN A
                         /\ A[x].creator \in ActionNode \cup {None}

(* Edges into an action change nothing of what the graph shows of the      *)
(* artifacts, also when registered inputs become nodes.                    *)
LEMMA ToldIntoAction ==
  ASSUME NEW N, NEW E, NEW A, StoreShape(A), Joined(N, E), Told(N, E, A),
         NEW a \in ActionNode, NEW F, EndsIn(E, F, a),
         NEW M, N \subseteq M, M \cap ArtifactNode \subseteq N \cup DOMAIN A
  PROVE  Told(M, F, A)
<1>1. "DERIVED_FROM" \in Relation /\ "PRODUCES" \in Relation
  BY DEF Relation
<1>2. ASSUME NEW x \in N \cap ArtifactNode
      PROVE  /\ Succs(F, "DERIVED_FROM", x) = Succs(E, "DERIVED_FROM", x)
             /\ Preds(F, "PRODUCES", x) = Preds(E, "PRODUCES", x)
  <2>1. x # a /\ a \notin Succs(E, "DERIVED_FROM", x)
    BY StoreAssumption DEF Told, StoreShape
  <2>2. \A e : e[1] = x /\ e \in E["DERIVED_FROM"] => e[2] # a
    BY <2>1 DEF Succs
  <2>3. \A e : e[1] = x => (e \in F["DERIVED_FROM"] <=> e \in E["DERIVED_FROM"])
    BY <1>1, <2>2 DEF EndsIn
  <2>4. \A e : e[2] = x => (e \in F["PRODUCES"] <=> e \in E["PRODUCES"])
    BY <1>1, <2>1 DEF EndsIn
  <2> QED BY <2>3, <2>4 DEF Succs, Preds
<1>3. ASSUME NEW x \in M \cap ArtifactNode, x \notin N
      PROVE  /\ x \in DOMAIN A /\ A[x].creator = None
             /\ Succs(F, "DERIVED_FROM", x) = {}
  <2>1. x \in DOMAIN A /\ A[x].creator = None
    BY <1>3 DEF Told
  <2>2. \A e \in F["DERIVED_FROM"] : e[1] # x
    BY <1>1, <1>3 DEF EndsIn, Joined
  <2> QED BY <2>1, <2>2 DEF Succs
<1>4. \A x \in DOMAIN A : A[x].creator # None => x \in M
  BY DEF Told
<1>5. \A x \in M \cap ArtifactNode :
        /\ x \in DOMAIN A
        /\ Succs(F, "DERIVED_FROM", x) \in {A[x].parents, {}}
        /\ A[x].creator # None =>
             /\ Succs(F, "DERIVED_FROM", x) = A[x].parents
             /\ Preds(F, "PRODUCES", x) = {A[x].creator}
  <2> TAKE x \in M \cap ArtifactNode
  <2>1. CASE x \in N
    BY <2>1, <1>2 DEF Told
  <2>2. CASE x \notin N
    BY <2>2, <1>3
  <2> QED BY <2>1, <2>2
<1> QED BY <1>4, <1>5 DEF Told

-----------------------------------------------------------------------------
(* An artifact that is new to the graph, and what the projection adds.     *)
Stored(A, x, artifact) ==
  [y \in DOMAIN A \cup {x} |-> IF y = x THEN artifact ELSE A[y]]

Made(x, artifact) == {<<c, x>> : c \in {artifact.creator} \ {None}}
Derivation(x, artifact) == {x} \X artifact.parents

ProjectedEdge(E, x, artifact, r) ==
  CASE r = "PRODUCES" -> (E[r] \cup Made(x, artifact)) \ Derivation(x, artifact)
    [] r = "DERIVED_FROM" -> (E[r] \ Made(x, artifact)) \cup Derivation(x, artifact)
    [] OTHER -> (E[r] \ Made(x, artifact)) \ Derivation(x, artifact)

(* The edges that a projection leaves, one relation at a time.             *)
LEMMA ProjectedEdges ==
  ASSUME NEW N, NEW E, NEW x, NEW artifact,
         NEW P, P = Projected([nodes |-> N, edges |-> E], x, artifact)
  PROVE  /\ P.nodes = N \cup {x}
         /\ \A r \in Relation : P.edges[r] = ProjectedEdge(E, x, artifact, r)
<1> DEFINE made == Made(x, artifact)
           derived == Derivation(x, artifact)
           produced == IF artifact.creator = None THEN E
                       ELSE AddEdge(E, "PRODUCES", artifact.creator, x)
<1>1. P.nodes = N \cup {x} /\ P.edges = AddFrom(produced, "DERIVED_FROM", x, artifact.parents)
  BY DEF Projected
<1>2. made = IF artifact.creator = None THEN {} ELSE {<<artifact.creator, x>>}
  BY DEF Made
<1>3. \A r \in Relation : produced[r] = IF r = "PRODUCES" THEN E[r] \cup made ELSE E[r] \ made
  <2>1. CASE artifact.creator = None
    BY <2>1, <1>2
  <2>2. CASE artifact.creator # None
    BY <2>2, <1>2 DEF AddEdge
  <2> QED BY <2>1, <2>2
<1> HIDE DEF made, produced
<1>4. \A r \in Relation : P.edges[r] =
        IF r = "DERIVED_FROM" THEN produced[r] \cup derived ELSE produced[r] \ derived
  BY <1>1 DEF AddFrom, Derivation
<1> HIDE DEF derived
<1>5. \A r \in Relation : P.edges[r] =
        CASE r = "PRODUCES" -> (E[r] \cup made) \ derived
          [] r = "DERIVED_FROM" -> (E[r] \ made) \cup derived
          [] OTHER -> (E[r] \ made) \ derived
  BY <1>3, <1>4
<1> QED BY <1>1, <1>5 DEF made, derived, ProjectedEdge

(* A projection makes the graph show what the store has just written.      *)
LEMMA ToldProjected ==
  ASSUME NEW N, NEW E, NEW A, StoreShape(A), Joined(N, E), Told(N, E, A),
         NEW x \in ArtifactNode \ DOMAIN A, NEW artifact,
         artifact.parents \subseteq N \cap DOMAIN A,
         artifact.creator \in (N \cap ActionNode) \cup {None},
         NEW P, P = Projected([nodes |-> N, edges |-> E], x, artifact)
  PROVE  /\ Joined(P.nodes, P.edges)
         /\ Told(P.nodes, P.edges, Stored(A, x, artifact))
<1> DEFINE made == Made(x, artifact)
           derived == Derivation(x, artifact)
           B == Stored(A, x, artifact)
<1>1. P.nodes = N \cup {x} /\ \A r \in Relation : P.edges[r] = ProjectedEdge(E, x, artifact, r)
  BY ProjectedEdges
<1>2. /\ P.nodes = N \cup {x}
      /\ \A r \in Relation : P.edges[r] =
           CASE r = "PRODUCES" -> (E[r] \cup made) \ derived
             [] r = "DERIVED_FROM" -> (E[r] \ made) \cup derived
             [] OTHER -> (E[r] \ made) \ derived
  BY <1>1 DEF ProjectedEdge
<1>3. /\ \A e \in made : e = <<artifact.creator, x>> /\ artifact.creator # None
      /\ artifact.creator # None => <<artifact.creator, x>> \in made
  BY DEF Made
<1>4. /\ \A e \in derived : e[1] = x /\ e[2] \in artifact.parents /\ e = <<x, e[2]>>
      /\ \A p \in artifact.parents : <<x, p>> \in derived
  BY DEF Derivation
<1>5. /\ x \notin N /\ x \notin ActionNode
      /\ \A r \in Relation : \A e \in E[r] : e[1] # x /\ e[2] # x
  BY StoreAssumption DEF Told, Joined
<1>6. "DERIVED_FROM" \in Relation /\ "PRODUCES" \in Relation /\ "PRODUCES" # "DERIVED_FROM"
  BY DEF Relation
<1>7. /\ DOMAIN B = DOMAIN A \cup {x} /\ B[x] = artifact
      /\ \A y \in DOMAIN A : B[y] = A[y] /\ y # x
  BY DEF Stored
<1> HIDE DEF made, derived, B
<1>8. Joined(P.nodes, P.edges)
  <2> SUFFICES ASSUME NEW r \in Relation, NEW e \in P.edges[r]
               PROVE  e[1] \in N \cup {x} /\ e[2] \in N \cup {x}
    BY <1>2 DEF Joined
  <2>1. e \in E[r] \/ e \in made \/ e \in derived
    BY <1>2
  <2> QED BY <2>1, <1>3, <1>4 DEF Joined
<1>9. /\ P.edges["DERIVED_FROM"] = (E["DERIVED_FROM"] \ made) \cup derived
       /\ P.edges["PRODUCES"] = (E["PRODUCES"] \cup made) \ derived
  BY <1>2, <1>6
<1>10. ASSUME NEW y \in N \cap ArtifactNode
      PROVE  /\ Succs(P.edges, "DERIVED_FROM", y) = Succs(E, "DERIVED_FROM", y)
             /\ Preds(P.edges, "PRODUCES", y) = Preds(E, "PRODUCES", y)
  <2>1. y # x /\ y \notin ActionNode /\ y # None
    BY <1>5, StoreAssumption DEF Node
  <2>2. \A e : e[1] = y => (e \in P.edges["DERIVED_FROM"] <=> e \in E["DERIVED_FROM"])
    BY <1>9, <1>3, <1>4, <1>5, <2>1
  <2>3. \A e : e[2] = y => (e \in P.edges["PRODUCES"] <=> e \in E["PRODUCES"])
    BY <1>9, <1>3, <1>4, <1>5, <1>6, <2>1
  <2> QED BY <2>2, <2>3 DEF Succs, Preds
<1>11. Succs(P.edges, "DERIVED_FROM", x) = artifact.parents
  <2>1. \A e : e[1] = x => (e \in P.edges["DERIVED_FROM"] <=> e \in derived)
    BY <1>2, <1>5, <1>6
  <2>2. \A q \in Succs(P.edges, "DERIVED_FROM", x) : q \in artifact.parents
    BY <1>4, <2>1 DEF Succs
  <2>3. ASSUME NEW q \in artifact.parents PROVE q \in Succs(P.edges, "DERIVED_FROM", x)
    <3>1. <<x, q>>[1] = x /\ <<x, q>>[2] = q /\ <<x, q>> \in P.edges["DERIVED_FROM"]
      BY <1>4, <2>1
    <3> QED BY <3>1 DEF Succs
  <2> QED BY <2>2, <2>3
<1>12. artifact.creator # None => Preds(P.edges, "PRODUCES", x) = {artifact.creator}
  <2> SUFFICES ASSUME artifact.creator # None
               PROVE  Preds(P.edges, "PRODUCES", x) = {artifact.creator}
    OBVIOUS
  <2> DEFINE e == <<artifact.creator, x>>
  <2>1. e[1] = artifact.creator /\ e[2] = x /\ e \notin derived /\ e \in made
    BY <1>3, <1>4, <1>5
  <2>2. e \in P.edges["PRODUCES"]
    BY <1>2, <1>6, <2>1
  <2>3. \A d \in P.edges["PRODUCES"] : d[2] = x => d = e
    BY <1>2, <1>3, <1>5, <1>6
  <2> HIDE DEF e
  <2> QED BY <2>1, <2>2, <2>3 DEF Preds
<1>13. \A y \in DOMAIN B : B[y].creator # None => y \in P.nodes
  BY <1>2, <1>7 DEF Told
<1>14. \A y \in P.nodes \cap ArtifactNode :
        /\ y \in DOMAIN B
        /\ Succs(P.edges, "DERIVED_FROM", y) \in {B[y].parents, {}}
        /\ B[y].creator # None =>
             /\ Succs(P.edges, "DERIVED_FROM", y) = B[y].parents
             /\ Preds(P.edges, "PRODUCES", y) = {B[y].creator}
  <2> TAKE y \in P.nodes \cap ArtifactNode
  <2>1. CASE y \in N
    <3>1. y \in DOMAIN A
      BY <2>1 DEF Told
    <3> QED BY <2>1, <3>1, <1>7, <1>10 DEF Told
  <2>2. CASE y = x
    BY <2>2, <1>7, <1>11, <1>12
  <2> QED BY <2>1, <2>2, <1>2
<1>15. Told(P.nodes, P.edges, B)
  BY <1>13, <1>14 DEF Told
<1> QED BY <1>8, <1>15 DEF B

(* A projection that fails is undone without a trace.                      *)
(* The rollback of an artifact that the graph refused leaves the graph as  *)
(* it was, since no edge of an artifact that is new was there before.      *)
LEMMA RollbackUndoes ==
  ASSUME NEW N, NEW E \in GraphEdges, Joined(N, E), NEW x, x \notin N, NEW artifact,
         NEW R, R = RolledBack(Projected([nodes |-> N, edges |-> E], x, artifact), x)
  PROVE  R.nodes = N /\ R.edges = E
<1> DEFINE made == Made(x, artifact)
           derived == Derivation(x, artifact)
           P == Projected([nodes |-> N, edges |-> E], x, artifact)
<1>1. P.nodes = N \cup {x} /\ \A r \in Relation : P.edges[r] = ProjectedEdge(E, x, artifact, r)
  BY ProjectedEdges
<1>2. /\ P.nodes = N \cup {x}
      /\ \A r \in Relation : P.edges[r] =
           CASE r = "PRODUCES" -> (E[r] \cup made) \ derived
             [] r = "DERIVED_FROM" -> (E[r] \ made) \cup derived
             [] OTHER -> (E[r] \ made) \ derived
  BY <1>1 DEF ProjectedEdge
<1>3. (\A e \in made : e[2] = x) /\ \A e \in derived : e[1] = x
  BY DEF Made, Derivation
<1> HIDE DEF made, derived
<1>4. ASSUME NEW r \in Relation
      PROVE  {e \in P.edges[r] : x \notin {e[1], e[2]}} = E[r]
  <2>1. \A e : x \notin {e[1], e[2]} => (e \in P.edges[r] <=> e \in E[r])
    BY <1>2, <1>3
  <2>2. \A e \in E[r] : x \notin {e[1], e[2]}
    BY DEF Joined
  <2> QED BY <2>1, <2>2
<1>5. R.nodes = P.nodes \ {x} /\ R.edges = Without(P.edges, x)
  BY DEF RolledBack
<1> HIDE DEF P
<1>6. Without(P.edges, x) = [r \in Relation |-> E[r]]
  BY <1>4 DEF Without
<1>7. E = [r \in Relation |-> E[r]]
  BY DEF GraphEdges
<1> QED BY <1>2, <1>5, <1>6, <1>7

-----------------------------------------------------------------------------
(* What a proposal does.                                                   *)
LinkedInto(E, a, parent, previous) ==
  Linked(AddInto(E, "GOVERNS", IntentNode, a), a, parent, previous)

(* A proposal adds edges into its new action alone.                        *)
LEMMA LinkedEdges ==
  ASSUME NEW N \in SUBSET Node, NEW E \in GraphEdges, Joined(N, E), NEW a \in ActionNode,
         NEW parent \in (N \cap ActionNode) \cup {None}, NEW previous \in SUBSET (N \cap ActionNode),
         NEW F, F = LinkedInto(E, a, parent, previous)
  PROVE  /\ F \in GraphEdges
         /\ EndsIn(E, F, a)
         /\ Joined(N \cup IntentNode \cup {a}, F)
<1> DEFINE M == N \cup IntentNode \cup {a}
           governed == AddInto(E, "GOVERNS", IntentNode, a)
           caused == IF parent = None THEN governed ELSE AddEdge(governed, "CAUSES", parent, a)
<1>1. {"GOVERNS", "CAUSES", "precedes"} \subseteq Relation \ {"DERIVED_FROM", "PRODUCES"}
  BY DEF Relation
<1>2. IntentNode \subseteq Node /\ a \in Node /\ previous \subseteq Node
  BY DEF Node
<1>3. governed \in GraphEdges /\ EndsIn(E, governed, a) /\ Joined(M, governed)
  <2>1. N \subseteq M /\ IntentNode \subseteq M /\ a \in M
    OBVIOUS
  <2> QED BY <1>1, <1>2, <2>1, AddIntoTyped, AddIntoEndsIn, EndsInJoined
<1> HIDE DEF governed
<1>4. caused \in GraphEdges /\ EndsIn(E, caused, a) /\ Joined(M, caused)
  <2>1. CASE parent = None
    BY <2>1, <1>3
  <2>2. CASE parent # None
    <3>1. {parent} \subseteq N /\ {parent} \subseteq Node /\ {parent} \subseteq M /\ M \subseteq M /\ a \in M
      BY <2>2
    <3>2. caused = AddInto(governed, "CAUSES", {parent}, a)
      BY <2>2, AddEdgeIsAddInto
    <3>3. caused \in GraphEdges
      BY <1>1, <1>2, <1>3, <3>1, <3>2, AddIntoTyped
    <3>4. EndsIn(E, caused, a)
      <4>1. EndsIn(governed, caused, a)
        BY <1>1, <3>2, AddIntoEndsIn
      <4> HIDE DEF caused
      <4> QED BY <4>1, <1>3, EndsInTransitive
    <3>5. Joined(M, caused)
      <4> HIDE DEF M
      <4> QED BY <1>1, <1>3, <3>1, <3>2, EndsInJoined
    <3> QED BY <3>3, <3>4, <3>5
  <2> QED BY <2>1, <2>2
<1>5. F = AddInto(caused, "precedes", previous, a)
  BY DEF LinkedInto, Linked, governed
<1> HIDE DEF caused
<1>6. F \in GraphEdges
  BY <1>1, <1>2, <1>4, <1>5, AddIntoTyped
<1>7. EndsIn(E, F, a)
  <2>1. EndsIn(caused, F, a)
    BY <1>1, <1>5, AddIntoEndsIn
  <2> QED BY <2>1, <1>4, EndsInTransitive
<1>8. Joined(M, F)
  <2>1. previous \subseteq M /\ a \in M /\ M \subseteq M
    OBVIOUS
  <2> HIDE DEF M
  <2> QED BY <1>1, <1>4, <1>5, <2>1, EndsInJoined
<1> QED BY <1>6, <1>7, <1>8

ProposedAs(p, verdict) ==
  [tool |-> p.tool, decision |-> verdict, approved |-> FALSE,
   inputs |-> IF verdict = "DENY" THEN {} ELSE Validated(p),
   named |-> IF verdict = "DENY" THEN NoField ELSE p.named,
   executed |-> FALSE, sent |-> None]

(* All that later proofs need of a proposal: the facts it was judged by    *)
(* are known only to hold those of its tool and of its inputs.             *)
LEMMA ProposalEffect ==
  ASSUME FlowTypeOK, NEW a, NEW p, NEW previous, EvaluateProposal(a, p, previous)
  PROVE  /\ trajectory.pending = None /\ (trajectory.last \in previous => RepeatParent)
         /\ nodes' = nodes \cup IntentNode \cup {a}
         /\ edges' = LinkedInto(edges, a, trajectory.last, previous)
         /\ artifacts' = artifacts /\ payloads' = payloads
         /\ \E facts :
              /\ ToolFacts(p.tool) \cup ProvenanceFacts(p) \subseteq facts
              /\ actions' = [b \in Recorded \cup {a} |->
                               IF b # a THEN actions[b] ELSE ProposedAs(p, PythonVerdict(facts))]
              /\ \E e \in Nat, q \in BOOLEAN :
                   trajectory' = [last |-> a, egress |-> e,
                                  pending |-> IF PythonVerdict(facts) = "REQUIRE_APPROVAL"
                                              THEN a ELSE None,
                                  quarantined |-> q]
<1> DEFINE at == Walk(LinkedInto(edges, a, trajectory.last, previous), trajectory.last)
           egress == trajectory.egress + (IF SendsSensitive(p) THEN 1 ELSE 0)
           facts == {"require_intent"} \cup ToolFacts(p.tool) \cup GraphFacts(at)
                      \cup ProvenanceFacts(p)
                      \cup TrajectoryFacts(p, LinkedInto(edges, a, trajectory.last, previous),
                                           at, egress)
           stopped == PythonVerdict(facts) = "QUARANTINE" \/ "egress_threshold" \in facts
<1>1. /\ trajectory.pending = None /\ (trajectory.last \in previous => RepeatParent)
      /\ nodes' = nodes \cup IntentNode \cup {a}
      /\ edges' = LinkedInto(edges, a, trajectory.last, previous)
      /\ artifacts' = artifacts /\ payloads' = payloads
  BY DEF EvaluateProposal, LinkedInto, store_vars
<1>2. actions' = [b \in Recorded \cup {a} |->
                    IF b # a THEN actions[b] ELSE ProposedAs(p, PythonVerdict(facts))]
  BY DEF EvaluateProposal, LinkedInto, ProposedAs
<1>3. trajectory' = [last |-> a, egress |-> egress,
                     pending |-> IF PythonVerdict(facts) = "REQUIRE_APPROVAL" THEN a ELSE None,
                     quarantined |-> stopped]
  BY DEF EvaluateProposal, LinkedInto
<1>4. egress \in Nat /\ stopped \in BOOLEAN
  BY DEF FlowTypeOK
<1>5. ToolFacts(p.tool) \cup ProvenanceFacts(p) \subseteq facts
  OBVIOUS
<1> HIDE DEF facts, egress, stopped
<1> QED BY <1>1, <1>2, <1>3, <1>4, <1>5

-----------------------------------------------------------------------------
(* What a registration does, given the graph it starts from.               *)
LEMMA RegistrationEffect ==
  ASSUME FlowTypeOK, payloads \subseteq Registered,
         NEW N, NEW E \in GraphEdges, Joined(N, E),
         NEW x \in ArtifactNode \ Registered, x \notin N, NEW artifact,
         RegisterIn([nodes |-> N, edges |-> E], x, artifact)
  PROVE  /\ artifact.parents \subseteq Registered
         /\ \/ artifacts' = artifacts /\ payloads' = payloads /\ nodes' = N /\ edges' = E
            \/ /\ artifacts' = Stored(artifacts, x, artifact) /\ payloads' = payloads \cup {x}
               /\ nodes' = Projected([nodes |-> N, edges |-> E], x, artifact).nodes
               /\ edges' = Projected([nodes |-> N, edges |-> E], x, artifact).edges
               /\ artifact.parents \cup ({artifact.creator} \ {None}) \subseteq N
<1> DEFINE g == [nodes |-> N, edges |-> E]
<1>1. artifact.parents \subseteq Registered
  BY DEF RegisterIn, MayRegister
<1>2. CASE Accepts(g, x, artifact)
  <2>1. artifact.parents \cup ({artifact.creator} \ {None}) \subseteq N
    BY <1>2 DEF Accepts
  <2>2. artifacts' = Stored(artifacts, x, artifact) /\ payloads' = payloads \cup {x}
    BY <1>2 DEF RegisterIn, Stored, Registered
  <2>3. SetGraph(Projected(g, x, artifact))
    BY <1>2 DEF RegisterIn
  <2> QED BY <1>1, <2>1, <2>2, <2>3 DEF SetGraph
<1>3. CASE ~Accepts(g, x, artifact)
  <2>1. /\ artifacts' = [y \in Registered \ {x} |-> artifacts[y]]
        /\ payloads' = payloads \ {x}
        /\ SetGraph(RolledBack(Projected(g, x, artifact), x))
    BY <1>3 DEF RegisterIn
  <2>2. Registered \ {x} = Registered /\ payloads \ {x} = payloads
    OBVIOUS
  <2>3. artifacts' = artifacts
    BY <2>1, <2>2 DEF FlowTypeOK, StoreTypeOK
  <2>4. nodes' = N /\ edges' = E
    BY <2>1, RollbackUndoes DEF SetGraph
  <2> QED BY <1>1, <2>1, <2>2, <2>3, <2>4
<1> QED BY <1>2, <1>3

-----------------------------------------------------------------------------
(* A graph of the session with nodes N and edges E, from which a step goes *)
(* on to the store: it registers nothing, or an artifact with the graph or *)
(* without it.                                                             *)
GraphFits(N, E) ==
  /\ N \subseteq Node /\ N \cap ActionNode = Recorded /\ E \in GraphEdges
  /\ Joined(N, E) /\ Told(N, E, artifacts)

Lands(N, E) ==
  \/ artifacts' = artifacts /\ payloads' = payloads /\ nodes' = N /\ edges' = E
  \/ \E x \in ArtifactNode \ Registered, artifact \in Artifact :
       /\ artifact.parents \subseteq N \cap Registered
       /\ artifact.creator \in (N \cap ActionNode) \cup {None}
       /\ artifacts' = Stored(artifacts, x, artifact) /\ payloads' = payloads \cup {x}
       /\ nodes' = Projected([nodes |-> N, edges |-> E], x, artifact).nodes
       /\ edges' = Projected([nodes |-> N, edges |-> E], x, artifact).edges
  \/ \E x \in ArtifactNode \ Registered, artifact \in Artifact :
       /\ artifact.parents \subseteq Registered /\ artifact.creator = None
       /\ artifacts' = Stored(artifacts, x, artifact) /\ payloads' \subseteq payloads \cup {x}
       /\ nodes' = N /\ edges' = E

(* From a graph that fits the store, every way to land keeps types,        *)
(* references and the match of the two, and no artifact changes.           *)
LEMMA LandsSafely ==
  ASSUME FlowTypeOK, StoreGrounded, payloads \subseteq Registered,
         NEW N, NEW E, GraphFits(N, E), Lands(N, E)
  PROVE  /\ Extends(artifacts, artifacts') /\ StoreTypeOK'
         /\ \A x \in Registered' : /\ artifacts'[x].parents \subseteq Registered'
                                   /\ artifacts'[x].creator \in Recorded \cup {None}
         /\ nodes' \subseteq Node /\ nodes' \cap ActionNode = Recorded
         /\ edges' \in GraphEdges /\ Matched'
<1>1. /\ Registered \subseteq ArtifactNode /\ payloads \subseteq ArtifactNode
      /\ artifacts \in [Registered -> Artifact] /\ Recorded \subseteq ActionNode
  BY DEF FlowTypeOK, StoreTypeOK
<1>2. StoreShape(artifacts)
  BY <1>1 DEF StoreShape, StoreGrounded, Registered
<1>3. /\ N \subseteq Node /\ N \cap ActionNode = Recorded /\ E \in GraphEdges
      /\ Joined(N, E) /\ Told(N, E, artifacts)
  BY DEF GraphFits
<1>4. CASE artifacts' = artifacts /\ payloads' = payloads /\ nodes' = N /\ edges' = E
  <2>1. Extends(artifacts, artifacts') /\ StoreTypeOK'
    BY <1>4, <1>1 DEF Extends, StoreTypeOK, Registered
  <2>2. Matched'
    <3>1. payloads' \subseteq Registered'
      BY <1>4 DEF Registered
    <3>2. Joined(nodes', edges') /\ Told(nodes', edges', artifacts')
      BY <1>3, <1>4
    <3> QED BY <3>1, <3>2 DEF Matched
  <2>3. \A x \in Registered' : /\ artifacts'[x].parents \subseteq Registered'
                               /\ artifacts'[x].creator \in Recorded \cup {None}
    BY <1>4 DEF StoreGrounded, Registered
  <2> QED BY <1>3, <1>4, <2>1, <2>2, <2>3
<1>5. ASSUME NEW x \in ArtifactNode \ Registered, NEW artifact \in Artifact,
             artifact.parents \subseteq Registered, artifact.creator \in Recorded \cup {None},
             artifacts' = Stored(artifacts, x, artifact), payloads' \subseteq payloads \cup {x}
      PROVE  /\ Extends(artifacts, artifacts') /\ StoreTypeOK' /\ payloads' \subseteq Registered'
             /\ \A y \in Registered' : /\ artifacts'[y].parents \subseteq Registered'
                                       /\ artifacts'[y].creator \in Recorded \cup {None}
  <2>1. /\ Registered' = Registered \cup {x} /\ artifacts'[x] = artifact
        /\ \A y \in Registered : artifacts'[y] = artifacts[y]
        /\ artifacts' = [y \in Registered \cup {x} |-> artifacts'[y]]
        /\ Extends(artifacts, artifacts')
    <3>1. x \in ArtifactNode \ DOMAIN artifacts
      BY DEF Registered
    <3>2. /\ DOMAIN artifacts' = DOMAIN artifacts \cup {x} /\ artifacts'[x] = artifact
          /\ \A y \in DOMAIN artifacts : artifacts'[y] = artifacts[y]
          /\ artifacts' = [y \in DOMAIN artifacts \cup {x} |-> artifacts'[y]]
          /\ Extends(artifacts, artifacts')
      BY <1>5, <3>1 DEF Stored, Extends
    <3> QED BY <3>2 DEF Registered
  <2>2. \A y \in Registered' : artifacts'[y] \in Artifact
    BY <1>1, <2>1
  <2>3. artifacts' \in [Registered' -> Artifact]
    BY <2>1, <2>2
  <2>4. StoreTypeOK'
    BY <1>1, <1>5, <2>1, <2>3 DEF StoreTypeOK
  <2>5. \A y \in Registered' : /\ artifacts'[y].parents \subseteq Registered'
                               /\ artifacts'[y].creator \in Recorded \cup {None}
    BY <1>5, <2>1 DEF StoreGrounded
  <2> QED BY <1>5, <2>1, <2>4, <2>5
<1>6. ASSUME NEW x \in ArtifactNode \ Registered, NEW artifact \in Artifact,
             artifact.parents \subseteq N \cap Registered,
             artifact.creator \in (N \cap ActionNode) \cup {None},
             artifacts' = Stored(artifacts, x, artifact), payloads' = payloads \cup {x},
             nodes' = Projected([nodes |-> N, edges |-> E], x, artifact).nodes,
             edges' = Projected([nodes |-> N, edges |-> E], x, artifact).edges
      PROVE  /\ nodes' \subseteq Node /\ nodes' \cap ActionNode = Recorded
             /\ edges' \in GraphEdges /\ Joined(nodes', edges')
             /\ Told(nodes', edges', artifacts')
  <2> DEFINE P == Projected([nodes |-> N, edges |-> E], x, artifact)
  <2>1. Joined(P.nodes, P.edges) /\ Told(P.nodes, P.edges, Stored(artifacts, x, artifact))
    BY <1>2, <1>3, <1>6, ToldProjected DEF Registered
  <2>2. nodes' = N \cup {x} /\ x \in Node /\ x \notin ActionNode
    BY <1>6, ProjectedEdges, StoreAssumption DEF Node
  <2>3. edges' \in GraphEdges
    <3> DEFINE produced == IF artifact.creator = None THEN E
                           ELSE AddEdge(E, "PRODUCES", artifact.creator, x)
    <3>1. "PRODUCES" \in Relation /\ "DERIVED_FROM" \in Relation
      BY DEF Relation
    <3>2. produced \in GraphEdges
      <4>1. CASE artifact.creator = None
        BY <1>3, <4>1
      <4>2. CASE artifact.creator # None
        <5>1. {artifact.creator} \in SUBSET Node
          BY <1>3, <1>6, <4>2
        <5>2. produced = AddInto(E, "PRODUCES", {artifact.creator}, x)
          BY <4>2, AddEdgeIsAddInto
        <5> HIDE DEF produced
        <5> QED BY <1>3, <2>2, <3>1, <5>1, <5>2, AddIntoTyped
      <4> QED BY <4>1, <4>2
    <3>3. edges' = AddFrom(produced, "DERIVED_FROM", x, artifact.parents)
      BY <1>6 DEF Projected
    <3>4. artifact.parents \in SUBSET Node
      BY <1>3, <1>6
    <3> HIDE DEF produced
    <3> QED BY <2>2, <3>1, <3>2, <3>3, <3>4, AddFromTyped
  <2> QED BY <1>3, <1>6, <2>1, <2>2, <2>3
<1>7. CASE \E x \in ArtifactNode \ Registered, artifact \in Artifact :
             /\ artifact.parents \subseteq N \cap Registered
             /\ artifact.creator \in (N \cap ActionNode) \cup {None}
             /\ artifacts' = Stored(artifacts, x, artifact) /\ payloads' = payloads \cup {x}
             /\ nodes' = Projected([nodes |-> N, edges |-> E], x, artifact).nodes
             /\ edges' = Projected([nodes |-> N, edges |-> E], x, artifact).edges
  <2>1. PICK x \in ArtifactNode \ Registered, artifact \in Artifact :
             /\ artifact.parents \subseteq N \cap Registered
             /\ artifact.creator \in (N \cap ActionNode) \cup {None}
             /\ artifacts' = Stored(artifacts, x, artifact) /\ payloads' = payloads \cup {x}
             /\ nodes' = Projected([nodes |-> N, edges |-> E], x, artifact).nodes
             /\ edges' = Projected([nodes |-> N, edges |-> E], x, artifact).edges
    BY <1>7
  <2>2. artifact.parents \subseteq Registered /\ artifact.creator \in Recorded \cup {None}
    BY <1>3, <2>1
  <2>3. /\ Extends(artifacts, artifacts') /\ StoreTypeOK' /\ payloads' \subseteq Registered'
        /\ \A y \in Registered' : /\ artifacts'[y].parents \subseteq Registered'
                                  /\ artifacts'[y].creator \in Recorded \cup {None}
    BY <1>5, <2>1, <2>2
  <2>4. /\ nodes' \subseteq Node /\ nodes' \cap ActionNode = Recorded
        /\ edges' \in GraphEdges /\ Joined(nodes', edges')
        /\ Told(nodes', edges', artifacts')
    BY <1>6, <2>1
  <2> QED BY <2>3, <2>4 DEF Matched
<1>8. CASE \E x \in ArtifactNode \ Registered, artifact \in Artifact :
             /\ artifact.parents \subseteq Registered /\ artifact.creator = None
             /\ artifacts' = Stored(artifacts, x, artifact) /\ payloads' \subseteq payloads \cup {x}
             /\ nodes' = N /\ edges' = E
  <2>1. PICK x \in ArtifactNode \ Registered, artifact \in Artifact :
             /\ artifact.parents \subseteq Registered /\ artifact.creator = None
             /\ artifacts' = Stored(artifacts, x, artifact) /\ payloads' \subseteq payloads \cup {x}
             /\ nodes' = N /\ edges' = E
    BY <1>8
  <2>2. /\ Extends(artifacts, artifacts') /\ StoreTypeOK' /\ payloads' \subseteq Registered'
        /\ \A y \in Registered' : /\ artifacts'[y].parents \subseteq Registered'
                                  /\ artifacts'[y].creator \in Recorded \cup {None}
    BY <1>5, <2>1
  <2>3. /\ Registered' = Registered \cup {x} /\ artifacts'[x] = artifact
        /\ \A y \in Registered : artifacts'[y] = artifacts[y]
    <3>1. x \in ArtifactNode \ DOMAIN artifacts
      BY DEF Registered
    <3>2. /\ DOMAIN artifacts' = DOMAIN artifacts \cup {x} /\ artifacts'[x] = artifact
          /\ \A y \in DOMAIN artifacts : artifacts'[y] = artifacts[y]
      BY <2>1, <3>1 DEF Stored
    <3> QED BY <3>2 DEF Registered
  <2>4. Told(N, E, artifacts')
    BY <1>3, <2>1, <2>3 DEF Told, Registered
  <2>5. Matched'
    <3>1. Joined(nodes', edges') /\ Told(nodes', edges', artifacts')
      BY <1>3, <2>1, <2>4
    <3> QED BY <2>2, <3>1 DEF Matched
  <2> QED BY <1>3, <2>1, <2>2, <2>5
<1> QED BY <1>4, <1>7, <1>8 DEF Lands

-----------------------------------------------------------------------------
(* What an execution does.                                                 *)
ActionRecord == [tool: Tools, decision: Verdict, approved: BOOLEAN,
                 inputs: SUBSET ArtifactNode, named: Named,
                 executed: BOOLEAN, sent: ArtifactNode \cup {None}]

(* The output of an action is an artifact made from its inputs.            *)
LEMMA OutputTyped ==
  ASSUME FlowTypeOK, NEW a \in ActionNode, NEW source \in Source, NEW trust \in Trust,
         NEW classes \in SUBSET Classification, NEW derives, NEW inputs \in SUBSET Registered
  PROVE  LET artifact == Output(a, source, trust, classes, derives, inputs)
         IN  /\ artifact \in Artifact /\ artifact.creator = a
             /\ artifact.parents \subseteq inputs
<1> DEFINE parents == IF derives THEN inputs ELSE {}
           inherited == UNION {artifacts[p].inherited \cup {artifacts[p].trust} : p \in parents}
           labels == classes \cup UNION {artifacts[p].classes : p \in parents}
<1>1. \A p \in Registered : artifacts[p] \in Artifact
  BY DEF FlowTypeOK, StoreTypeOK
<1>2. \A p \in Registered : /\ artifacts[p].inherited \subseteq Trust
                            /\ artifacts[p].trust \in Trust
                            /\ artifacts[p].classes \subseteq Classification
  BY <1>1 DEF Artifact
<1>3. parents \subseteq inputs /\ parents \in SUBSET ArtifactNode /\ parents \subseteq Registered
  BY DEF FlowTypeOK, StoreTypeOK
<1>4. inherited \subseteq Trust /\ labels \subseteq Classification
  BY <1>2, <1>3
<1>5. Output(a, source, trust, classes, derives, inputs)
        = [creator |-> a, parents |-> parents, source |-> source, trust |-> trust,
           inherited |-> inherited, classes |-> labels]
  BY DEF Output
<1> HIDE DEF parents, inherited, labels
<1>6. [creator |-> a, parents |-> parents, source |-> source, trust |-> trust,
       inherited |-> inherited, classes |-> labels] \in Artifact
  BY <1>3, <1>4 DEF Artifact
<1> QED BY <1>3, <1>5, <1>6

LEMMA SentTyped ==
  ASSUME FlowTypeOK, NEW action
  PROVE  Sent(action) \in ArtifactNode \cup {None}
BY DEF Sent, FlowTypeOK, StoreTypeOK

Consumed(a, inputs) == AddInto(edges, "CONSUMES", inputs, a)

(* Inputs that the graph misses become nodes, and the graph still fits.    *)
LEMMA ConsumedFits ==
  ASSUME FlowTypeOK, StoreGrounded, Matched, NEW a \in Recorded, NEW inputs \in SUBSET Registered
  PROVE  /\ GraphFits(nodes \cup inputs, Consumed(a, inputs))
         /\ EndsIn(edges, Consumed(a, inputs), a)
<1>1. /\ nodes \subseteq Node /\ edges \in GraphEdges /\ Recorded = nodes \cap ActionNode
      /\ Registered \subseteq ArtifactNode /\ ArtifactNode \subseteq Node
      /\ Joined(nodes, edges) /\ Told(nodes, edges, artifacts)
  BY DEF FlowTypeOK, StoreTypeOK, GraphTypeOK, GraphEdges, Matched, Node
<1>2. StoreShape(artifacts)
  BY <1>1 DEF StoreShape, StoreGrounded, Registered
<1>3. "CONSUMES" \in Relation \ {"DERIVED_FROM", "PRODUCES"}
  BY DEF Relation
<1>4. EndsIn(edges, Consumed(a, inputs), a)
  BY <1>3, AddIntoEndsIn DEF Consumed
<1>5. Consumed(a, inputs) \in GraphEdges
  <2>1. a \in Node /\ inputs \in SUBSET Node
    BY <1>1
  <2> QED BY <1>1, <1>3, <2>1, AddIntoTyped DEF Consumed
<1>6. Joined(nodes \cup inputs, Consumed(a, inputs))
  <2>1. nodes \subseteq nodes \cup inputs /\ inputs \subseteq nodes \cup inputs /\ a \in nodes \cup inputs
    BY <1>1
  <2> QED BY <1>1, <1>3, <2>1, EndsInJoined DEF Consumed
<1>7. Told(nodes \cup inputs, Consumed(a, inputs), artifacts)
  <2>1. nodes \subseteq nodes \cup inputs
        /\ (nodes \cup inputs) \cap ArtifactNode \subseteq nodes \cup DOMAIN artifacts
        /\ a \in ActionNode
    BY <1>1 DEF Registered
  <2> QED BY <1>1, <1>2, <1>4, <2>1, ToldIntoAction
<1>8. nodes \cup inputs \subseteq Node /\ (nodes \cup inputs) \cap ActionNode = Recorded
  BY <1>1, StoreAssumption
<1> QED BY <1>4, <1>5, <1>6, <1>7, <1>8 DEF GraphFits

Run(action) == [action EXCEPT !.executed = TRUE, !.sent = Sent(action)]

(* An execution marks its action and goes on from the graph with the       *)
(* inputs consumed: a silent tool stops there, another registers its       *)
(* output, and a registration that fails leaves that graph.                *)
LEMMA ExecutionEffect ==
  ASSUME FlowTypeOK, StoreGrounded, Matched, NEW a \in Recorded, NEW action \in ActionRecord,
         action.inputs \subseteq Registered, Execution(a, action)
  PROVE  /\ actions' = [actions EXCEPT ![a] = Run(action)]
         /\ GraphFits(nodes \cup action.inputs, Consumed(a, action.inputs))
         /\ Lands(nodes \cup action.inputs, Consumed(a, action.inputs))
<1> DEFINE N == nodes \cup action.inputs
           E == Consumed(a, action.inputs)
           g == [nodes |-> N, edges |-> E]
           out == Output(a, SourceOf(action.tool), TrustOf(action.tool), ClassesOf(action.tool),
                         DerivesOutput(action.tool), action.inputs)
<1>1. actions' = [actions EXCEPT ![a] = Run(action)]
  BY DEF Execution, Run
<1>2. /\ GraphFits(N, E) /\ EndsIn(edges, E, a)
  BY ConsumedFits
<1>3. \/ SetGraph(g) /\ artifacts' = artifacts /\ payloads' = payloads
      \/ \E x \in FreshArtifact(ArtifactNode \ Foreign) : RegisterIn(g, x, out)
  BY DEF Execution, Consumed, store_vars
<1>4. CASE SetGraph(g) /\ artifacts' = artifacts /\ payloads' = payloads
  <2>1. nodes' = N /\ edges' = E
    BY <1>4 DEF SetGraph
  <2> HIDE DEF N, E
  <2>2. Lands(N, E)
    BY <1>4, <2>1 DEF Lands
  <2> QED BY <1>1, <1>2, <2>2 DEF N, E
<1>5. CASE \E x \in FreshArtifact(ArtifactNode \ Foreign) : RegisterIn(g, x, out)
  <2>1. PICK x \in FreshArtifact(ArtifactNode \ Foreign) : RegisterIn(g, x, out)
    BY <1>5
  <2>2. x \in ArtifactNode \ Registered
    BY DEF FreshArtifact, Fresh
  <2>3. a \in ActionNode
    BY DEF FlowTypeOK
  <2>4. out \in Artifact /\ out.creator = a /\ out.parents \subseteq action.inputs
    <3>1. /\ SourceOf(action.tool) \in Source /\ TrustOf(action.tool) \in Trust
          /\ ClassesOf(action.tool) \in SUBSET Classification
      BY DEF SourceOf, TrustOf, ClassesOf, Source, Trust, Classification
    <3> QED BY <2>3, <3>1, OutputTyped
  <2> HIDE DEF out
  <2>5. N \cap ArtifactNode \subseteq Registered /\ Joined(N, E) /\ E \in GraphEdges
        /\ N \cap ActionNode = Recorded
    BY <1>2 DEF GraphFits, Told, Registered
  <2>6. payloads \subseteq Registered
    BY DEF Matched
  <2> HIDE DEF E, N
  <2>7. /\ out.parents \subseteq Registered
        /\ \/ artifacts' = artifacts /\ payloads' = payloads /\ nodes' = N /\ edges' = E
           \/ /\ artifacts' = Stored(artifacts, x, out) /\ payloads' = payloads \cup {x}
              /\ nodes' = Projected([nodes |-> N, edges |-> E], x, out).nodes
              /\ edges' = Projected([nodes |-> N, edges |-> E], x, out).edges
              /\ out.parents \cup ({out.creator} \ {None}) \subseteq N
    BY <2>1, <2>2, <2>5, <2>6, RegistrationEffect
  <2>8. out.parents \subseteq Registered /\ out.creator \in (N \cap ActionNode) \cup {None}
    BY <2>4, <2>5, <2>7
  <2>9. Lands(N, E)
    BY <2>2, <2>4, <2>7, <2>8 DEF Lands
  <2> QED BY <1>1, <1>2, <2>9 DEF N, E
<1> QED BY <1>3, <1>4, <1>5

(* What an artifact from outside does.                                     *)
LEMMA IngestEffect ==
  ASSUME FlowTypeOK, Matched, NEW x \in ArtifactNode \ Registered, NEW label \in Ingestible,
         NEW parents \in SUBSET ArtifactNode, NEW stored, Ingest(x, label, parents, stored)
  PROVE  /\ actions' = actions /\ trajectory' = trajectory
         /\ GraphFits(nodes, edges) /\ Lands(nodes, edges)
<1> DEFINE artifact == Ingested(label[1], label[2], label[3], parents)
<1>1. artifact \in Artifact /\ artifact.creator = None /\ artifact.parents = parents
  <2>1. label[1] \in Source /\ label[2] \in Trust /\ label[3] \in SUBSET Classification
    BY FlowAssumption
  <2> QED BY <2>1 DEF Ingested, Artifact
<1>2. /\ actions' = actions /\ trajectory' = trajectory
      /\ \/ RegisterIn([nodes |-> nodes, edges |-> edges], x, artifact)
         \/ RegisterOnly(x, artifact, stored)
  BY DEF Ingest
<1> HIDE DEF artifact
<1>3. /\ nodes \subseteq Node /\ edges \in GraphEdges /\ nodes \cap ActionNode = Recorded
      /\ Joined(nodes, edges) /\ Told(nodes, edges, artifacts) /\ payloads \subseteq Registered
  BY DEF FlowTypeOK, GraphTypeOK, GraphEdges, Matched
<1>4. GraphFits(nodes, edges) /\ x \notin nodes
  BY <1>3 DEF GraphFits, Told, Registered
<1>5. CASE RegisterIn([nodes |-> nodes, edges |-> edges], x, artifact)
  <2>1. /\ artifact.parents \subseteq Registered
        /\ \/ artifacts' = artifacts /\ payloads' = payloads /\ nodes' = nodes /\ edges' = edges
           \/ /\ artifacts' = Stored(artifacts, x, artifact) /\ payloads' = payloads \cup {x}
              /\ nodes' = Projected([nodes |-> nodes, edges |-> edges], x, artifact).nodes
              /\ edges' = Projected([nodes |-> nodes, edges |-> edges], x, artifact).edges
              /\ artifact.parents \cup ({artifact.creator} \ {None}) \subseteq nodes
    BY <1>3, <1>4, <1>5, RegistrationEffect
  <2>2. Lands(nodes, edges)
    BY <1>1, <2>1 DEF Lands
  <2> QED BY <1>2, <1>4, <2>2
<1>6. CASE RegisterOnly(x, artifact, stored)
  <2>1. artifact.parents \subseteq Registered
    BY <1>6 DEF RegisterOnly, MayRegister
  <2>2. /\ artifacts' = Stored(artifacts, x, artifact) /\ payloads' \subseteq payloads \cup {x}
        /\ nodes' = nodes /\ edges' = edges
    BY <1>6 DEF RegisterOnly, Stored, Registered, graph_vars
  <2>3. Lands(nodes, edges)
    BY <1>1, <2>1, <2>2 DEF Lands
  <2> QED BY <1>2, <1>4, <2>3
<1> QED BY <1>2, <1>5, <1>6

-----------------------------------------------------------------------------
(* The invariant of types, references and the graph.                       *)
FlowInv == FlowTypeOK /\ Grounded /\ Matched

TrajectoryRecord == [last: ActionNode \cup {None}, pending: ActionNode \cup {None},
                     egress: Nat, quarantined: BOOLEAN]

LEMMA FlowTypes ==
  FlowTypeOK <=> /\ nodes \subseteq Node /\ edges \in GraphEdges /\ StoreTypeOK
                 /\ Recorded = nodes \cap ActionNode
                 /\ actions \in [Recorded -> ActionRecord] /\ trajectory \in TrajectoryRecord
BY DEF FlowTypeOK, GraphTypeOK, GraphEdges, ActionRecord, TrajectoryRecord

LEMMA VerdictTyped ==
  ASSUME NEW c
  PROVE  PythonVerdict(c) \in Verdict
BY DEF PythonVerdict, Resolve, Verdict

(* FlowInv, kept by each kind of step.                                     *)
LEMMA ProposalKeeps ==
  ASSUME FlowInv, NEW a \in ActionNode \ Recorded, NEW p \in Proposals,
         NEW previous \in SUBSET Recorded, EvaluateProposal(a, p, previous)
  PROVE  FlowInv'
<1>1. /\ nodes \subseteq Node /\ edges \in GraphEdges /\ StoreTypeOK
      /\ Recorded = nodes \cap ActionNode
      /\ actions \in [Recorded -> ActionRecord] /\ trajectory \in TrajectoryRecord
      /\ Grounded /\ Matched
  BY FlowTypes DEF FlowInv
<1>2. /\ trajectory.pending = None
      /\ nodes' = nodes \cup IntentNode \cup {a}
      /\ edges' = LinkedInto(edges, a, trajectory.last, previous)
      /\ artifacts' = artifacts /\ payloads' = payloads
      /\ \E facts :
           /\ ToolFacts(p.tool) \cup ProvenanceFacts(p) \subseteq facts
           /\ actions' = [b \in Recorded \cup {a} |->
                            IF b # a THEN actions[b] ELSE ProposedAs(p, PythonVerdict(facts))]
           /\ \E e \in Nat, q \in BOOLEAN :
                trajectory' = [last |-> a, egress |-> e,
                               pending |-> IF PythonVerdict(facts) = "REQUIRE_APPROVAL"
                                           THEN a ELSE None,
                               quarantined |-> q]
  BY ProposalEffect DEF FlowInv
<1>3. PICK facts :
           /\ actions' = [b \in Recorded \cup {a} |->
                            IF b # a THEN actions[b] ELSE ProposedAs(p, PythonVerdict(facts))]
           /\ \E e \in Nat, q \in BOOLEAN :
                trajectory' = [last |-> a, egress |-> e,
                               pending |-> IF PythonVerdict(facts) = "REQUIRE_APPROVAL"
                                           THEN a ELSE None,
                               quarantined |-> q]
  BY <1>2
<1>4. PICK e \in Nat, q \in BOOLEAN :
                trajectory' = [last |-> a, egress |-> e,
                               pending |-> IF PythonVerdict(facts) = "REQUIRE_APPROVAL"
                                           THEN a ELSE None,
                               quarantined |-> q]
  BY <1>3
<1> DEFINE verdict == PythonVerdict(facts)
           r == ProposedAs(p, verdict)
<1>5. verdict \in Verdict
  BY VerdictTyped
<1> HIDE DEF verdict
<1>6. r \in ActionRecord /\ r.decision = verdict /\ r.inputs \subseteq Registered
  <2>1. p.tool \in Tools /\ p.inputs \in SUBSET ArtifactNode /\ p.named \in Named
    BY DEF Proposals
  <2>2. NoField \in Named
    <3>1. NoField \in [{} -> ArtifactNode] /\ {} \in SUBSET PayloadFields
      BY DEF NoField
    <3> QED BY <3>1 DEF Named
  <2>3. Validated(p) \in SUBSET ArtifactNode /\ Validated(p) \subseteq Registered
    <3>1. CASE ReferenceError(p.inputs) = {}
      <4>1. p.inputs \subseteq Registered
        BY <3>1 DEF ReferenceError
      <4> QED BY <2>1, <3>1, <4>1 DEF Validated
    <3>2. CASE ReferenceError(p.inputs) # {}
      BY <3>2 DEF Validated
    <3> QED BY <3>1, <3>2
  <2> QED BY <1>5, <2>1, <2>2, <2>3 DEF ProposedAs, ActionRecord
<1> HIDE DEF r
<1>7. /\ Recorded' = Recorded \cup {a} /\ actions'[a] = r
      /\ \A b \in Recorded : actions'[b] = actions[b]
  BY <1>3 DEF Recorded, r, verdict
<1>8. actions' \in [Recorded' -> ActionRecord]
  <2>1. \A b \in Recorded \cup {a} :
          (IF b # a THEN actions[b] ELSE ProposedAs(p, PythonVerdict(facts))) \in ActionRecord
    BY <1>1, <1>6 DEF r, verdict
  <2>2. actions' \in [Recorded \cup {a} -> ActionRecord]
    BY <1>3, <2>1
  <2> QED BY <1>7, <2>2
<1>9. /\ trajectory' \in TrajectoryRecord /\ trajectory'.last = a
      /\ trajectory'.pending # None => trajectory'.pending = a /\ r.decision = "REQUIRE_APPROVAL"
  BY <1>4, <1>6 DEF TrajectoryRecord, verdict
<1>10. trajectory.last \in (nodes \cap ActionNode) \cup {None}
       /\ previous \in SUBSET (nodes \cap ActionNode)
  BY <1>1 DEF Grounded
<1>11. /\ edges' \in GraphEdges /\ EndsIn(edges, edges', a)
       /\ Joined(nodes \cup IntentNode \cup {a}, edges')
  BY <1>1, <1>2, <1>10, LinkedEdges DEF Matched
<1>12. /\ nodes' \subseteq Node /\ Recorded' = nodes' \cap ActionNode
       /\ nodes' \cap ArtifactNode \subseteq nodes
  BY <1>1, <1>2, <1>7, StoreAssumption DEF Node
<1>13. Registered' = Registered /\ StoreTypeOK'
  BY <1>1, <1>2 DEF Registered, StoreTypeOK
<1>14. FlowTypeOK'
  <2>1. /\ nodes' \subseteq Node /\ edges' \in GraphEdges /\ StoreTypeOK'
        /\ Recorded' = nodes' \cap ActionNode
        /\ actions' \in [Recorded' -> ActionRecord] /\ trajectory' \in TrajectoryRecord
    BY <1>8, <1>9, <1>11, <1>12, <1>13
  <2> QED BY <2>1 DEF FlowTypeOK, GraphTypeOK, GraphEdges, ActionRecord, TrajectoryRecord
<1>15. Grounded'
  BY <1>1, <1>2, <1>6, <1>7, <1>9, <1>13 DEF Grounded, StoreGrounded
<1>16. Matched'
  <2>1. StoreShape(artifacts)
    BY <1>1 DEF StoreShape, Grounded, StoreGrounded, Registered, StoreTypeOK
  <2>2. nodes' \cap ArtifactNode \subseteq nodes \cup DOMAIN artifacts /\ nodes \subseteq nodes'
    BY <1>2, <1>12
  <2>3. Told(nodes', edges', artifacts)
    BY <1>1, <1>11, <2>1, <2>2, ToldIntoAction DEF Matched
  <2>4. payloads' \subseteq Registered'
    BY <1>1, <1>2, <1>13 DEF Matched
  <2>5. Joined(nodes', edges')
    BY <1>2, <1>11
  <2> QED BY <1>2, <2>3, <2>4, <2>5 DEF Matched
<1> QED BY <1>14, <1>15, <1>16 DEF FlowInv

LEMMA ExecutionKeeps ==
  ASSUME FlowInv, NEW a \in Recorded, NEW action \in ActionRecord,
         action.inputs = actions[a].inputs, Execution(a, action),
         trajectory' \in TrajectoryRecord, trajectory'.last = trajectory.last,
         trajectory'.pending \in {trajectory.pending, None}, trajectory'.pending # a
  PROVE  FlowInv'
<1>1. /\ nodes \subseteq Node /\ edges \in GraphEdges /\ StoreTypeOK
      /\ Recorded = nodes \cap ActionNode
      /\ actions \in [Recorded -> ActionRecord] /\ trajectory \in TrajectoryRecord
      /\ FlowTypeOK /\ StoreGrounded /\ Grounded /\ Matched /\ action.inputs \subseteq Registered
  BY FlowTypes DEF FlowInv, Grounded
<1>2. /\ actions' = [actions EXCEPT ![a] = Run(action)]
      /\ GraphFits(nodes \cup action.inputs, Consumed(a, action.inputs))
      /\ Lands(nodes \cup action.inputs, Consumed(a, action.inputs))
  BY <1>1, ExecutionEffect
<1>3. /\ Extends(artifacts, artifacts') /\ StoreTypeOK'
      /\ \A x \in Registered' : /\ artifacts'[x].parents \subseteq Registered'
                                /\ artifacts'[x].creator \in Recorded \cup {None}
      /\ nodes' \subseteq Node /\ nodes' \cap ActionNode = Recorded
      /\ edges' \in GraphEdges /\ Matched'
  BY <1>1, <1>2, LandsSafely DEF Matched
<1>4. Run(action) \in ActionRecord /\ Run(action).inputs = action.inputs
  BY <1>1, SentTyped DEF Run, ActionRecord
<1>5. /\ Recorded' = Recorded /\ actions' \in [Recorded' -> ActionRecord]
      /\ actions'[a] = Run(action) /\ \A b \in Recorded \ {a} : actions'[b] = actions[b]
  BY <1>1, <1>2, <1>4 DEF Recorded
<1>6. FlowTypeOK'
  <2>1. /\ nodes' \subseteq Node /\ edges' \in GraphEdges /\ StoreTypeOK'
        /\ Recorded' = nodes' \cap ActionNode
        /\ actions' \in [Recorded' -> ActionRecord] /\ trajectory' \in TrajectoryRecord
    BY <1>3, <1>5
  <2> QED BY <2>1 DEF FlowTypeOK, GraphTypeOK, GraphEdges, ActionRecord, TrajectoryRecord
<1>7. Registered \subseteq Registered'
  BY <1>3 DEF Extends, Registered
<1>8. Grounded'
  BY <1>1, <1>3, <1>4, <1>5, <1>7 DEF Grounded, StoreGrounded
<1> QED BY <1>3, <1>6, <1>8 DEF FlowInv

LEMMA IngestKeeps ==
  ASSUME FlowInv, NEW x \in ArtifactNode \ Registered, NEW label \in Ingestible,
         NEW parents \in SUBSET ArtifactNode, NEW stored, Ingest(x, label, parents, stored)
  PROVE  FlowInv'
<1>1. /\ nodes \subseteq Node /\ edges \in GraphEdges /\ StoreTypeOK
      /\ Recorded = nodes \cap ActionNode
      /\ actions \in [Recorded -> ActionRecord] /\ trajectory \in TrajectoryRecord
      /\ FlowTypeOK /\ StoreGrounded /\ Grounded /\ Matched
  BY FlowTypes DEF FlowInv, Grounded
<1>2. /\ actions' = actions /\ trajectory' = trajectory
      /\ GraphFits(nodes, edges) /\ Lands(nodes, edges)
  BY <1>1, IngestEffect
<1>3. /\ Extends(artifacts, artifacts') /\ StoreTypeOK'
      /\ \A y \in Registered' : /\ artifacts'[y].parents \subseteq Registered'
                                /\ artifacts'[y].creator \in Recorded \cup {None}
      /\ nodes' \subseteq Node /\ nodes' \cap ActionNode = Recorded
      /\ edges' \in GraphEdges /\ Matched'
  BY <1>1, <1>2, LandsSafely DEF Matched
<1>4. Recorded' = Recorded
  BY <1>2 DEF Recorded
<1>5. FlowTypeOK'
  <2>1. /\ nodes' \subseteq Node /\ edges' \in GraphEdges /\ StoreTypeOK'
        /\ Recorded' = nodes' \cap ActionNode
        /\ actions' \in [Recorded' -> ActionRecord] /\ trajectory' \in TrajectoryRecord
    BY <1>1, <1>2, <1>3, <1>4
  <2> QED BY <2>1 DEF FlowTypeOK, GraphTypeOK, GraphEdges, ActionRecord, TrajectoryRecord
<1>6. Registered \subseteq Registered'
  BY <1>3 DEF Extends, Registered
<1>7. Grounded'
  BY <1>1, <1>2, <1>3, <1>4, <1>6 DEF Grounded, StoreGrounded
<1> QED BY <1>3, <1>5, <1>7 DEF FlowInv

LEMMA RejectKeeps ==
  ASSUME FlowInv, NEW a \in Recorded, Reject(a)
  PROVE  /\ FlowInv' /\ artifacts' = artifacts /\ edges' = edges
         /\ actions' = [actions EXCEPT ![a].decision = "DENY"]
         /\ trajectory'.last = trajectory.last
<1>1. /\ nodes \subseteq Node /\ edges \in GraphEdges /\ StoreTypeOK
      /\ Recorded = nodes \cap ActionNode
      /\ actions \in [Recorded -> ActionRecord] /\ trajectory \in TrajectoryRecord
      /\ StoreGrounded /\ Grounded /\ Matched
  BY FlowTypes DEF FlowInv, Grounded
<1>2. /\ nodes' = nodes /\ edges' = edges /\ artifacts' = artifacts /\ payloads' = payloads
      /\ actions' = [actions EXCEPT ![a].decision = "DENY"]
      /\ trajectory' = [trajectory EXCEPT !.pending = None]
  BY DEF Reject, Cleared
<1>3. /\ trajectory' \in TrajectoryRecord /\ trajectory'.last = trajectory.last
      /\ trajectory'.pending = None
  BY <1>1, <1>2 DEF TrajectoryRecord
<1>4. /\ Recorded' = Recorded /\ actions' \in [Recorded' -> ActionRecord]
      /\ \A b \in Recorded : actions'[b].inputs = actions[b].inputs
  BY <1>1, <1>2 DEF Recorded, ActionRecord, Verdict
<1>5. Registered' = Registered /\ StoreTypeOK'
  BY <1>1, <1>2 DEF Registered, StoreTypeOK
<1>6. FlowTypeOK'
  <2>1. /\ nodes' \subseteq Node /\ edges' \in GraphEdges /\ StoreTypeOK'
        /\ Recorded' = nodes' \cap ActionNode
        /\ actions' \in [Recorded' -> ActionRecord] /\ trajectory' \in TrajectoryRecord
    BY <1>1, <1>2, <1>3, <1>4, <1>5
  <2> QED BY <2>1 DEF FlowTypeOK, GraphTypeOK, GraphEdges, ActionRecord, TrajectoryRecord
<1>7. Grounded'
  BY <1>1, <1>2, <1>3, <1>4, <1>5 DEF Grounded, StoreGrounded
<1>8. Matched'
  BY <1>1, <1>2, <1>5 DEF Matched
<1> QED BY <1>2, <1>3, <1>6, <1>7, <1>8 DEF FlowInv

-----------------------------------------------------------------------------
(* The steps, sorted by what they do.                                      *)
Proposes == \E a \in ActionNode \ Recorded, p \in Proposals, previous \in SUBSET Recorded :
              EvaluateProposal(a, p, previous)

Approved(action) == [action EXCEPT !.decision = "ALLOW", !.approved = TRUE]

Runs(a, action) ==
  /\ \/ action = actions[a] /\ action.decision = "ALLOW" /\ trajectory' = trajectory
     \/ a = trajectory.pending /\ action = Approved(actions[a]) /\ Cleared
  /\ Execution(a, action)

Ingests == \E x \in ArtifactNode \ Registered, label \in Ingestible, stored \in BOOLEAN,
              parents \in SUBSET ArtifactNode : Ingest(x, label, parents, stored)

LEMMA FlowCases ==
  ASSUME FlowInv, [FlowNext]_flow_vars
  PROVE  \/ Proposes \/ Ingests
         \/ \E a \in Recorded, action \in ActionRecord :
              action.inputs = actions[a].inputs /\ Runs(a, action)
         \/ \E a \in Recorded : Reject(a)
         \/ UNCHANGED flow_vars
<1>1. actions \in [Recorded -> ActionRecord]
  BY FlowTypes DEF FlowInv
<1>2. \A a \in Recorded : /\ actions[a] \in ActionRecord /\ Approved(actions[a]) \in ActionRecord
                          /\ Approved(actions[a]).inputs = actions[a].inputs
  BY <1>1 DEF ActionRecord, Approved, Verdict
<1>3. ASSUME NEW a \in FreshAction, NEW p \in Proposals, NEW previous \in SUBSET Recorded,
             EvaluateProposal(a, p, previous)
      PROVE  Proposes
  <2>1. a \in ActionNode \ Recorded
    BY <1>3 DEF FreshAction, Fresh
  <2> QED BY <1>3, <2>1 DEF Proposes
<1>4. ASSUME NEW a \in ActionNode, ExecuteAuthorizedAction(a)
      PROVE  a \in Recorded /\ Runs(a, actions[a])
  BY <1>4 DEF ExecuteAuthorizedAction, MayExecute, Runs
<1>5. ASSUME NEW a \in Recorded, Approve(a)
      PROVE  Runs(a, Approved(actions[a]))
  BY <1>5 DEF Approve, Runs, Approved
<1>6. ASSUME NEW x \in FreshArtifact(Foreign) \cup FreshArtifact(ArtifactNode \ Foreign),
             NEW label \in Ingestible, NEW stored \in BOOLEAN, NEW parents \in SUBSET ArtifactNode,
             Ingest(x, label, parents, stored)
      PROVE  Ingests
  <2>1. x \in ArtifactNode \ Registered
    BY StoreAssumption DEF FreshArtifact, Fresh
  <2> QED BY <1>6, <2>1 DEF Ingests
<1>7. CASE \E a \in ActionNode : ExecuteAuthorizedAction(a)
  BY <1>2, <1>4, <1>7
<1>8. CASE \E a \in Recorded : Approve(a) \/ Reject(a)
  BY <1>2, <1>5, <1>8
<1> QED BY <1>3, <1>6, <1>7, <1>8 DEF FlowNext

LEMMA RunKeeps ==
  ASSUME FlowInv, NEW a \in Recorded, NEW action \in ActionRecord,
         action.inputs = actions[a].inputs, Runs(a, action)
  PROVE  FlowInv' /\ trajectory'.last = trajectory.last
<1>1. trajectory \in TrajectoryRecord /\ Grounded /\ a \in ActionNode
  BY FlowTypes DEF FlowInv
<1>2. CASE action = actions[a] /\ action.decision = "ALLOW" /\ trajectory' = trajectory
  <2>1. trajectory.pending # a
    <3>1. trajectory.pending # None =>
             actions[trajectory.pending].decision = "REQUIRE_APPROVAL"
      BY <1>1 DEF Grounded
    <3>2. a # None
      BY <1>1, StoreAssumption DEF Node
    <3> QED BY <1>2, <3>1, <3>2
  <2>2. /\ trajectory' \in TrajectoryRecord /\ trajectory'.last = trajectory.last
        /\ trajectory'.pending \in {trajectory.pending, None} /\ trajectory'.pending # a
    BY <1>1, <1>2, <2>1
  <2> QED BY <2>2, ExecutionKeeps DEF Runs
<1>3. CASE a = trajectory.pending /\ Cleared
  <2>1. /\ trajectory' \in TrajectoryRecord /\ trajectory'.last = trajectory.last
        /\ trajectory'.pending = None
    BY <1>1, <1>3 DEF Cleared, TrajectoryRecord
  <2>2. trajectory'.pending \in {trajectory.pending, None} /\ trajectory'.pending # a
    BY <1>1, <2>1, StoreAssumption DEF Node
  <2> QED BY <2>1, <2>2, ExecutionKeeps DEF Runs
<1> QED BY <1>2, <1>3 DEF Runs

LEMMA FlowInvStep == FlowInv /\ [FlowNext]_flow_vars => FlowInv'
<1> SUFFICES ASSUME FlowInv, [FlowNext]_flow_vars PROVE FlowInv'
  OBVIOUS
<1>1. CASE Proposes
  BY <1>1, ProposalKeeps DEF Proposes
<1>2. CASE Ingests
  BY <1>2, IngestKeeps DEF Ingests
<1>3. CASE \E a \in Recorded, action \in ActionRecord :
             action.inputs = actions[a].inputs /\ Runs(a, action)
  BY <1>3, RunKeeps
<1>4. CASE \E a \in Recorded : Reject(a)
  BY <1>4, RejectKeeps
<1>5. CASE UNCHANGED flow_vars
  <2>1. /\ nodes' = nodes /\ edges' = edges /\ artifacts' = artifacts /\ payloads' = payloads
        /\ actions' = actions /\ trajectory' = trajectory
    BY <1>5 DEF flow_vars
  <2>2. FlowTypeOK'
    BY <2>1 DEF FlowInv, FlowTypeOK, GraphTypeOK, StoreTypeOK, Recorded, Registered
  <2>3. Grounded' /\ Matched'
    BY <2>1 DEF FlowInv, Grounded, StoreGrounded, Matched, Recorded, Registered
  <2> QED BY <2>2, <2>3 DEF FlowInv
<1> QED BY <1>1, <1>2, <1>3, <1>4, <1>5, FlowCases

LEMMA FlowInvInit == FlowInit => FlowInv
<1> SUFFICES ASSUME FlowInit PROVE FlowInv
  OBVIOUS
<1>1. /\ nodes = {} /\ edges = [r \in Relation |-> {}]
      /\ artifacts = [x \in {} |-> x] /\ payloads = {} /\ actions = [a \in {} |-> a]
      /\ trajectory = [last |-> None, pending |-> None, egress |-> 0, quarantined |-> FALSE]
  BY DEF FlowInit, GraphInit, StoreInit
<1>2. Registered = {} /\ Recorded = {}
  BY <1>1 DEF Registered, Recorded
<1>3. StoreTypeOK /\ edges \in GraphEdges /\ actions \in [Recorded -> ActionRecord]
      /\ trajectory \in TrajectoryRecord
  BY <1>1, <1>2 DEF StoreTypeOK, GraphEdges, TrajectoryRecord
<1>4. FlowTypeOK
  BY <1>1, <1>2, <1>3, FlowTypes
<1>5. Grounded
  BY <1>1, <1>2 DEF Grounded, StoreGrounded
<1>6. Matched
  BY <1>1, <1>2 DEF Matched, Joined, Told, Registered
<1> QED BY <1>4, <1>5, <1>6 DEF FlowInv

LEMMA FlowInvariant == FlowSpec => []FlowInv
BY FlowInvInit, FlowInvStep, PTL DEF FlowSpec

(* Type correctness: whatever is proposed, executed, approved and          *)
(* ingested, the graph, the store, the records of the actions and the      *)
(* trajectory keep their shapes, and the actions on record are the action  *)
(* nodes of the graph.                                                     *)
THEOREM FlowTypeCorrect == FlowSpec => []FlowTypeOK
<1>1. FlowInv => FlowTypeOK
  BY DEF FlowInv
<1> QED BY <1>1, FlowInvariant, PTL

(* The provenance store and the session graph never disagree: the          *)
(* derivation the graph shows is the one the store holds, an output is     *)
(* shown with the action that made it, and a registration that the graph   *)
(* refused (register_artifact of provenance/store.py, which rolls back)    *)
(* leaves no trace in either.  For any tools, ids, labels and bounds.      *)
THEOREM StoreMatchesGraphSafe == FlowSpec => []StoreMatchesGraph
<1>1. FlowInv => StoreMatchesGraph
  <2> SUFFICES ASSUME Matched PROVE StoreMatchesGraph
    BY DEF FlowInv
  <2>1. payloads \subseteq Registered /\ Told(nodes, edges, artifacts)
    BY DEF Matched
  <2> QED BY <2>1 DEF StoreMatchesGraph, Told, Registered
<1> QED BY <1>1, FlowInvariant, PTL

-----------------------------------------------------------------------------
(* What a verdict rules out.                                               *)
LEMMA DenyingRule ==
  ASSUME NEW c, NEW rule \in RestrictiveRules(c), DenyRule(rule)
  PROVE  PythonVerdict(c) = "DENY"
BY DEF PythonVerdict, MatchedRules, Resolve

(* A rule that asks for approval leaves no verdict that allows.            *)
LEMMA ApprovingRule ==
  ASSUME NEW c, NEW rule \in RestrictiveRules(c), rule \in ApprovalRule
  PROVE  PythonVerdict(c) # "ALLOW"
BY DEF PythonVerdict, MatchedRules, Resolve

(* Inputs that do not resolve are denied.                                  *)
LEMMA FailureDenies ==
  ASSUME NEW c, c \cap ProvenanceFailure # {}
  PROVE  PythonVerdict(c) = "DENY"
<1>1. PICK rule \in c : rule \in ProvenanceFailure
  OBVIOUS
<1>2. rule \in RestrictiveRules(c)
  BY <1>1 DEF RestrictiveRules, ProvenanceRules
<1>3. DenyRule(rule)
  BY <1>1 DEF ProvenanceFailure, DenyRule, AllowRule, ApprovalRule, QuarantineRule
<1> QED BY <1>2, <1>3, DenyingRule

(* A sink is denied what is unbound or sensitive.                          *)
LEMMA EgressDenied ==
  ASSUME NEW c, {"external_sink", "requires_tracked_inputs"} \subseteq c,
         c \cap {"payload_unbound", "credential_input", "sensitive_input"} # {}
  PROVE  PythonVerdict(c) = "DENY"
<1>1. \E rule \in {"PROVENANCE_UNTRACKED_EGRESS", "PROVENANCE_CREDENTIAL_TO_EXTERNAL",
                   "PROVENANCE_SENSITIVE_TO_EXTERNAL"} : rule \in ProvenanceRules(c)
  BY DEF ProvenanceRules, If
<1>2. PICK rule \in {"PROVENANCE_UNTRACKED_EGRESS", "PROVENANCE_CREDENTIAL_TO_EXTERNAL",
                     "PROVENANCE_SENSITIVE_TO_EXTERNAL"} : rule \in ProvenanceRules(c)
  BY <1>1
<1>3. rule \in RestrictiveRules(c)
  BY <1>2 DEF RestrictiveRules
<1>4. DenyRule(rule)
  BY <1>2 DEF DenyRule, AllowRule, ApprovalRule, QuarantineRule
<1> QED BY <1>3, <1>4, DenyingRule

(* A privileged tool is not allowed untrusted or unknown data.             *)
LEMMA TaintNeedsApproval ==
  ASSUME NEW c, "privileged" \in c, c \cap {"untrusted_input", "unknown_input"} # {}
  PROVE  PythonVerdict(c) # "ALLOW"
<1>1. IsPrivilegedOrDestructive(c)
  BY DEF IsPrivilegedOrDestructive
<1>2. \E rule \in {"PROVENANCE_UNTRUSTED_TO_PRIVILEGED", "PROVENANCE_UNKNOWN_TO_PRIVILEGED"} :
        rule \in ProvenanceRules(c)
  BY <1>1 DEF ProvenanceRules, If
<1>3. PICK rule \in {"PROVENANCE_UNTRUSTED_TO_PRIVILEGED", "PROVENANCE_UNKNOWN_TO_PRIVILEGED"} :
        rule \in ProvenanceRules(c)
  BY <1>2
<1>4. rule \in RestrictiveRules(c) /\ rule \in ApprovalRule
  BY <1>3 DEF RestrictiveRules, ApprovalRule
<1> QED BY <1>4, ApprovingRule

-----------------------------------------------------------------------------
(* A proposal that was not denied was judged on what is upstream of its    *)
(* inputs, and what is upstream stays as it is.                            *)
LEMMA JudgedStays ==
  ASSUME NEW A, NEW B, ParentsIn(A), ParentsIn(B), Extends(A, B),
         NEW r, r.inputs \subseteq DOMAIN A, JudgedWell(A, r)
  PROVE  JudgedWell(B, r)
<1>1. Above(B, r.inputs) = Above(A, r.inputs) /\ Above(A, r.inputs) \subseteq DOMAIN A
  BY AboveStays
<1>2. \A x \in Above(A, r.inputs) : B[x] = A[x]
  BY <1>1 DEF Extends
<1>3. (Clean(B, r.inputs) <=> Clean(A, r.inputs)) /\ (Tainted(B, r.inputs) <=> Tainted(A, r.inputs))
  BY <1>1, <1>2 DEF Clean, Tainted
<1> QED BY <1>3 DEF JudgedWell

(* The classes and origins are unions over all that is upstream: one       *)
(* artifact there is enough for the fact, and the fact for the rule.       *)
LEMMA ProposalJudged ==
  ASSUME FlowInv, NEW p \in Proposals, NEW facts,
         ToolFacts(p.tool) \cup ProvenanceFacts(p) \subseteq facts
  PROVE  JudgedWell(artifacts, ProposedAs(p, PythonVerdict(facts)))
<1> DEFINE verdict == PythonVerdict(facts)
           r == ProposedAs(p, verdict)
<1>1. /\ r.tool = p.tool /\ r.decision = verdict /\ r.sent = None /\ r.executed = FALSE
      /\ r.inputs = (IF verdict = "DENY" THEN {} ELSE Validated(p))
      /\ r.named = IF verdict = "DENY" THEN NoField ELSE p.named
  BY DEF ProposedAs
<1>2. CASE verdict = "DENY"
  BY <1>1, <1>2 DEF JudgedWell
<1>3. CASE verdict # "DENY"
  <2>1. ReferenceError(p.inputs) = {}
    <3> SUFFICES ASSUME ReferenceError(p.inputs) # {} PROVE FALSE
      OBVIOUS
    <3>1. ReferenceError(p.inputs) \subseteq facts
      BY DEF ProvenanceFacts
    <3>2. ReferenceError(p.inputs) \subseteq ProvenanceFailure
      BY DEF ReferenceError, ProvenanceFailure
    <3>3. facts \cap ProvenanceFailure # {}
      BY <3>1, <3>2
    <3> QED BY <1>3, <3>3, FailureDenies
  <2>2. r.inputs = p.inputs /\ p.inputs \subseteq Registered
    BY <1>1, <1>3, <2>1 DEF Validated, ReferenceError
  <2>3. /\ IsSink(p.tool) /\ (p.raw \/ Bound(p) = {}) /\ (p.raw \/ p.inputs # {} \/ DOMAIN p.named # {})
             => "payload_unbound" \in facts
        /\ "CREDENTIAL" \in Classes(p.inputs) => "credential_input" \in facts
        /\ "CONFIDENTIAL" \in Classes(p.inputs) => "sensitive_input" \in facts
        /\ "EXTERNAL_UNTRUSTED" \in Origins(p.inputs) => "untrusted_input" \in facts
        /\ "UNKNOWN" \in Origins(p.inputs) => "unknown_input" \in facts
    BY <2>1 DEF ProvenanceFacts, If
  <2>4. Analysed(p.inputs) = Above(artifacts, p.inputs) /\ Above(artifacts, p.inputs) \subseteq Registered
    BY <2>2, UpstreamIsAbove, AboveHolds DEF Analysed, Registered
  <2>5. ASSUME OneField, IsSink(p.tool)
        PROVE  Clean(artifacts, p.inputs) /\ \A f \in DOMAIN p.named : p.named[f] \in p.inputs
    <3>1. {"external_sink", "requires_tracked_inputs"} \subseteq facts
      BY <2>5 DEF IsSink, ToolFacts
    <3>2. facts \cap {"payload_unbound", "credential_input", "sensitive_input"} = {}
      BY <1>3, <3>1, EgressDenied
    <3>3. ASSUME NEW x \in Above(artifacts, p.inputs) PROVE artifacts[x].classes = {}
      <4>1. artifacts[x].classes \subseteq Classes(p.inputs)
        BY <2>4 DEF Classes
      <4>2. artifacts[x].classes \subseteq Classification
        BY <2>4 DEF FlowInv, FlowTypeOK, StoreTypeOK, Artifact
      <4> QED BY <2>3, <3>2, <4>1, <4>2 DEF Classification
    <3>4. ASSUME NEW f \in DOMAIN p.named PROVE p.named[f] \in p.inputs
      <4>1. Bound(p) # {}
        BY <2>3, <2>5, <3>2
      <4>2. PICK g \in DOMAIN p.named : p.named[g] \in p.inputs
        BY <4>1 DEF Bound
      <4>3. DOMAIN p.named \subseteq PayloadFields
        BY DEF Proposals, Named
      <4> QED BY <2>5, <4>2, <4>3 DEF OneField
    <3> QED BY <3>3, <3>4 DEF Clean
  <2>6. ASSUME "privileged" \in ToolFacts(p.tool), Tainted(artifacts, p.inputs)
        PROVE  verdict # "ALLOW"
    <3>1. PICK x \in Above(artifacts, p.inputs) :
             Normalized(artifacts[x]) \in {"EXTERNAL_UNTRUSTED", "UNKNOWN"}
      BY <2>6 DEF Tainted
    <3>2. Normalized(artifacts[x]) \in Origins(p.inputs)
      BY <2>4, <3>1 DEF Origins
    <3>3. "privileged" \in facts /\ facts \cap {"untrusted_input", "unknown_input"} # {}
      BY <2>3, <2>6, <3>1, <3>2
    <3> QED BY <3>3, TaintNeedsApproval
  <2>7. r.tool = p.tool /\ r.decision = verdict /\ r.inputs = p.inputs /\ r.named = p.named
    BY <1>1, <1>3, <2>2
  <2>8. JudgedWell(artifacts, r)
    <3> HIDE DEF verdict, r
    <3> QED BY <1>1, <2>5, <2>6, <2>7 DEF JudgedWell
  <2> QED BY <2>8
<1> QED BY <1>2, <1>3

(* An execution runs what was judged: the inputs and the payload fields of *)
(* the record, after a verdict that was not a denial.                      *)
LEMMA RunEffect ==
  ASSUME FlowInv, NEW a \in Recorded, NEW action \in ActionRecord,
         action.inputs = actions[a].inputs, Runs(a, action)
  PROVE  /\ Extends(artifacts, artifacts')
         /\ actions' = [actions EXCEPT ![a] = Run(action)]
         /\ Recorded' = Recorded
         /\ actions'[a] = Run(action) /\ \A b \in Recorded \ {a} : actions'[b] = actions[b]
         /\ GraphFits(nodes \cup action.inputs, Consumed(a, action.inputs))
         /\ Lands(nodes \cup action.inputs, Consumed(a, action.inputs))
<1>1. FlowTypeOK /\ StoreGrounded /\ Matched /\ payloads \subseteq Registered
      /\ action.inputs \subseteq Registered
  BY DEF FlowInv, Grounded, Matched
<1>2. /\ actions' = [actions EXCEPT ![a] = Run(action)]
      /\ GraphFits(nodes \cup action.inputs, Consumed(a, action.inputs))
      /\ Lands(nodes \cup action.inputs, Consumed(a, action.inputs))
  BY <1>1, ExecutionEffect DEF Runs
<1>3. Extends(artifacts, artifacts')
  BY <1>1, <1>2, LandsSafely
<1>4. /\ Recorded' = Recorded /\ actions'[a] = Run(action)
      /\ \A b \in Recorded \ {a} : actions'[b] = actions[b]
  BY <1>2 DEF Recorded
<1> QED BY <1>2, <1>3, <1>4

LEMMA RunJudged ==
  ASSUME FlowInv, NEW a \in Recorded, NEW action \in ActionRecord,
         action.inputs = actions[a].inputs, Runs(a, action), JudgedWell(artifacts, actions[a])
  PROVE  JudgedWell(artifacts, Run(action))
<1>1. actions[a] \in ActionRecord /\ Grounded /\ a # None
  BY FlowTypes, StoreAssumption DEF FlowInv, Node
<1>2. /\ action.tool = actions[a].tool /\ action.named = actions[a].named
      /\ actions[a].decision # "DENY"
      /\ action.approved \/ (action.approved = actions[a].approved /\ actions[a].decision = "ALLOW")
  <2>1. CASE action = actions[a] /\ action.decision = "ALLOW"
    BY <2>1
  <2>2. CASE a = trajectory.pending /\ action = Approved(actions[a])
    BY <1>1, <2>2 DEF Approved, ActionRecord, Grounded
  <2> QED BY <2>1, <2>2 DEF Runs
<1>3. /\ Run(action).tool = action.tool /\ Run(action).named = action.named
      /\ Run(action).inputs = action.inputs /\ Run(action).sent = Sent(action)
      /\ Run(action).approved = action.approved
  BY DEF Run, ActionRecord
<1>4. Sent(action) # None =>
        IsSink(action.tool) /\ \E f \in DOMAIN action.named : Sent(action) = action.named[f]
  BY DEF Sent
<1> QED BY <1>2, <1>3, <1>4 DEF JudgedWell

(* Judged is kept: a proposal is judged as it is recorded, an execution    *)
(* sends one of the inputs it was judged by, and all else adds artifacts.  *)
LEMMA JudgedStep == FlowInv /\ FlowInv' /\ Judged /\ [FlowNext]_flow_vars => Judged'
<1> SUFFICES ASSUME FlowInv, FlowInv', Judged, [FlowNext]_flow_vars,
                    NEW b \in Recorded'
             PROVE  JudgedWell(artifacts', actions'[b])
  BY DEF Judged
<1>1. ParentsIn(artifacts) /\ ParentsIn(artifacts')
  BY DEF FlowInv, Grounded, StoreGrounded, ParentsIn, Registered
<1>2. \A a \in Recorded : actions[a].inputs \subseteq DOMAIN artifacts
  BY DEF FlowInv, Grounded, Registered
<1>3. CASE Proposes
  <2>1. PICK a \in ActionNode \ Recorded, p \in Proposals, previous \in SUBSET Recorded :
               EvaluateProposal(a, p, previous)
    BY <1>3 DEF Proposes
  <2>2. PICK facts :
           /\ artifacts' = artifacts
           /\ ToolFacts(p.tool) \cup ProvenanceFacts(p) \subseteq facts
           /\ actions' = [c \in Recorded \cup {a} |->
                            IF c # a THEN actions[c] ELSE ProposedAs(p, PythonVerdict(facts))]
    BY <2>1, ProposalEffect DEF FlowInv
  <2>3. b \in Recorded \cup {a}
    BY <2>2 DEF Recorded
  <2>4. CASE b # a
    BY <2>2, <2>3, <2>4 DEF Judged
  <2>5. CASE b = a
    <3>1. actions'[b] = ProposedAs(p, PythonVerdict(facts))
      BY <2>2, <2>5
    <3>2. JudgedWell(artifacts, ProposedAs(p, PythonVerdict(facts)))
      BY <2>2, ProposalJudged
    <3> QED BY <2>2, <3>1, <3>2
  <2> QED BY <2>4, <2>5
<1>4. CASE Ingests
  <2>1. PICK x \in ArtifactNode \ Registered, label \in Ingestible, stored \in BOOLEAN,
              parents \in SUBSET ArtifactNode : Ingest(x, label, parents, stored)
    BY <1>4 DEF Ingests
  <2>2. /\ actions' = actions /\ GraphFits(nodes, edges) /\ Lands(nodes, edges)
    BY <2>1, IngestEffect DEF FlowInv
  <2>3. Extends(artifacts, artifacts')
    BY <2>2, LandsSafely DEF FlowInv, Grounded, Matched
  <2>4. b \in Recorded
    BY <2>2 DEF Recorded
  <2> QED BY <1>1, <1>2, <2>2, <2>3, <2>4, JudgedStays DEF Judged
<1>5. CASE \E a \in Recorded, action \in ActionRecord :
             action.inputs = actions[a].inputs /\ Runs(a, action)
  <2>1. PICK a \in Recorded, action \in ActionRecord :
             action.inputs = actions[a].inputs /\ Runs(a, action)
    BY <1>5
  <2>2. /\ Extends(artifacts, artifacts') /\ Recorded' = Recorded
        /\ actions'[a] = Run(action) /\ \A c \in Recorded \ {a} : actions'[c] = actions[c]
    BY <2>1, RunEffect
  <2>3. CASE b # a
    BY <1>1, <1>2, <2>2, <2>3, JudgedStays DEF Judged
  <2>4. CASE b = a
    <3>1. JudgedWell(artifacts, Run(action))
      BY <2>1, RunJudged DEF Judged
    <3>2. Run(action).inputs \subseteq DOMAIN artifacts
      BY <1>2, <2>1 DEF Run, ActionRecord
    <3> QED BY <1>1, <2>2, <2>4, <3>1, <3>2, JudgedStays
  <2> QED BY <2>3, <2>4
<1>6. CASE \E a \in Recorded : Reject(a)
  <2>1. PICK a \in Recorded : Reject(a)
    BY <1>6
  <2>2. artifacts' = artifacts /\ actions' = [actions EXCEPT ![a].decision = "DENY"]
    BY <2>1, RejectKeeps
  <2>3. b \in Recorded /\ actions[b] \in ActionRecord
    BY <2>2, FlowTypes DEF Recorded, FlowInv
  <2>4. /\ actions'[b].tool = actions[b].tool /\ actions'[b].inputs = actions[b].inputs
        /\ actions'[b].named = actions[b].named /\ actions'[b].sent = actions[b].sent
        /\ actions'[b].executed = actions[b].executed /\ actions'[b].approved = actions[b].approved
        /\ actions'[b].decision \in {actions[b].decision, "DENY"}
    BY <2>2, <2>3 DEF ActionRecord, Recorded
  <2> QED BY <2>2, <2>3, <2>4 DEF Judged, JudgedWell
<1>7. CASE UNCHANGED flow_vars
  BY <1>7 DEF flow_vars, Judged, Recorded
<1> QED BY <1>3, <1>4, <1>5, <1>6, <1>7, FlowCases

LEMMA JudgedInvariant == FlowSpec => []Judged
<1>1. FlowInit => Judged
  BY DEF FlowInit, Judged, Recorded
<1> QED BY <1>1, JudgedStep, FlowInvariant, PTL DEF FlowSpec

(* Nothing that was sent out has sensitive data anywhere upstream, however *)
(* many tools and ingested labels are in between                           *)
(* (RULE_PROVENANCE_SENSITIVE_TO_EXTERNAL and                              *)
(* RULE_PROVENANCE_CREDENTIAL_TO_EXTERNAL), also when much was registered  *)
(* between the verdict and the execution.  At most one argument names the  *)
(* payload: with both, the gateway can judge the one and send the other    *)
(* (MCInformationFlowTwoFields.cfg).                                       *)
THEOREM NothingSensitiveSentSafe ==
  ASSUME \A f, g \in PayloadFields : f = g
  PROVE  FlowSpec => []NothingSensitiveSent
<1>1. FlowInv /\ Judged => NothingSensitiveSent
  <2> SUFFICES ASSUME FlowInv, Judged, NEW a \in Recorded, actions[a].sent # None,
                      NEW x \in Upstream({actions[a].sent})
               PROVE  artifacts[x].classes = {}
    BY DEF NothingSensitiveSent, RanTool
  <2>1. ParentsIn(artifacts)
    BY DEF FlowInv, Grounded, StoreGrounded, ParentsIn, Registered
  <2>2. Clean(artifacts, actions[a].inputs) /\ actions[a].sent \in actions[a].inputs
    BY DEF Judged, JudgedWell, OneField
  <2>3. {actions[a].sent} \subseteq Above(artifacts, actions[a].inputs)
    BY <2>2, AboveHolds
  <2>4. x \in Above(artifacts, actions[a].inputs)
    BY <2>1, <2>3, AboveGrows, UpstreamIsAbove
  <2> QED BY <2>2, <2>4 DEF Clean
<1> QED BY <1>1, FlowInvariant, JudgedInvariant, PTL

(* A privileged tool ran on data with untrusted or unknown content         *)
(* upstream only after a human approved                                    *)
(* (RULE_PROVENANCE_UNTRUSTED_TO_PRIVILEGED and its twin for unknown       *)
(* trust): the verdict asks for approval, only an approval turns that into *)
(* ALLOW, and nothing upstream changes in between.                         *)
THEOREM UntrustedNeedsApprovalSafe == FlowSpec => []UntrustedNeedsApproval
<1>1. Judged => UntrustedNeedsApproval
  BY UpstreamIsAbove DEF Judged, JudgedWell, Tainted, UntrustedNeedsApproval
<1> QED BY <1>1, JudgedInvariant, PTL

-----------------------------------------------------------------------------
(* Every nonempty set of numbers has a smallest one.                       *)
LEMMA SmallestNumber ==
  ASSUME NEW T, T \subseteq Nat, T # {}
  PROVE  \E x \in T : \A y \in T : x <= y
<1> DEFINE R == OpToRel(<, Nat)
<1>1. IsWellFoundedOn(R, Nat)
  BY NatLessThanWellFounded
<1>2. \A x, y \in Nat : x < y => <<x, y>> \in R
  BY DEF OpToRel
<1> HIDE DEF R
<1>3. PICK x \in T : \A y \in T : ~ (<<y, x>> \in R)
  BY <1>1, WFMin
<1>4. \A y \in T : ~ (y < x)
  BY <1>2, <1>3
<1> QED BY <1>3, <1>4

(* Two solutions of the recursion of a walk agree.                         *)
Walks(E, parent, n, at) ==
  at = [d \in 1..n |-> IF d = 1 THEN parent ELSE CauseOf(E, at[d - 1])]

LEMMA OneWalk ==
  ASSUME NEW E, NEW parent, NEW n \in Nat, NEW f, NEW g,
         Walks(E, parent, n, f), Walks(E, parent, n, g)
  PROVE  \A d \in 1..n : f[d] = g[d]
<1> DEFINE Differ == {d \in 1..n : f[d] # g[d]}
<1>1. \A d \in 1..n : /\ f[d] = IF d = 1 THEN parent ELSE CauseOf(E, f[d - 1])
                      /\ g[d] = IF d = 1 THEN parent ELSE CauseOf(E, g[d - 1])
  BY DEF Walks
<1>2. ASSUME Differ # {} PROVE FALSE
  <2>1. \E d \in Differ : \A e \in Differ : d <= e
    <3>1. Differ \subseteq Nat
      OBVIOUS
    <3> HIDE DEF Differ
    <3> QED BY <1>2, <3>1, SmallestNumber
  <2>2. PICK d \in Differ : \A e \in Differ : d <= e
    BY <2>1
  <2>3. d # 1 /\ d \in 1..n /\ d - 1 \in 1..n
    BY <1>1, <2>2
  <2>4. f[d - 1] = g[d - 1]
    BY <2>2, <2>3
  <2> QED BY <1>1, <2>2, <2>3, <2>4
<1> QED BY <1>2

(* Walk chooses a solution; any other tells what it is.                    *)
LEMMA WalkIs ==
  ASSUME NEW E, NEW parent, NEW f, IsFiniteSet(ActionNode),
         Walks(E, parent, Cardinality(ActionNode), f)
  PROVE  /\ DOMAIN Walk(E, parent) = 1..Cardinality(ActionNode)
         /\ \A d \in 1..Cardinality(ActionNode) : Walk(E, parent)[d] = f[d]
<1> DEFINE n == Cardinality(ActionNode)
           g == CHOOSE at : at = [d \in 1..n |-> IF d = 1 THEN parent ELSE CauseOf(E, at[d - 1])]
<1>1. n \in Nat
  BY FS_CardinalityType
<1>2. Walk(E, parent) = g
  BY DEF Walk
<1>3. Walks(E, parent, n, g)
  BY DEF Walks
<1> HIDE DEF n, g
<1>4. DOMAIN g = 1..n
  BY <1>3 DEF Walks
<1>5. \A d \in 1..n : g[d] = f[d]
  BY <1>1, <1>3, OneWalk DEF n
<1> QED BY <1>2, <1>4, <1>5 DEF n

(* On a line of causes the walk from an action goes through all before it. *)
LEMMA WalkAlongLine ==
  ASSUME FlowTypeOK, NEW n \in Nat, NEW s \in [1..n -> Recorded], LineOf(n, s),
         NEW i \in 1..n, NEW j \in 1..i
  PROVE  s[j] \in OnWalk(Walk(edges, s[i]))
<1> DEFINE m == Cardinality(ActionNode)
           f == [d \in 1..m |-> IF d <= i THEN s[i - d + 1] ELSE None]
<1>1. IsFiniteSet(ActionNode) /\ Recorded \subseteq ActionNode /\ None \notin ActionNode
  BY FlowAssumption, StoreAssumption DEF FlowTypeOK, Node
<1>2. n <= m /\ m \in Nat
  <2>1. s \in Injection(1..n, ActionNode)
    BY <1>1 DEF LineOf, Injection, IsInjective
  <2>2. Cardinality(1..n) <= m
    BY <1>1, <2>1, FS_Injection
  <2>3. Cardinality(1..n) = n
    BY FS_Interval
  <2> QED BY <1>1, <2>2, <2>3, FS_CardinalityType
<1> HIDE DEF m
<1>3. \A k \in 1..n : CauseOf(edges, s[k]) = IF k = 1 THEN None ELSE s[k - 1]
  <2> TAKE k \in 1..n
  <2>1. s[k] # None /\ Preds(edges, "CAUSES", s[k]) = IF k = 1 THEN {} ELSE {s[k - 1]}
    BY <1>1 DEF LineOf
  <2> QED BY <2>1 DEF CauseOf
<1>4. CauseOf(edges, None) = None
  BY DEF CauseOf
<1>5. ASSUME NEW d \in 1..m
      PROVE  f[d] = IF d = 1 THEN s[i] ELSE CauseOf(edges, f[d - 1])
  <2>1. CASE d = 1
    BY <2>1, <1>2
  <2>2. CASE d # 1 /\ d <= i
    <3>1. d - 1 \in 1..m /\ d - 1 <= i /\ i - (d - 1) + 1 \in 1..n /\ i - (d - 1) + 1 # 1
          /\ (i - (d - 1) + 1) - 1 = i - d + 1
      BY <1>2, <2>2
    <3>2. f[d - 1] = s[i - (d - 1) + 1]
      BY <3>1
    <3>3. CauseOf(edges, f[d - 1]) = s[i - d + 1]
      BY <1>3, <3>1, <3>2
    <3> QED BY <2>2, <3>3
  <2>3. CASE d = i + 1
    <3>1. d - 1 = i /\ d - 1 \in 1..m /\ i - i + 1 = 1 /\ 1 \in 1..n /\ d # 1 /\ ~(d <= i)
      BY <1>2, <2>3
    <3>2. f[d - 1] = s[1]
      BY <3>1
    <3>3. CauseOf(edges, f[d - 1]) = None
      BY <1>3, <3>1, <3>2
    <3> QED BY <3>1, <3>3
  <2>4. CASE d > i + 1
    <3>1. d - 1 \in 1..m /\ ~(d - 1 <= i) /\ ~(d <= i) /\ d # 1
      BY <1>2, <2>4
    <3>2. f[d - 1] = None
      BY <3>1
    <3> QED BY <3>1, <3>2, <1>4
  <2> QED BY <1>2, <2>1, <2>2, <2>3, <2>4
<1>6. Walks(edges, s[i], m, f)
  <2>1. f = [d \in 1..m |-> f[d]]
    OBVIOUS
  <2> HIDE DEF f
  <2>2. [d \in 1..m |-> f[d]] = [d \in 1..m |-> IF d = 1 THEN s[i] ELSE CauseOf(edges, f[d - 1])]
    BY <1>5
  <2> QED BY <2>1, <2>2 DEF Walks
<1>7. i - j + 1 \in 1..m /\ f[i - j + 1] = s[j]
  <2>1. i - j + 1 \in 1..m /\ i - j + 1 <= i /\ i - (i - j + 1) + 1 = j
    BY <1>2
  <2> QED BY <2>1
<1> HIDE DEF f
<1>8. /\ DOMAIN Walk(edges, s[i]) = 1..m
      /\ \A d \in 1..m : Walk(edges, s[i])[d] = f[d]
  BY <1>1, <1>6, WalkIs DEF m
<1>9. s[j] # None
  BY <1>1, <1>2
<1> QED BY <1>7, <1>8, <1>9 DEF OnWalk

-----------------------------------------------------------------------------
(* The causes of an action are those its proposal recorded.                *)
LEMMA LandsKeepsCauses ==
  ASSUME FlowTypeOK, NEW N, NEW E, Lands(N, E), NEW b \in ActionNode
  PROVE  Preds(edges', "CAUSES", b) = Preds(E, "CAUSES", b)
<1>1. "CAUSES" \in Relation /\ Registered \subseteq ArtifactNode
  BY DEF Relation, FlowTypeOK, StoreTypeOK
<1>2. CASE edges' = E
  BY <1>2
<1>3. CASE \E x \in ArtifactNode \ Registered, artifact \in Artifact :
             edges' = Projected([nodes |-> N, edges |-> E], x, artifact).edges
  <2>1. PICK x \in ArtifactNode \ Registered, artifact \in Artifact :
             edges' = Projected([nodes |-> N, edges |-> E], x, artifact).edges
    BY <1>3
  <2>2. edges'["CAUSES"] = ProjectedEdge(E, x, artifact, "CAUSES")
    BY <1>1, <2>1, ProjectedEdges
  <2>3. edges'["CAUSES"] = (E["CAUSES"] \ Made(x, artifact)) \ Derivation(x, artifact)
    BY <2>2 DEF ProjectedEdge
  <2>4. \A e \in Made(x, artifact) \cup Derivation(x, artifact) : e[2] \in ArtifactNode
    BY DEF Made, Derivation, Artifact
  <2>5. \A e : e[2] = b => (e \in edges'["CAUSES"] <=> e \in E["CAUSES"])
    BY <2>3, <2>4, StoreAssumption
  <2> QED BY <2>5 DEF Preds
<1> QED BY <1>2, <1>3 DEF Lands

LEMMA ConsumedKeepsCauses ==
  ASSUME NEW a, NEW inputs \in SUBSET ArtifactNode, NEW b,
         Preds(edges, "CAUSES", b) \subseteq ActionNode
  PROVE  Preds(Consumed(a, inputs), "CAUSES", b) = Preds(edges, "CAUSES", b)
<1>1. Consumed(a, inputs)["CAUSES"] = edges["CAUSES"] \ (inputs \X {a})
  BY DEF Consumed, AddInto, Relation
<1>2. \A e \in edges["CAUSES"] : e[2] = b => e[1] \notin inputs
  BY StoreAssumption DEF Preds
<1>3. \A e : e[2] = b => (e \in Consumed(a, inputs)["CAUSES"] <=> e \in edges["CAUSES"])
  BY <1>1, <1>2
<1> QED BY <1>3 DEF Preds

LEMMA LinkedCauses ==
  ASSUME NEW N, NEW E, Joined(N, E), NEW a, a \notin N, NEW parent, NEW previous,
         parent \notin previous, NEW F, F = LinkedInto(E, a, parent, previous)
  PROVE  Preds(F, "CAUSES", a) = {parent} \ {None}
<1> DEFINE governed == AddInto(E, "GOVERNS", IntentNode, a)
           caused == IF parent = None THEN governed ELSE AddEdge(governed, "CAUSES", parent, a)
           into == {<<b, a>> : b \in {parent} \ {None}}
<1>1. \A e \in E["CAUSES"] : e[2] # a
  BY DEF Joined, Relation
<1>2. governed["CAUSES"] = E["CAUSES"] \ (IntentNode \X {a})
  BY DEF AddInto, Relation
<1> HIDE DEF governed
<1>3. caused["CAUSES"] = governed["CAUSES"] \cup into
  <2>1. CASE parent = None
    BY <2>1
  <2>2. CASE parent # None
    <3>1. caused["CAUSES"] = governed["CAUSES"] \cup {<<parent, a>>}
      BY <2>2 DEF AddEdge, Relation
    <3>2. into = {<<parent, a>>}
      BY <2>2
    <3> QED BY <3>1, <3>2
  <2> QED BY <2>1, <2>2
<1>4. F = AddInto(caused, "precedes", previous, a)
  BY DEF LinkedInto, Linked, governed
<1> HIDE DEF caused
<1>5. F["CAUSES"] = caused["CAUSES"] \ (previous \X {a})
  BY <1>4 DEF AddInto, Relation
<1>6. \A e : e[2] = a /\ e \in F["CAUSES"] => e[1] \in {parent} \ {None}
  BY <1>1, <1>2, <1>3, <1>5
<1>7. \A b \in {parent} \ {None} : <<b, a>> \in F["CAUSES"]
  BY <1>3, <1>5
<1> QED BY <1>6, <1>7 DEF Preds

-----------------------------------------------------------------------------
(* The line of causes, step by step: a proposal is its new end, and nothing *)
(* else changes it or what is upstream of its inputs.                      *)
SameLine ==
  /\ Recorded' = Recorded /\ Extends(artifacts, artifacts')
  /\ trajectory'.last = trajectory.last
  /\ \A b \in Recorded : /\ actions'[b].inputs = actions[b].inputs
                         /\ Preds(edges', "CAUSES", b) = Preds(edges, "CAUSES", b)

LEMMA UpstreamStays ==
  ASSUME FlowInv, FlowInv', Extends(artifacts, artifacts'), NEW X, X \subseteq Registered
  PROVE  /\ Above(artifacts', X) = Above(artifacts, X) /\ Above(artifacts, X) \subseteq Registered
         /\ \A x \in Above(artifacts, X) : artifacts'[x] = artifacts[x]
<1>1. ParentsIn(artifacts) /\ ParentsIn(artifacts')
  BY DEF FlowInv, Grounded, StoreGrounded, ParentsIn, Registered
<1>2. Above(artifacts', X) = Above(artifacts, X) /\ Above(artifacts, X) \subseteq Registered
  BY <1>1, AboveStays DEF Registered
<1> QED BY <1>2 DEF Extends, Registered

LEMMA LineStays ==
  ASSUME FlowInv, FlowInv', SameLine, NEW n \in Nat, NEW s \in [1..n -> Recorded], LineOf(n, s)
  PROVE  Lined'
<1>1. \A i \in 1..n : s[i] \in Recorded /\ actions[s[i]].inputs \subseteq Registered
  BY DEF FlowInv, Grounded
<1>2. ASSUME NEW i \in 1..n, NEW x \in Above(artifacts', actions'[s[i]].inputs),
             artifacts'[x].creator # None
      PROVE  \E j \in 1..i : artifacts'[x].creator = s[j]
  <2>1. actions'[s[i]].inputs = actions[s[i]].inputs
    BY <1>1 DEF SameLine
  <2>2. /\ Above(artifacts', actions[s[i]].inputs) = Above(artifacts, actions[s[i]].inputs)
        /\ \A y \in Above(artifacts, actions[s[i]].inputs) : artifacts'[y] = artifacts[y]
    BY <1>1, UpstreamStays DEF SameLine
  <2> QED BY <1>2, <2>1, <2>2 DEF LineOf
<1>3. /\ s \in [1..n -> Recorded'] /\ \A a \in Recorded' : \E i \in 1..n : s[i] = a
      /\ \A i, j \in 1..n : s[i] = s[j] => i = j
      /\ trajectory'.last = IF n = 0 THEN None ELSE s[n]
      /\ \A i \in 1..n : Preds(edges', "CAUSES", s[i]) = IF i = 1 THEN {} ELSE {s[i - 1]}
  BY <1>1 DEF SameLine, LineOf
<1>4. LineOf(n, s)'
  BY <1>2, <1>3 DEF LineOf
<1> QED BY <1>3, <1>4 DEF Lined

(* A proposal that does not name its parent again extends the line: its    *)
(* one cause is the last action, and who made what is upstream of its      *)
(* inputs is on record, hence on the line.                                 *)
LEMMA LineGrows ==
  ASSUME FlowInv, FlowInv', artifacts' = artifacts, ~RepeatParent,
         NEW a \in ActionNode \ Recorded, NEW previous \in SUBSET Recorded,
         trajectory.last \notin previous, trajectory'.last = a,
         edges' = LinkedInto(edges, a, trajectory.last, previous),
         Recorded' = Recorded \cup {a},
         \A b \in Recorded : actions'[b].inputs = actions[b].inputs,
         NEW n \in Nat, NEW s \in [1..n -> Recorded], LineOf(n, s)
  PROVE  Lined'
<1> DEFINE t == [i \in 1..(n + 1) |-> IF i = n + 1 THEN a ELSE s[i]]
<1>1. /\ nodes \in SUBSET Node /\ edges \in GraphEdges /\ Joined(nodes, edges)
      /\ Recorded = nodes \cap ActionNode /\ a \notin nodes
      /\ trajectory.last \in Recorded \cup {None}
  BY DEF FlowInv, FlowTypeOK, GraphTypeOK, GraphEdges, Matched, Grounded
<1>2. EndsIn(edges, edges', a)
  BY <1>1, LinkedEdges
<1>3. Preds(edges', "CAUSES", a) = {trajectory.last} \ {None}
  BY <1>1, LinkedCauses
<1>4. ASSUME NEW b \in Recorded
      PROVE  Preds(edges', "CAUSES", b) = Preds(edges, "CAUSES", b)
  <2>1. \A e : e[2] = b => (e \in edges'["CAUSES"] <=> e \in edges["CAUSES"])
    BY <1>2 DEF EndsIn, Relation
  <2> QED BY <2>1 DEF Preds
<1>5. /\ t \in [1..(n + 1) -> Recorded'] /\ t[n + 1] = a /\ n + 1 \in 1..(n + 1) /\ n + 1 # 0
      /\ \A i \in 1..n : i \in 1..(n + 1) /\ t[i] = s[i] /\ s[i] \in Recorded /\ t[i] # a
      /\ \A i \in 1..(n + 1) : i = n + 1 \/ i \in 1..n
  OBVIOUS
<1> HIDE DEF t
<1>6. \A b \in Recorded' : \E i \in 1..(n + 1) : t[i] = b
  BY <1>5 DEF LineOf
<1>7. \A i, j \in 1..(n + 1) : t[i] = t[j] => i = j
  BY <1>5 DEF LineOf
<1>8. ASSUME NEW i \in 1..(n + 1)
      PROVE  Preds(edges', "CAUSES", t[i]) = IF i = 1 THEN {} ELSE {t[i - 1]}
  <2>1. CASE i \in 1..n
    <3>1. Preds(edges', "CAUSES", t[i]) = IF i = 1 THEN {} ELSE {s[i - 1]}
      BY <1>4, <1>5, <2>1 DEF LineOf
    <3>2. i # 1 => t[i - 1] = s[i - 1]
      BY <1>5, <2>1
    <3> QED BY <3>1, <3>2
  <2>2. CASE i = n + 1
    <3>1. trajectory.last = IF n = 0 THEN None ELSE s[n]
      BY DEF LineOf
    <3>2. CASE n = 0
      BY <1>3, <1>5, <2>2, <3>1, <3>2
    <3>3. CASE n # 0
      <4>1. n \in 1..n /\ i # 1 /\ i - 1 = n /\ s[n] \in Recorded /\ t[i - 1] = s[n]
        BY <1>5, <2>2, <3>3
      <4>2. s[n] # None
        BY <1>1, <4>1, StoreAssumption DEF Node
      <4> QED BY <1>3, <1>5, <2>2, <3>1, <3>3, <4>1, <4>2
    <3> QED BY <3>2, <3>3
  <2> QED BY <1>5, <2>1, <2>2
<1>9. ASSUME NEW i \in 1..(n + 1), NEW x \in Above(artifacts, actions'[t[i]].inputs),
             artifacts[x].creator # None
      PROVE  \E j \in 1..i : artifacts[x].creator = t[j]
  <2>1. CASE i \in 1..n
    <3>1. \E j \in 1..i : artifacts[x].creator = s[j]
      BY <1>5, <1>9, <2>1 DEF LineOf
    <3>2. \A j \in 1..i : s[j] = t[j]
      BY <1>5, <2>1
    <3> QED BY <3>1, <3>2
  <2>2. CASE i = n + 1
    <3>1. t[i] \in Recorded' /\ Registered' = Registered
      BY <1>5 DEF Registered
    <3>2. actions'[t[i]].inputs \subseteq Registered
      BY <3>1 DEF FlowInv, Grounded
    <3>3. x \in Registered
      BY <1>9, <3>2, AboveHolds DEF Registered
    <3>4. artifacts[x].creator \in Recorded
      BY <1>9, <3>3 DEF FlowInv, Grounded, StoreGrounded
    <3>5. \E j \in 1..n : artifacts[x].creator = s[j]
      BY <3>4 DEF LineOf
    <3> QED BY <1>5, <2>2, <3>5
  <2> QED BY <1>5, <2>1, <2>2
<1>10. LineOf(n + 1, t)'
  <2>1. trajectory'.last = IF n + 1 = 0 THEN None ELSE t[n + 1]
    BY <1>5
  <2>2. \A i \in 1..(n + 1) : \A x \in Above(artifacts', actions'[t[i]].inputs) :
          artifacts'[x].creator # None => \E j \in 1..i : artifacts'[x].creator = t[j]
    BY <1>9
  <2> QED BY <1>5, <1>6, <1>7, <1>8, <2>1, <2>2 DEF LineOf
<1> QED BY <1>5, <1>10 DEF Lined

LEMMA RunSameLine ==
  ASSUME FlowInv, NEW a \in Recorded, NEW action \in ActionRecord,
         action.inputs = actions[a].inputs, Runs(a, action),
         \A b \in Recorded : Preds(edges, "CAUSES", b) \subseteq ActionNode
  PROVE  SameLine
<1>1. /\ Extends(artifacts, artifacts') /\ Recorded' = Recorded
      /\ actions'[a] = Run(action) /\ \A b \in Recorded \ {a} : actions'[b] = actions[b]
      /\ Lands(nodes \cup action.inputs, Consumed(a, action.inputs))
  BY RunEffect
<1>2. trajectory'.last = trajectory.last
  BY RunKeeps
<1>3. Run(action).inputs = actions[a].inputs
  BY DEF Run, ActionRecord
<1>4. ASSUME NEW b \in Recorded
      PROVE  Preds(edges', "CAUSES", b) = Preds(edges, "CAUSES", b)
  <2>1. FlowTypeOK /\ b \in ActionNode
    BY DEF FlowInv, FlowTypeOK
  <2>2. Preds(edges', "CAUSES", b) = Preds(Consumed(a, action.inputs), "CAUSES", b)
    BY <1>1, <2>1, LandsKeepsCauses
  <2>3. action.inputs \in SUBSET ArtifactNode
    BY DEF ActionRecord
  <2>4. Preds(Consumed(a, action.inputs), "CAUSES", b) = Preds(edges, "CAUSES", b)
    BY <2>3, ConsumedKeepsCauses
  <2> QED BY <2>2, <2>4
<1> QED BY <1>1, <1>2, <1>3, <1>4 DEF SameLine

LEMMA LinedStep ==
  ASSUME ~RepeatParent
  PROVE  FlowInv /\ FlowInv' /\ Lined /\ [FlowNext]_flow_vars => Lined'
<1> SUFFICES ASSUME FlowInv, FlowInv', Lined, [FlowNext]_flow_vars
             PROVE  Lined'
  OBVIOUS
<1>1. PICK n \in Nat : \E s \in [1..n -> Recorded] : LineOf(n, s)
  BY DEF Lined
<1>2. PICK s \in [1..n -> Recorded] : LineOf(n, s)
  BY <1>1
<1>3. FlowTypeOK /\ Recorded \subseteq ActionNode
  BY DEF FlowInv, FlowTypeOK
<1>4. \A b \in Recorded : Preds(edges, "CAUSES", b) \subseteq ActionNode
  <2> TAKE b \in Recorded
  <2>1. PICK i \in 1..n : s[i] = b
    BY <1>2 DEF LineOf
  <2>2. Preds(edges, "CAUSES", b) = IF i = 1 THEN {} ELSE {s[i - 1]}
    BY <1>2, <2>1 DEF LineOf
  <2>3. i # 1 => s[i - 1] \in ActionNode
    BY <1>3
  <2> QED BY <2>2, <2>3
<1>5. SameLine => Lined'
  BY <1>2, LineStays
<1>6. CASE Proposes
  <2>1. PICK a \in ActionNode \ Recorded, p \in Proposals, previous \in SUBSET Recorded :
               EvaluateProposal(a, p, previous)
    BY <1>6 DEF Proposes
  <2>2. /\ artifacts' = artifacts /\ trajectory.last \notin previous
        /\ edges' = LinkedInto(edges, a, trajectory.last, previous)
        /\ \E facts :
             /\ ToolFacts(p.tool) \cup ProvenanceFacts(p) \subseteq facts
             /\ actions' = [b \in Recorded \cup {a} |->
                              IF b # a THEN actions[b] ELSE ProposedAs(p, PythonVerdict(facts))]
             /\ \E e \in Nat, q \in BOOLEAN :
                  trajectory' = [last |-> a, egress |-> e,
                                 pending |-> IF PythonVerdict(facts) = "REQUIRE_APPROVAL"
                                             THEN a ELSE None,
                                 quarantined |-> q]
    BY <1>3, <2>1, ProposalEffect
  <2>3. PICK facts :
           /\ actions' = [b \in Recorded \cup {a} |->
                            IF b # a THEN actions[b] ELSE ProposedAs(p, PythonVerdict(facts))]
           /\ \E e \in Nat, q \in BOOLEAN :
                trajectory' = [last |-> a, egress |-> e,
                               pending |-> IF PythonVerdict(facts) = "REQUIRE_APPROVAL"
                                           THEN a ELSE None,
                               quarantined |-> q]
    BY <2>2
  <2>4. /\ Recorded' = Recorded \cup {a} /\ trajectory'.last = a
        /\ \A b \in Recorded : actions'[b].inputs = actions[b].inputs
    BY <2>3 DEF Recorded
  <2> QED BY <1>2, <2>2, <2>4, LineGrows
<1>7. CASE Ingests
  <2>1. PICK x \in ArtifactNode \ Registered, label \in Ingestible, stored \in BOOLEAN,
              parents \in SUBSET ArtifactNode : Ingest(x, label, parents, stored)
    BY <1>7 DEF Ingests
  <2>2. /\ actions' = actions /\ trajectory' = trajectory
        /\ GraphFits(nodes, edges) /\ Lands(nodes, edges)
    BY <2>1, IngestEffect DEF FlowInv
  <2>3. Extends(artifacts, artifacts')
    BY <2>2, LandsSafely DEF FlowInv, Grounded, Matched
  <2>4. \A b \in Recorded : Preds(edges', "CAUSES", b) = Preds(edges, "CAUSES", b)
    BY <1>3, <2>2, LandsKeepsCauses
  <2>5. SameLine
    BY <2>2, <2>3, <2>4 DEF SameLine, Recorded
  <2> QED BY <1>5, <2>5
<1>8. CASE \E a \in Recorded, action \in ActionRecord :
             action.inputs = actions[a].inputs /\ Runs(a, action)
  BY <1>4, <1>5, <1>8, RunSameLine
<1>9. CASE \E a \in Recorded : Reject(a)
  <2>1. PICK a \in Recorded : Reject(a)
    BY <1>9
  <2>2. /\ artifacts' = artifacts /\ edges' = edges /\ trajectory'.last = trajectory.last
        /\ actions' = [actions EXCEPT ![a].decision = "DENY"]
    BY <2>1, RejectKeeps
  <2>3. \A b \in Recorded : actions[b] \in ActionRecord
    BY FlowTypes DEF FlowInv
  <2>4. Recorded' = Recorded /\ \A b \in Recorded : actions'[b].inputs = actions[b].inputs
    BY <2>2, <2>3 DEF Recorded, ActionRecord
  <2>5. SameLine
    BY <2>2, <2>4 DEF SameLine, Extends
  <2> QED BY <1>5, <2>5
<1>10. CASE UNCHANGED flow_vars
  <2>1. SameLine
    BY <1>10 DEF flow_vars, SameLine, Extends, Recorded
  <2> QED BY <1>5, <2>1
<1> QED BY <1>6, <1>7, <1>8, <1>9, <1>10, FlowCases

LEMMA LinedInvariant ==
  ASSUME ~RepeatParent
  PROVE  FlowSpec => []Lined
<1>1. FlowInit => Lined
  <2> SUFFICES ASSUME FlowInit PROVE Lined
    OBVIOUS
  <2>1. /\ actions = [a \in {} |-> a] /\ trajectory.last = None
    BY DEF FlowInit
  <2>2. Recorded = {} /\ 1..0 = {}
    BY <2>1 DEF Recorded
  <2>3. [i \in 1..0 |-> None] \in [1..0 -> Recorded]
    BY <2>2
  <2>4. LineOf(0, [i \in 1..0 |-> None])
    BY <2>1, <2>2, <2>3 DEF LineOf
  <2> QED BY <2>3, <2>4 DEF Lined
<1> QED BY <1>1, LinedStep, FlowInvariant, PTL DEF FlowSpec

(* Data never flows past the recorded causes: who made anything upstream   *)
(* of the inputs of an action is found by the walk along CAUSES from that  *)
(* action, which is what the analyzers of the graph and of the trajectory  *)
(* follow.  The hypothesis is what the code needs: a proposal that lists   *)
(* its parent among its previous actions replaces the CAUSES edge and cuts *)
(* the line (MCInformationFlowLostParent.cfg).                             *)
THEOREM FlowFollowsCausalityAlways ==
  ASSUME ~RepeatParent
  PROVE  FlowSpec => []FlowFollowsCausality
<1>1. FlowInv /\ Lined => FlowFollowsCausality
  <2> SUFFICES ASSUME FlowInv, Lined, NEW a \in Recorded, NEW c \in ActionNode,
                      NEW x \in Upstream(actions[a].inputs), artifacts[x].creator = c
               PROVE  c \in OnWalk(Walk(edges, a))
    BY DEF FlowFollowsCausality
  <2>1. PICK n \in Nat : \E s \in [1..n -> Recorded] : LineOf(n, s)
    BY DEF Lined
  <2>2. PICK s \in [1..n -> Recorded] : LineOf(n, s)
    BY <2>1
  <2>3. PICK i \in 1..n : s[i] = a
    BY <2>2 DEF LineOf
  <2>4. x \in Above(artifacts, actions[s[i]].inputs) /\ artifacts[x].creator # None
    BY <2>3, UpstreamIsAbove, StoreAssumption DEF Node
  <2>5. PICK j \in 1..i : artifacts[x].creator = s[j]
    BY <2>2, <2>4 DEF LineOf
  <2>6. s[j] \in OnWalk(Walk(edges, s[i]))
    BY <2>2, WalkAlongLine DEF FlowInv
  <2> QED BY <2>3, <2>5, <2>6
<1> QED BY <1>1, FlowInvariant, LinedInvariant, PTL
=============================================================================
