----------------------- MODULE DelegationServiceProofs -----------------------
(***************************************************************************)
(* Proofs about DelegationService for every set of agents, grants,         *)
(* contracts, proposals and limits.                                        *)
(***************************************************************************)
EXTENDS DelegationService, IntentServiceProofs, FiniteSetTheorems

-----------------------------------------------------------------------------
(***************************************************************************)
(* Facts about sums over finite sets, for the budgets here and the quotas  *)
(* of the gateway.  MapThenSumSet is a recursive function on the subsets   *)
(* of its argument; what it computes follows from the well-foundedness of  *)
(* the finite subsets, one smallest counterexample at a time.              *)
(***************************************************************************)
SumOf(f, S) == MapThenSumSet(LAMBDA x : f[x], S)

LEMMA SmallestSubset ==
  ASSUME NEW S, IsFiniteSet(S), NEW T, T \subseteq SUBSET S, T # {}
  PROVE  \E x \in T : \A y \in T : y \subseteq x => y = x
<1>1. IsWellFoundedOn(StrictSubsetOrdering(S), FiniteSubsetsOf(S))
  BY FS_StrictSubsetOrderingWellFounded
<1>2. FiniteSubsetsOf(S) = SUBSET S
  BY FS_FiniteSubsetsOfFinite
<1>3. \E x \in T : \A y \in T : ~ (<<y, x>> \in StrictSubsetOrdering(S))
  BY <1>1, <1>2, WFMin
<1> QED BY <1>3 DEF StrictSubsetOrdering

-----------------------------------------------------------------------------
(* The recursion of the sum has one solution.                              *)
Pick(s) == CHOOSE x \in s : TRUE

Body(f, g, s) == IF s = {} THEN 0 ELSE f[Pick(s)] + g[s \ {Pick(s)}]

Solves(f, g, S) == g = [s \in SUBSET S |-> Body(f, g, s)]

LEMMA Picked ==
  ASSUME NEW s, s # {}
  PROVE  Pick(s) \in s
BY DEF Pick

LEMMA SolutionRestricts ==
  ASSUME NEW f, NEW g, NEW S, Solves(f, g, S), NEW T \in SUBSET S
  PROVE  Solves(f, [s \in SUBSET T |-> g[s]], T)
<1> DEFINE h == [s \in SUBSET T |-> g[s]]
<1>1. ASSUME NEW s \in SUBSET T PROVE h[s] = Body(f, h, s)
  <2>1. s \in SUBSET S /\ s \ {Pick(s)} \in SUBSET T
    OBVIOUS
  <2>2. g[s] = Body(f, g, s)
    BY <2>1 DEF Solves
  <2> QED BY <2>1, <2>2 DEF Body
<1> QED BY <1>1 DEF Solves

LEMMA OneSolution ==
  ASSUME NEW S, IsFiniteSet(S), NEW f
  PROVE  \A T \in SUBSET S : /\ \E g : Solves(f, g, T)
                             /\ \A g, h : Solves(f, g, T) /\ Solves(f, h, T) => g = h
<1> DEFINE Good(T) == /\ \E g : Solves(f, g, T)
                      /\ \A g, h : Solves(f, g, T) /\ Solves(f, h, T) => g = h
           Bad == {T \in SUBSET S : ~Good(T)}
<1> SUFFICES ASSUME Bad # {} PROVE FALSE
  OBVIOUS
<1> HIDE DEF Good
<1>0. Bad \subseteq SUBSET S
  OBVIOUS
<1> HIDE DEF Bad
<1>1. PICK m \in Bad : \A T \in Bad : T \subseteq m => T = m
  BY <1>0, SmallestSubset
<1>2. \A T \in SUBSET m : T # m => Good(T)
  BY <1>0, <1>1 DEF Bad
<1>3. ASSUME NEW g, NEW h, Solves(f, g, m), Solves(f, h, m) PROVE g = h
  <2>1. ASSUME NEW T \in SUBSET m, T # m PROVE g[T] = h[T]
    <3>1. /\ Solves(f, [s \in SUBSET T |-> g[s]], T)
          /\ Solves(f, [s \in SUBSET T |-> h[s]], T)
      BY <1>3, SolutionRestricts
    <3>2. [s \in SUBSET T |-> g[s]] = [s \in SUBSET T |-> h[s]]
      BY <1>2, <2>1, <3>1 DEF Good
    <3>3. [s \in SUBSET T |-> g[s]][T] = [s \in SUBSET T |-> h[s]][T]
      BY <3>2
    <3> QED BY <3>3
  <2>2. g[m] = h[m]
    <3>1. g[m] = Body(f, g, m) /\ h[m] = Body(f, h, m)
      BY <1>3 DEF Solves
    <3>2. m # {} => g[m \ {Pick(m)}] = h[m \ {Pick(m)}]
      BY <2>1, Picked
    <3> QED BY <3>1, <3>2 DEF Body
  <2>3. \A T \in SUBSET m : g[T] = h[T]
    BY <2>1, <2>2
  <2>4. /\ g = [s \in SUBSET m |-> g[s]] /\ h = [s \in SUBSET m |-> h[s]]
    BY <1>3 DEF Solves
  <2> QED BY <2>3, <2>4
<1>4. \E g : Solves(f, g, m)
  <2> DEFINE G(T) == CHOOSE g : Solves(f, g, T)
             Rest(T) == T \ {Pick(T)}
             h == [T \in SUBSET m |-> IF T = {} THEN 0
                                      ELSE f[Pick(T)] + G(Rest(T))[Rest(T)]]
  <2>1. ASSUME NEW T \in SUBSET m, T # m PROVE Solves(f, G(T), T)
    BY <1>2, <2>1 DEF Good
  <2>2. ASSUME NEW T \in SUBSET m, T # {}
        PROVE  Rest(T) \in SUBSET m /\ Rest(T) # m /\ Rest(T) # T /\ Rest(T) \subseteq T
    BY <2>2, Picked
  <2> HIDE DEF G
  <2>3. ASSUME NEW T \in SUBSET m, T # m PROVE h[T] = G(T)[T]
    <3>1. G(T)[T] = Body(f, G(T), T)
      BY <2>1, <2>3 DEF Solves
    <3>2. CASE T = {}
      BY <3>1, <3>2 DEF Body
    <3>3. CASE T # {}
      <4> DEFINE R == Rest(T)
      <4>1. R \in SUBSET m /\ R # m /\ R \subseteq T
        BY <2>2, <3>3
      <4>2. Solves(f, G(R), R) /\ Solves(f, [s \in SUBSET R |-> G(T)[s]], R)
        BY <2>1, <2>3, <4>1, SolutionRestricts
      <4>3. G(R) = [s \in SUBSET R |-> G(T)[s]]
        BY <1>2, <4>1, <4>2 DEF Good
      <4>4. G(R)[R] = G(T)[R]
        BY <4>3
      <4> QED BY <3>1, <3>3, <4>4 DEF Body
    <3> QED BY <3>2, <3>3
  <2>4. ASSUME NEW T \in SUBSET m PROVE h[T] = Body(f, h, T)
    BY <2>2, <2>3 DEF Body
  <2>5. Solves(f, h, m)
    BY <2>4 DEF Solves
  <2> QED BY <2>5
<1> QED BY <1>1, <1>3, <1>4 DEF Good, Bad

-----------------------------------------------------------------------------
(* The sum as one function on the subsets of a finite set.                 *)
LEMMA SumSolved ==
  ASSUME NEW S, IsFiniteSet(S), NEW f
  PROVE  \E F : Solves(f, F, S) /\ \A T \in SUBSET S : SumOf(f, T) = F[T]
<1>1. ASSUME NEW T \in SUBSET S
      PROVE  \E g : Solves(f, g, T) /\ SumOf(f, T) = g[T]
  <2> DEFINE g == CHOOSE h : Solves(f, h, T)
  <2>1. SumOf(f, T) = g[T]
    BY DEF SumOf, MapThenSumSet, MapThenFoldSet, Solves, Body, Pick
  <2>2. Solves(f, g, T)
    BY OneSolution
  <2> QED BY <2>1, <2>2
<1>2. PICK F : Solves(f, F, S)
  BY OneSolution
<1>3. ASSUME NEW T \in SUBSET S PROVE SumOf(f, T) = F[T]
  <2>1. PICK g : Solves(f, g, T) /\ SumOf(f, T) = g[T]
    BY <1>1
  <2>2. Solves(f, [s \in SUBSET T |-> F[s]], T)
    BY <1>2, SolutionRestricts
  <2>3. g = [s \in SUBSET T |-> F[s]]
    BY <2>1, <2>2, OneSolution
  <2> QED BY <2>1, <2>3
<1> QED BY <1>2, <1>3

Naturals(f, S) == \A x \in S : f[x] \in Nat

LEMMA SumOfEmpty ==
  ASSUME NEW f
  PROVE  SumOf(f, {}) = 0
<1>1. IsFiniteSet({})
  BY FS_EmptySet
<1>2. PICK F : Solves(f, F, {}) /\ SumOf(f, {}) = F[{}]
  BY <1>1, SumSolved
<1> QED BY <1>2 DEF Solves, Body

LEMMA SumOfNaturals ==
  ASSUME NEW S, IsFiniteSet(S), NEW f, Naturals(f, S)
  PROVE  SumOf(f, S) \in Nat
<1>1. PICK F : Solves(f, F, S) /\ SumOf(f, S) = F[S]
  BY SumSolved
<1> DEFINE Bad == {T \in SUBSET S : F[T] \notin Nat}
<1>2. Bad \subseteq SUBSET S
  OBVIOUS
<1>3. ASSUME NEW m \in Bad, \A T \in Bad : T \subseteq m => T = m PROVE FALSE
  <2>1. m \in SUBSET S /\ F[m] \notin Nat /\ F[m] = Body(f, F, m)
    BY <1>1 DEF Solves
  <2>2. m # {} => /\ Pick(m) \in m /\ f[Pick(m)] \in Nat
                  /\ m \ {Pick(m)} \in SUBSET S /\ F[m \ {Pick(m)}] \in Nat
    BY <1>3, <2>1, Picked DEF Naturals
  <2> QED BY <2>1, <2>2 DEF Body
<1>4. Bad = {}
  <2> HIDE DEF Bad
  <2> QED BY <1>2, <1>3, SmallestSubset
<1> QED BY <1>1, <1>4

(* Whichever element is taken out first.                                   *)
LEMMA SumOfSplit ==
  ASSUME NEW S, IsFiniteSet(S), NEW f, Naturals(f, S), NEW a \in S
  PROVE  SumOf(f, S) = f[a] + SumOf(f, S \ {a})
<1>1. PICK F : Solves(f, F, S) /\ \A T \in SUBSET S : SumOf(f, T) = F[T]
  BY SumSolved
<1>2. ASSUME NEW T \in SUBSET S PROVE F[T] \in Nat
  <2>1. IsFiniteSet(T) /\ Naturals(f, T)
    BY FS_Subset DEF Naturals
  <2> QED BY <1>1, <2>1, SumOfNaturals
<1> DEFINE Bad == {T \in SUBSET S : \E x \in T : F[T] # f[x] + F[T \ {x}]}
<1>3. Bad \subseteq SUBSET S
  OBVIOUS
<1>4. ASSUME NEW m \in Bad, \A T \in Bad : T \subseteq m => T = m PROVE FALSE
  <2>1. PICK x \in m : F[m] # f[x] + F[m \ {x}]
    OBVIOUS
  <2> DEFINE p == Pick(m)
  <2>2. /\ m \in SUBSET S /\ p \in m /\ m # {}
        /\ F[m] = f[p] + F[m \ {p}] /\ x # p
    <3>1. m \in SUBSET S /\ p \in m /\ m # {}
      BY <2>1, Picked
    <3>2. F[m] = Body(f, F, m)
      BY <1>1, <3>1 DEF Solves
    <3> QED BY <2>1, <3>1, <3>2 DEF Body
  <2> HIDE DEF p
  <2>3. /\ m \ {p} \in SUBSET S /\ m \ {p} \notin Bad /\ x \in m \ {p}
        /\ m \ {x} \in SUBSET S /\ m \ {x} \notin Bad /\ p \in m \ {x}
    BY <1>4, <2>2
  <2>4. /\ F[m \ {p}] = f[x] + F[(m \ {p}) \ {x}]
        /\ F[m \ {x}] = f[p] + F[(m \ {x}) \ {p}]
    BY <2>3
  <2>5. (m \ {p}) \ {x} = (m \ {x}) \ {p} /\ (m \ {p}) \ {x} \in SUBSET S
    BY <2>2
  <2>6. f[x] \in Nat /\ f[p] \in Nat /\ F[(m \ {p}) \ {x}] \in Nat
    BY <1>2, <2>2, <2>5 DEF Naturals
  <2>7. F[m \ {x}] = f[p] + F[(m \ {p}) \ {x}]
    BY <2>4, <2>5
  <2> HIDE DEF Bad
  <2> QED BY <2>1, <2>2, <2>4, <2>6, <2>7
<1>5. Bad = {}
  <2> HIDE DEF Bad
  <2> QED BY <1>3, <1>4, SmallestSubset
<1>6. \A T \in SUBSET S : \A x \in T : F[T] = f[x] + F[T \ {x}]
  BY <1>5
<1>7. F[S] = f[a] + F[S \ {a}]
  BY <1>6
<1>8. SumOf(f, S) = F[S] /\ SumOf(f, S \ {a}) = F[S \ {a}]
  BY <1>1
<1> QED BY <1>7, <1>8

LEMMA SumOfInsert ==
  ASSUME NEW S, IsFiniteSet(S), NEW f, Naturals(f, S), NEW a, a \notin S, f[a] \in Nat
  PROVE  SumOf(f, S \cup {a}) = f[a] + SumOf(f, S)
<1>1. IsFiniteSet(S \cup {a}) /\ (S \cup {a}) \ {a} = S /\ Naturals(f, S \cup {a})
  BY FS_AddElement DEF Naturals
<1> QED BY <1>1, SumOfSplit

(* Functions that agree on the set have the same sum.                      *)
LEMMA SumOfEqual ==
  ASSUME NEW S, IsFiniteSet(S), NEW f, NEW g, \A x \in S : f[x] = g[x]
  PROVE  SumOf(f, S) = SumOf(g, S)
<1>1. PICK F : Solves(f, F, S) /\ SumOf(f, S) = F[S]
  BY SumSolved
<1>2. PICK G : Solves(g, G, S) /\ SumOf(g, S) = G[S]
  BY SumSolved
<1>3. ASSUME NEW s \in SUBSET S PROVE Body(f, F, s) = Body(g, F, s)
  BY <1>3, Picked DEF Body
<1>4. Solves(g, F, S)
  BY <1>1, <1>3 DEF Solves
<1> QED BY <1>1, <1>2, <1>4, OneSolution

(* One more at one element is one more in the sum; more anywhere never     *)
(* makes the sum less.                                                     *)
LEMMA SumOfStep ==
  ASSUME NEW S, IsFiniteSet(S), NEW f, Naturals(f, S), NEW g, NEW a \in S,
         g[a] = f[a] + 1, \A x \in S \ {a} : g[x] = f[x]
  PROVE  SumOf(g, S) = SumOf(f, S) + 1
<1>1. IsFiniteSet(S \ {a}) /\ Naturals(f, S \ {a}) /\ Naturals(g, S)
  BY FS_RemoveElement DEF Naturals
<1>2. /\ SumOf(f, S) = f[a] + SumOf(f, S \ {a})
      /\ SumOf(g, S) = g[a] + SumOf(g, S \ {a})
  BY <1>1, SumOfSplit
<1>3. SumOf(f, S \ {a}) = SumOf(g, S \ {a}) /\ SumOf(f, S \ {a}) \in Nat
  BY <1>1, SumOfEqual, SumOfNaturals
<1> QED BY <1>2, <1>3 DEF Naturals

-----------------------------------------------------------------------------
(* The contract table keeps its type under the service's own calls.        *)
LEMMA GetIntentType ==
  ASSUME IntentTypeOK, NEW i \in IntentId, GetIntent(i)
  PROVE  IntentTypeOK' /\ intents'[i] \in Contract
<1>1. intents[i] \in Contract /\ now \in Nat
  BY IntentServiceAssumption DEF GetIntent, IntentTypeOK, Exists
<1>2. Refreshed(intents[i], now) \in Contract
  BY <1>1, RefreshedType
<1> QED
  BY <1>2 DEF GetIntent, IntentTypeOK

-----------------------------------------------------------------------------
(* A call that has a root contract in hand issues a well-formed grant.     *)
LEMMA NewGrantType ==
  ASSUME DelegationTypeOK, NEW p \in Proposal, NEW i \in IntentId, NEW root \in Contract,
         NEW left \in Int, NEW r \in RequestId \cup {None}
  PROVE  NewGrant(p, i, root, left, r) \in Grant
<1>1. ParentIssued(p) => Parent(p) \in Grant
  BY DEF DelegationTypeOK, ParentIssued, Parent, Issued
<1>2. now \in Int
  BY DelegationAssumption DEF DelegationTypeOK, IntentTypeOK
<1>3. root.scope.maximum_tool_calls \in Nat /\ p.requested_max_actions \in Nat
  BY DEF Contract, Scope, Proposal
<1>4. NewGrant(p, i, root, left, r).max_actions \in Nat
  BY <1>1, <1>3 DEF NewGrant, Least, Grant
<1>5. NewGrant(p, i, root, left, r).depth \in Nat \ {0}
  BY <1>1 DEF NewGrant, Grant
<1>6. NewGrant(p, i, root, left, r).remaining_subdelegation_depth \in Nat
  BY <1>1 DEF NewGrant, Grant, AtLeast0
<1>7. NewGrant(p, i, root, left, r).expires_at \in Int
  BY <1>2 DEF NewGrant, Proposal
<1> QED
  BY <1>4, <1>5, <1>6, <1>7 DEF NewGrant, Grant, Proposal

LEMMA CallTypes ==
  ASSUME DelegationTypeOK, holder # Idle
  PROVE  /\ holder.proposal \in Proposal /\ holder.seen \in Contract
         /\ holder.root \in IntentId /\ holder.request \in RequestId \cup {None}
         /\ Proposing(holder) \/ holder.request \in RequestId
         /\ IfNone(holder.proposal.requested_depth, MaxDepth) \in Int
         /\ OrDefault(holder.proposal.requested_depth, MaxDepth) - 1 \in Int
<1>1. holder \in Call
  BY DEF DelegationTypeOK
<1>2. holder.proposal.requested_depth \in Int \cup {None}
  BY <1>1 DEF Call, Proposal
<1> QED
  BY <1>1, <1>2, DelegationAssumption DEF Call, IfNone, OrDefault, Proposing

LEMMA DelegationTypeStep == DelegationTypeOK /\ [DelegationNext]_delegation_vars => DelegationTypeOK'
<1> SUFFICES ASSUME DelegationTypeOK, [DelegationNext]_delegation_vars PROVE DelegationTypeOK'
  OBVIOUS
<1> USE DEF DelegationTypeOK
<1>1. ASSUME NEW by \in Principals, NEW p \in Proposals, BeginPropose(by, p)
      PROVE  DelegationTypeOK'
  <2>1. PICK i \in IntentId : Acquire(None, by, p, i)
    BY <1>1 DEF BeginPropose
  <2>2. IntentTypeOK' /\ intents'[i] \in Contract
    BY <2>1, GetIntentType DEF Acquire
  <2>3. holder' \in Call
    BY <2>1, <2>2, DelegationAssumption DEF Acquire, Call
  <2> QED BY <1>1, <2>2, <2>3 DEF BeginPropose, store_vars
<1>2. ASSUME NEW r \in RequestId, Reject(r) PROVE DelegationTypeOK'
  BY <1>2 DEF Reject, store_vars, intent_vars, IntentTypeOK
<1>3. ASSUME NEW r \in RequestId, NEW by \in Principals, BeginResolve(r, by)
      PROVE  DelegationTypeOK'
  <2>1. pending[r] \in Pending /\ Acquire(r, by, pending[r].proposal, pending[r].root_intent_id)
    BY <1>3 DEF BeginResolve
  <2>2. pending[r].proposal \in Proposal /\ pending[r].root_intent_id \in IntentId
    BY <2>1 DEF Pending
  <2>3. IntentTypeOK' /\ intents'[pending[r].root_intent_id] \in Contract
    BY <2>1, <2>2, GetIntentType DEF Acquire
  <2>4. holder' \in Call
    BY <2>1, <2>2, <2>3, DelegationAssumption DEF Acquire, Call
  <2> QED BY <1>3, <2>3, <2>4 DEF BeginResolve, store_vars
<1>4. CASE Finish
  <2>1. holder' = Idle /\ UNCHANGED <<intent_vars, stopped>> /\ IntentTypeOK'
    BY <1>4 DEF Finish, intent_vars, IntentTypeOK
  <2>2. CASE IssueDirectly(holder)
    <3> DEFINE g == NewGrant(holder.proposal, holder.root, holder.seen,
                             IfNone(holder.proposal.requested_depth, MaxDepth), None)
    <3>1. g \in Grant
      BY <1>4, CallTypes, NewGrantType DEF Finish
    <3>2. CreateGrant(g) /\ UNCHANGED <<pending, asked>>
      BY <2>2 DEF IssueDirectly
    <3> QED BY <2>1, <3>1, <3>2 DEF CreateGrant
  <2>3. CASE AskApproval(holder)
    <3>1. holder.proposal \in Proposal /\ holder.root \in IntentId
      BY <1>4, CallTypes DEF Finish
    <3>2. [proposal |-> holder.proposal, root_intent_id |-> holder.root] \in Pending
      BY <3>1 DEF Pending
    <3> QED BY <2>1, <2>3, <3>2 DEF AskApproval, store_vars
  <2>4. CASE Deny(holder)
    BY <2>1, <2>4 DEF Deny, store_vars
  <2>5. CASE IssueApproved(holder)
    <3> DEFINE g == NewGrant(holder.proposal, holder.root, holder.seen,
                             OrDefault(holder.proposal.requested_depth, MaxDepth) - 1,
                             holder.request)
    <3>1. g \in Grant
      BY <1>4, CallTypes, NewGrantType DEF Finish
    <3>2. CreateGrant(g) /\ Forget(holder.request) /\ UNCHANGED asked
      BY <2>5 DEF IssueApproved
    <3> QED BY <2>1, <3>1, <3>2 DEF CreateGrant, Forget
  <2>6. CASE FindStale(holder)
    BY <2>1, <2>6 DEF FindStale, Forget, store_vars
  <2> QED BY <1>4, <2>2, <2>3, <2>4, <2>5, <2>6 DEF Finish
<1>5. ASSUME NEW d \in DelegationId, NEW by \in Principals, RevokeDelegation(d, by)
      PROVE  DelegationTypeOK'
  <2>1. grants[d].root_intent_id \in IntentId
    BY <1>5 DEF RevokeDelegation, Issued, Grant
  <2>2. IntentTypeOK'
    BY <1>5, <2>1, GetIntentType DEF RevokeDelegation
  <2> QED BY <1>5, <2>2 DEF RevokeDelegation
<1>6. ASSUME NEW d \in DelegationId, NEW by \in Principals, CloseDelegation(d, by)
      PROVE  DelegationTypeOK'
  BY <1>6 DEF CloseDelegation, intent_vars, IntentTypeOK
<1>7. ASSUME NEW d \in DelegationId, ReserveActionDispatch(d) PROVE DelegationTypeOK'
  BY <1>7 DEF ReserveActionDispatch, intent_vars, IntentTypeOK
<1>8. ASSUME NEW i \in IntentId, NEW a \in Agent, StopTrajectory(i, a) PROVE DelegationTypeOK'
  BY <1>8 DEF StopTrajectory, intent_vars, store_vars, IntentTypeOK
<1>9. CASE IntentStep
  BY <1>9, IntentTypeStep DEF IntentStep, store_vars
<1>10. CASE UNCHANGED delegation_vars
  BY <1>10 DEF delegation_vars, intent_vars, store_vars, IntentTypeOK
<1> QED
  BY <1>1, <1>2, <1>3, <1>4, <1>5, <1>6, <1>7, <1>8, <1>9, <1>10 DEF DelegationNext

(* Every reachable state of the delegation service is well typed.          *)
THEOREM DelegationTypeCorrect == DelegationSpec => []DelegationTypeOK
<1>1. DelegationInit => DelegationTypeOK
  BY IntentServiceAssumption, DelegationAssumption
     DEF DelegationInit, DelegationTypeOK, IntentInit, IntentTypeOK
<1> QED BY <1>1, DelegationTypeStep, PTL DEF DelegationSpec

-----------------------------------------------------------------------------
(* How the store evolves: a step leaves the grants alone or adds one, the  *)
(* grant that the call holding the lock asked for.                         *)
Attenuates(g) ==
  g.parent_delegation_id \in Issued =>
    /\ Within(g.authority_envelope, grants[g.parent_delegation_id].authority_envelope)
    /\ g.max_actions <= grants[g.parent_delegation_id].max_actions

Issues(d, g) ==
  /\ d \in DelegationId \ Issued /\ g \in Grant
  /\ grants' = [grants EXCEPT ![d] = g]
  /\ holder # Idle
  /\ g.parent_delegation_id = holder.proposal.parent_delegation_id
  /\ g.root_intent_id = holder.root
  /\ g.request = holder.request
  /\ Attenuates(g)

LEMMA NewGrantAttenuates ==
  ASSUME DelegationTypeOK, NEW p \in Proposal, NEW i \in IntentId, NEW root \in Contract,
         NEW left \in Int, NEW r,
         ParentIssued(p) => Within(p.requested, Parent(p).authority_envelope)
  PROVE  Attenuates(NewGrant(p, i, root, left, r))
<1> SUFFICES ASSUME ParentIssued(p)
             PROVE  /\ Within(p.requested, Parent(p).authority_envelope)
                    /\ NewGrant(p, i, root, left, r).max_actions <= Parent(p).max_actions
  BY DEF Attenuates, NewGrant, ParentIssued, Parent
<1>1. Parent(p) \in Grant
  BY DEF DelegationTypeOK, ParentIssued, Parent, Issued
<1>2. /\ Parent(p).max_actions \in Nat /\ root.scope.maximum_tool_calls \in Nat
      /\ p.requested_max_actions \in Nat
  BY <1>1 DEF Grant, Contract, Scope, Proposal
<1> QED BY <1>2 DEF NewGrant, Least

(* A chain contains its own grant and is closed under parents.             *)
LEMMA ChainClosed ==
  ASSUME NEW d \in Issued
  PROVE  /\ d \in Chain(d)
         /\ Chain(d) \subseteq Issued
         /\ UpClosed(Chain(d))
         /\ \A S \in SUBSET Issued : d \in S /\ UpClosed(S) => Chain(d) \subseteq S
BY DEF Chain, UpClosed

LEMMA LiveAuthorityWithinGrant ==
  ASSUME NEW d \in Issued, NEW root, NEW e, Within(e, LiveEffectiveAuthority(d, root))
  PROVE  Within(e, grants[d].authority_envelope)
<1>1. d \in Chain(d)
  BY ChainClosed
<1> QED BY <1>1 DEF Within, LiveEffectiveAuthority, RootEnvelope

LEMMA StoreStep ==
  ASSUME DelegationTypeOK, [DelegationNext]_delegation_vars
  PROVE  \/ UNCHANGED grants
         \/ \E d \in DelegationId, g \in Grant : Issues(d, g)
<1> DEFINE p == holder.proposal
<1>1. CASE holder # Idle /\ IssueDirectly(holder)
  <2> DEFINE g == NewGrant(p, holder.root, holder.seen,
                           IfNone(p.requested_depth, MaxDepth), None)
  <2>1. PICK d \in DelegationId \ Issued : grants' = [grants EXCEPT ![d] = g]
    BY <1>1 DEF IssueDirectly, CreateGrant
  <2>2. ParentIssued(p) => Within(p.requested, Parent(p).authority_envelope)
    BY <1>1 DEF IssueDirectly, Deciding, MayDelegate, ScopeWithinParent
  <2>3. g \in Grant /\ Attenuates(g)
    BY <1>1, <2>2, CallTypes, NewGrantType, NewGrantAttenuates
  <2>4. /\ g.parent_delegation_id = p.parent_delegation_id
        /\ g.root_intent_id = holder.root /\ g.request = holder.request
    BY <1>1 DEF NewGrant, IssueDirectly, Proposing
  <2> HIDE DEF g
  <2> QED BY <1>1, <2>1, <2>3, <2>4 DEF Issues
<1>2. CASE holder # Idle /\ IssueApproved(holder)
  <2> DEFINE g == NewGrant(p, holder.root, holder.seen,
                           OrDefault(p.requested_depth, MaxDepth) - 1, holder.request)
  <2>1. PICK d \in DelegationId \ Issued : grants' = [grants EXCEPT ![d] = g]
    BY <1>2 DEF IssueApproved, CreateGrant
  <2>2. ParentIssued(p) => Within(p.requested, Parent(p).authority_envelope)
    <3> SUFFICES ASSUME ParentIssued(p)
                 PROVE  Within(p.requested, Parent(p).authority_envelope)
      OBVIOUS
    <3>1. p.parent_delegation_id # None /\ p.parent_delegation_id \in Issued
      BY DelegationAssumption DEF ParentIssued, Issued
    <3>2. Within(p.requested,
                 LiveEffectiveAuthority(p.parent_delegation_id, holder.seen))
      BY <1>2, <3>1 DEF IssueApproved, Revalidated, SoundLineage
    <3> QED BY <3>1, <3>2, LiveAuthorityWithinGrant DEF Parent
  <2>3. g \in Grant /\ Attenuates(g)
    BY <1>2, <2>2, CallTypes, NewGrantType, NewGrantAttenuates
  <2>4. /\ g.parent_delegation_id = p.parent_delegation_id
        /\ g.root_intent_id = holder.root /\ g.request = holder.request
    BY DEF NewGrant
  <2> HIDE DEF g
  <2> QED BY <1>2, <2>1, <2>3, <2>4 DEF Issues
<1>3. CASE Finish /\ ~IssueDirectly(holder) /\ ~IssueApproved(holder)
  BY <1>3 DEF Finish, AskApproval, Deny, FindStale, store_vars
<1>4. CASE Finish
  BY <1>1, <1>2, <1>3, <1>4 DEF Finish
<1>5. CASE DelegationNext /\ ~Finish
  BY <1>5 DEF DelegationNext, BeginPropose, Reject, BeginResolve, RevokeDelegation,
       CloseDelegation, ReserveActionDispatch, StopTrajectory, IntentStep, store_vars
<1> QED BY <1>4, <1>5 DEF delegation_vars, store_vars

-----------------------------------------------------------------------------
(* No grant and no call under way names a parent that is still to come: a  *)
(* new grant is nobody's parent, so chains never change.                   *)
Known(d) == d \in Issued \cup {None, UnknownGrant}

LineageKnown ==
  /\ \A d \in Issued : Known(grants[d].parent_delegation_id)
  /\ holder # Idle => Known(holder.proposal.parent_delegation_id)
  /\ \A r \in RequestId :
       pending[r] # NoRequest => Known(pending[r].proposal.parent_delegation_id)

LEMMA IssuedAfter ==
  ASSUME DelegationTypeOK, NEW d \in DelegationId, NEW g \in Grant, Issues(d, g)
  PROVE  /\ Issued' = Issued \cup {d} /\ grants'[d] = g
         /\ \A e \in Issued : grants'[e] = grants[e] /\ e # d
BY DelegationAssumption DEF Issues, Issued, DelegationTypeOK

LEMMA IssuedGrows ==
  ASSUME DelegationTypeOK, [DelegationNext]_delegation_vars
  PROVE  Issued \subseteq Issued' /\ \A d \in Issued : grants'[d] = grants[d]
<1>1. CASE UNCHANGED grants
  BY <1>1 DEF Issued
<1>2. ASSUME NEW d \in DelegationId, NEW g \in Grant, Issues(d, g)
      PROVE  Issued \subseteq Issued' /\ \A e \in Issued : grants'[e] = grants[e]
  BY <1>2, IssuedAfter
<1> QED BY <1>1, <1>2, StoreStep

(* A call or a request is about a proposal that named only known grants.   *)
LEMMA CallsKnown ==
  ASSUME DelegationTypeOK, LineageKnown, [DelegationNext]_delegation_vars
  PROVE  /\ holder' # Idle => Known(holder'.proposal.parent_delegation_id)
         /\ \A r \in RequestId :
              pending'[r] # NoRequest => Known(pending'[r].proposal.parent_delegation_id)
<1> USE DEF LineageKnown
<1>1. ASSUME NEW by \in Principals, NEW p \in Proposals, BeginPropose(by, p)
      PROVE  /\ Known(holder'.proposal.parent_delegation_id)
             /\ pending' = pending
  BY <1>1 DEF BeginPropose, Acquire, Known
<1>2. ASSUME NEW r \in RequestId, NEW by \in Principals, BeginResolve(r, by)
      PROVE  /\ Known(holder'.proposal.parent_delegation_id)
             /\ pending' = pending
  BY <1>2 DEF BeginResolve, Acquire
<1>3. CASE Finish
  <2>1. holder # Idle /\ holder' = Idle
    BY <1>3 DEF Finish
  <2>2. CASE AskApproval(holder)
    BY <2>1, <2>2 DEF AskApproval, DelegationTypeOK
  <2>3. CASE ~AskApproval(holder)
    BY <1>3, <2>1, <2>3
       DEF Finish, IssueDirectly, Deny, IssueApproved, FindStale, Forget, DelegationTypeOK
  <2> QED BY <2>1, <2>2, <2>3
<1>4. ASSUME NEW r \in RequestId, Reject(r)
      PROVE  /\ holder' = holder
             /\ \A q \in RequestId : pending'[q] \in {pending[q], NoRequest}
  BY <1>4 DEF Reject, DelegationTypeOK
<1>5. CASE \/ \E d \in DelegationId, by \in Principals : RevokeDelegation(d, by)
           \/ \E d \in DelegationId, by \in Principals : CloseDelegation(d, by)
           \/ \E d \in DelegationId : ReserveActionDispatch(d)
           \/ \E i \in IntentId, a \in Agent : StopTrajectory(i, a)
           \/ IntentStep
           \/ UNCHANGED delegation_vars
  <2>1. UNCHANGED <<holder, pending>>
    BY <1>5 DEF RevokeDelegation, CloseDelegation, ReserveActionDispatch, StopTrajectory,
         IntentStep, delegation_vars
  <2> QED BY <2>1
<1> QED BY <1>1, <1>2, <1>3, <1>4, <1>5 DEF DelegationNext

LEMMA LineageKnownStep ==
  DelegationTypeOK /\ LineageKnown /\ [DelegationNext]_delegation_vars => LineageKnown'
<1> SUFFICES ASSUME DelegationTypeOK, LineageKnown, [DelegationNext]_delegation_vars
             PROVE  LineageKnown'
  OBVIOUS
<1>1. Issued \subseteq Issued'
  BY IssuedGrows
<1>2. \A x : Known(x) => Known(x)'
  BY <1>1 DEF Known
<1>3. ASSUME NEW d \in Issued' PROVE Known(grants'[d].parent_delegation_id)
  <2>1. CASE d \in Issued
    BY <2>1, IssuedGrows DEF LineageKnown
  <2>2. CASE d \notin Issued
    <3>1. PICK e \in DelegationId, g \in Grant : Issues(e, g)
      BY <1>3, <2>2, StoreStep DEF Issued
    <3>2. d = e /\ grants'[d] = g
      BY <1>3, <2>2, <3>1, IssuedAfter
    <3> QED BY <3>1, <3>2 DEF Issues, LineageKnown
  <2> QED BY <2>1, <2>2
<1> QED BY <1>2, <1>3, CallsKnown DEF LineageKnown

-----------------------------------------------------------------------------
(* Each grant holds no more than its parent; hence, no more than any       *)
(* ancestor.                                                               *)
StepwiseAttenuation == \A d \in Issued : Attenuates(grants[d])

LEMMA StepwiseAttenuationStep ==
  DelegationTypeOK /\ LineageKnown /\ StepwiseAttenuation /\ [DelegationNext]_delegation_vars
    => StepwiseAttenuation'
<1> SUFFICES ASSUME DelegationTypeOK, LineageKnown, StepwiseAttenuation,
                    [DelegationNext]_delegation_vars
             PROVE  StepwiseAttenuation'
  OBVIOUS
<1>1. CASE UNCHANGED grants
  BY <1>1 DEF StepwiseAttenuation, Attenuates, Issued
<1>2. ASSUME NEW d \in DelegationId, NEW g \in Grant, Issues(d, g)
      PROVE  StepwiseAttenuation'
  <2>1. d \notin Issued \cup {None, UnknownGrant}
    BY <1>2, DelegationAssumption DEF Issues
  <2>2. ASSUME NEW e \in Issued'
        PROVE  /\ Known(grants'[e].parent_delegation_id)
               /\ Attenuates(grants'[e])
    <3>1. Issued' = Issued \cup {d} /\ grants'[d] = g
          /\ \A k \in Issued : grants'[k] = grants[k]
      BY <1>2, IssuedAfter
    <3>2. CASE e = d
      <4>1. g.parent_delegation_id \in {None, UnknownGrant} \cup Issued /\ Attenuates(g)
        BY <1>2 DEF Issues, LineageKnown, Known
      <4> QED BY <3>1, <3>2, <4>1 DEF Known
    <3>3. CASE e \in Issued
      <4>1. grants'[e] = grants[e]
        BY <3>1, <3>3
      <4> QED BY <3>3, <4>1 DEF StepwiseAttenuation, LineageKnown
    <3> QED BY <2>2, <3>1, <3>2, <3>3
  <2>3. ASSUME NEW e \in Issued', grants'[e].parent_delegation_id \in Issued'
        PROVE  /\ grants'[e].parent_delegation_id \in Issued
               /\ grants'[grants'[e].parent_delegation_id]
                    = grants[grants'[e].parent_delegation_id]
    BY <1>2, <2>1, <2>2, <2>3, IssuedAfter DEF Known
  <2> QED BY <2>2, <2>3 DEF StepwiseAttenuation, Attenuates
<1> QED BY <1>1, <1>2, StoreStep

LEMMA AncestorsHoldMore ==
  ASSUME DelegationTypeOK, StepwiseAttenuation
  PROVE  Attenuation
<1> SUFFICES ASSUME NEW d \in Issued
             PROVE  \A k \in Chain(d) :
                      /\ Within(grants[d].authority_envelope, grants[k].authority_envelope)
                      /\ grants[d].max_actions <= grants[k].max_actions
  BY DEF Attenuation
<1> DEFINE S == {k \in Issued :
                   /\ Within(grants[d].authority_envelope, grants[k].authority_envelope)
                   /\ grants[d].max_actions <= grants[k].max_actions}
<1>1. \A k \in Issued : grants[k].max_actions \in Nat
  BY DEF DelegationTypeOK, Issued, Grant
<1>2. d \in S
  BY <1>1 DEF Within
<1>3. ASSUME NEW k \in S, grants[k].parent_delegation_id \in Issued
      PROVE  grants[k].parent_delegation_id \in S
  BY <1>1, <1>3 DEF StepwiseAttenuation, Attenuates, Within
<1>4. UpClosed(S)
  BY <1>3 DEF UpClosed
<1>5. S \in SUBSET Issued
  OBVIOUS
<1> HIDE DEF S
<1>6. Chain(d) \subseteq S
  BY <1>2, <1>4, <1>5, ChainClosed
<1> QED BY <1>6 DEF S

LineageInv == DelegationTypeOK /\ LineageKnown /\ StepwiseAttenuation

LEMMA LineageInvariant == DelegationSpec => []LineageInv
<1>1. DelegationInit => DelegationTypeOK /\ LineageKnown /\ StepwiseAttenuation
  BY IntentServiceAssumption, DelegationAssumption
     DEF DelegationInit, DelegationTypeOK, IntentInit, IntentTypeOK, LineageKnown,
         StepwiseAttenuation, Issued
<1>2. LineageInv /\ [DelegationNext]_delegation_vars => LineageInv'
  BY DelegationTypeStep, LineageKnownStep, StepwiseAttenuationStep DEF LineageInv
<1> QED BY <1>1, <1>2, PTL DEF DelegationSpec, LineageInv

(* However long the chain and whichever way its grants were issued, no     *)
(* grant holds more than any of its ancestors.                             *)
THEOREM AttenuationSafe == DelegationSpec => []Attenuation
<1>1. LineageInv => Attenuation
  BY AncestorsHoldMore DEF LineageInv
<1> QED BY <1>1, LineageInvariant, PTL

-----------------------------------------------------------------------------
(***************************************************************************)
(* Proofs that an approval gives one grant at most, and that a grant which *)
(* stopped authorising never authorises again, for every chain, contract   *)
(* and interleaving.                                                       *)
(***************************************************************************)
(* Where a request is: not asked yet, waiting, in the hands of the call    *)
(* that resolves it while it still waits, or settled by a grant or not.    *)
RequestAccounted ==
  /\ \A r \in RequestId : pending[r] # NoRequest => r \in asked
  /\ holder # Idle /\ holder.request # None => pending[holder.request] # NoRequest
  /\ \A d \in Issued : grants[d].request # None =>
       grants[d].request \in asked /\ pending[grants[d].request] = NoRequest

LEMMA RequestAccountedStep ==
  ASSUME DelegationTypeOK, RequestAccounted, OneGrantPerRequest,
         [DelegationNext]_delegation_vars
  PROVE  RequestAccounted' /\ OneGrantPerRequest'
<1> USE DelegationAssumption DEF RequestAccounted, OneGrantPerRequest
<1>1. ASSUME NEW by \in Principals, NEW p \in Proposals, BeginPropose(by, p)
      PROVE  RequestAccounted' /\ OneGrantPerRequest'
  BY <1>1 DEF BeginPropose, Acquire, store_vars, Issued
<1>2. ASSUME NEW r \in RequestId, Reject(r)
      PROVE  RequestAccounted' /\ OneGrantPerRequest'
  BY <1>2 DEF Reject, store_vars, Issued, DelegationTypeOK, Grant
<1>3. ASSUME NEW r \in RequestId, NEW by \in Principals, BeginResolve(r, by)
      PROVE  RequestAccounted' /\ OneGrantPerRequest'
  BY <1>3 DEF BeginResolve, Acquire, store_vars, Issued
<1>4. CASE Finish /\ AskApproval(holder)
  <2>1. holder' = Idle /\ UNCHANGED store_vars
    BY <1>4 DEF Finish, AskApproval
  <2>2. PICK r \in RequestId \ asked :
          /\ pending' = [pending EXCEPT ![r] = [proposal |-> holder.proposal,
                                                root_intent_id |-> holder.root]]
          /\ asked' = asked \cup {r}
    BY <1>4 DEF AskApproval
  <2> QED BY <2>1, <2>2 DEF store_vars, Issued, DelegationTypeOK, Grant
<1>5. CASE Finish /\ (Deny(holder) \/ FindStale(holder))
  <2>1. holder' = Idle /\ UNCHANGED <<grants, asked>>
        /\ \A r \in RequestId : pending'[r] \in {pending[r], NoRequest}
    BY <1>5 DEF Finish, Deny, FindStale, Forget, store_vars, DelegationTypeOK
  <2> QED BY <2>1 DEF Issued, DelegationTypeOK, Grant
<1>6. CASE Finish /\ (IssueDirectly(holder) \/ IssueApproved(holder))
  <2>1. holder # Idle /\ holder' = Idle /\ asked' = asked
    BY <1>6 DEF Finish, IssueDirectly, IssueApproved
  <2>2. \/ pending' = pending /\ holder.request = None
        \/ /\ pending' = [pending EXCEPT ![holder.request] = NoRequest]
           /\ holder.request \in RequestId
    BY <1>6, <2>1, CallTypes DEF IssueDirectly, IssueApproved, Proposing, Forget
  <2>3. CASE UNCHANGED grants
    BY <2>1, <2>2, <2>3 DEF Issued, DelegationTypeOK, Grant
  <2>4. ASSUME NEW d \in DelegationId, NEW g \in Grant, Issues(d, g)
        PROVE  RequestAccounted' /\ OneGrantPerRequest'
    <3>1. /\ Issued' = Issued \cup {d} /\ grants'[d] = g /\ g.request = holder.request
          /\ \A e \in Issued : grants'[e] = grants[e] /\ e # d
      BY <2>4, IssuedAfter DEF Issues
    <3> QED BY <2>1, <2>2, <3>1 DEF DelegationTypeOK, Grant
  <2> QED BY <2>3, <2>4, StoreStep
<1>7. CASE \/ \E d \in DelegationId, by \in Principals : RevokeDelegation(d, by)
           \/ \E d \in DelegationId, by \in Principals : CloseDelegation(d, by)
           \/ \E d \in DelegationId : ReserveActionDispatch(d)
           \/ \E i \in IntentId, a \in Agent : StopTrajectory(i, a)
           \/ IntentStep
           \/ UNCHANGED delegation_vars
  <2>1. UNCHANGED <<grants, holder, pending, asked>>
    BY <1>7 DEF RevokeDelegation, CloseDelegation, ReserveActionDispatch, StopTrajectory,
         IntentStep, delegation_vars, store_vars
  <2> QED BY <2>1 DEF Issued
<1> QED BY <1>1, <1>2, <1>3, <1>4, <1>5, <1>6, <1>7 DEF DelegationNext, Finish

(* However often and by whoever a request is resolved, and whatever else   *)
(* is proposed meanwhile, it is the origin of at most one grant.           *)
THEOREM OneGrantPerRequestSafe == DelegationSpec => []OneGrantPerRequest
<1>1. DelegationInit => RequestAccounted /\ OneGrantPerRequest
  BY DEF DelegationInit, RequestAccounted, OneGrantPerRequest, Issued
<1>2. DelegationTypeOK /\ RequestAccounted /\ OneGrantPerRequest
        /\ [DelegationNext]_delegation_vars => RequestAccounted' /\ OneGrantPerRequest'
  BY RequestAccountedStep
<1> QED BY <1>1, <1>2, DelegationTypeCorrect, PTL DEF DelegationSpec

-----------------------------------------------------------------------------
(* A step of the contract table, taken by the IntentService or by a        *)
(* delegation call that reads it.                                          *)
LEMMA TableStep ==
  ASSUME DelegationTypeOK, [DelegationNext]_delegation_vars
  PROVE  [IntentNext]_intent_vars
<1>1. ASSUME NEW by \in Principals, NEW p \in Proposals, BeginPropose(by, p)
      PROVE  IntentNext
  BY <1>1 DEF BeginPropose, Acquire, IntentNext
<1>2. ASSUME NEW r \in RequestId, NEW by \in Principals, BeginResolve(r, by)
      PROVE  IntentNext
  <2>1. pending[r].root_intent_id \in IntentId
    BY <1>2 DEF BeginResolve, DelegationTypeOK, Pending
  <2> QED BY <1>2, <2>1 DEF BeginResolve, Acquire, IntentNext
<1>3. ASSUME NEW d \in DelegationId, NEW by \in Principals, RevokeDelegation(d, by)
      PROVE  IntentNext
  <2>1. grants[d].root_intent_id \in IntentId
    BY <1>3 DEF RevokeDelegation, DelegationTypeOK, Issued, Grant
  <2> QED BY <1>3, <2>1 DEF RevokeDelegation, IntentNext
<1>4. CASE IntentStep
  BY <1>4 DEF IntentStep
<1>5. CASE \/ \E r \in RequestId : Reject(r)
           \/ Finish
           \/ \E d \in DelegationId, by \in Principals : CloseDelegation(d, by)
           \/ \E d \in DelegationId : ReserveActionDispatch(d)
           \/ \E i \in IntentId, a \in Agent : StopTrajectory(i, a)
           \/ UNCHANGED delegation_vars
  BY <1>5 DEF Reject, Finish, CloseDelegation, ReserveActionDispatch, StopTrajectory,
       delegation_vars
<1> QED BY <1>1, <1>2, <1>3, <1>4, <1>5 DEF DelegationNext

(* A contract that is dead or has no quota left never comes back to life.  *)
Authorises(i) == IsActive(intents[i], now) /\ HasQuota(intents[i])

LEMMA ContractNeverRevived ==
  ASSUME IntentTypeOK, [IntentNext]_intent_vars, NEW i \in IntentId, Exists(i)
  PROVE  Exists(i)' /\ (Authorises(i)' => Authorises(i))
<1> USE IntentServiceAssumption DEF Exists, IntentTypeOK, Authorises
<1>t. intents[i] \in Contract /\ now \in Nat
  OBVIOUS
<1>1. ASSUME NEW j \in IntentId, NEW req \in CreateRequests, CreateIntent(j, req)
      PROVE  intents'[i] = intents[i] /\ now' = now
  BY <1>1 DEF CreateIntent
<1>2. ASSUME NEW j \in IntentId, GetIntent(j)
      PROVE  /\ now' = now
             /\ intents'[i] \in {intents[i], Refreshed(intents[i], now)}
  BY <1>2 DEF GetIntent
<1>3. ASSUME NEW s \in Session, GetIntentForSession(s)
      PROVE  /\ now' = now
             /\ intents'[i] \in {intents[i], Refreshed(intents[i], now)}
  BY <1>2, <1>3 DEF GetIntentForSession
<1>4. ASSUME NEW j \in IntentId, RevokeIntent(j)
      PROVE  /\ now' = now
             /\ intents'[i] \in {intents[i], [intents[i] EXCEPT !.status = "REVOKED"]}
  BY <1>4 DEF RevokeIntent
<1>5. ASSUME NEW j \in IntentId, NEW n \in NarrowRequests, NarrowIntent(j, n)
      PROVE  Exists(i)' /\ (Authorises(i)' => Authorises(i))
  <2>1. CASE i # j
    BY <1>5, <2>1 DEF NarrowIntent
  <2>2. CASE i = j
    <3> DEFINE m == NarrowedScope(intents[i].scope, n)
    <3>1. /\ now' = now /\ intents'[i] = [intents[i] EXCEPT !.scope = m]
          /\ Live(i) /\ n \in NarrowRequest
      BY <1>5, <2>2 DEF NarrowIntent
    <3>2. AtMost(n.maximum_tool_calls, intents[i].scope.maximum_tool_calls)
      BY <1>5, <2>2 DEF NarrowIntent, IsNarrowing
    <3>3. /\ intents[i].scope.maximum_tool_calls \in Nat
          /\ n.maximum_tool_calls \in Nat \cup {None}
          /\ intents[i].tool_calls_count \in Nat /\ intents[i].scope \in Scope
      BY <3>1, <1>t DEF NarrowRequest, Contract, Scope
    <3>4. m.maximum_tool_calls \in Nat
          /\ m.maximum_tool_calls <= intents[i].scope.maximum_tool_calls /\ m \in Scope
      BY <3>1, <3>2, <3>3, NarrowedScopeType, NoneAssumption
      DEF AtMost, Given, NarrowedScope
    <3> HIDE DEF m
    <3>5. [intents[i] EXCEPT !.scope = m] \in Contract
      BY <1>t, <3>4 DEF Contract
    <3>6. HasQuota([intents[i] EXCEPT !.scope = m]) => HasQuota(intents[i])
      BY <1>t, <3>3, <3>4 DEF HasQuota, Contract
    <3> QED BY <3>1, <3>5, <3>6 DEF Live
  <2> QED BY <2>1, <2>2
<1>6. ASSUME NEW j \in IntentId, ReserveToolExecution(j)
      PROVE  Exists(i)' /\ (Authorises(i)' => Authorises(i))
  <2>1. CASE i # j
    BY <1>6, <2>1 DEF ReserveToolExecution
  <2>2. CASE i = j
    <3>1. Authorises(i) /\ intents'[i] = [intents[i] EXCEPT !.tool_calls_count = @ + 1]
      BY <1>6, <2>2 DEF ReserveToolExecution, Live
    <3>2. intents'[i] \in Contract
      BY <1>t, <3>1 DEF Contract
    <3> QED BY <3>1, <3>2
  <2> QED BY <2>1, <2>2
<1>7. CASE Tick
  BY <1>7, <1>t, LivenessOfContract DEF Tick
<1>8. CASE UNCHANGED intent_vars
  BY <1>8 DEF intent_vars
<1>9. Refreshed(intents[i], now) \in Contract
  BY <1>t, RefreshedType
<1>10. Authorises(i) \/ ~(IsActive(Refreshed(intents[i], now), now)
                          /\ HasQuota(Refreshed(intents[i], now)))
  BY <1>t, LivenessOfContract DEF HasQuota
<1>11. /\ [intents[i] EXCEPT !.status = "REVOKED"] \in Contract
       /\ ~IsActive([intents[i] EXCEPT !.status = "REVOKED"], now)
  BY <1>t DEF Contract, IntentStatus, IsActive
<1>12. CASE now' = now /\ intents'[i] \in {intents[i], Refreshed(intents[i], now),
                                           [intents[i] EXCEPT !.status = "REVOKED"]}
  BY <1>12, <1>t, <1>9, <1>10, <1>11
<1> QED
  BY <1>1, <1>2, <1>3, <1>4, <1>5, <1>6, <1>7, <1>8, <1>12 DEF IntentNext

-----------------------------------------------------------------------------
(* Grants hang under contracts that exist.                                 *)
RootsExist ==
  /\ \A d \in Issued : Exists(grants[d].root_intent_id)
  /\ holder # Idle => Exists(holder.root)
  /\ \A r \in RequestId : pending[r] # NoRequest => Exists(pending[r].root_intent_id)

LEMMA RootsExistStep ==
  ASSUME DelegationTypeOK, RootsExist, [DelegationNext]_delegation_vars
  PROVE  RootsExist'
<1> USE DEF RootsExist
<1>1. ASSUME NEW i \in IntentId, Exists(i) PROVE Exists(i)'
  BY <1>1, TableStep, ContractNeverRevived DEF DelegationTypeOK
<1>2. ASSUME NEW d \in Issued' PROVE Exists(grants'[d].root_intent_id)
                                     /\ grants'[d].root_intent_id \in IntentId
  <2>1. CASE d \in Issued
    BY <2>1, IssuedGrows DEF DelegationTypeOK, Issued, Grant
  <2>2. CASE d \notin Issued
    <3>1. PICK e \in DelegationId, g \in Grant : Issues(e, g)
      BY <1>2, <2>2, StoreStep DEF Issued
    <3>2. d = e /\ grants'[d] = g
      BY <1>2, <2>2, <3>1, IssuedAfter
    <3> QED BY <3>1, <3>2 DEF Issues, Grant
  <2> QED BY <2>1, <2>2
<1>3. /\ holder' # Idle => Exists(holder'.root) /\ holder'.root \in IntentId
      /\ \A r \in RequestId : pending'[r] # NoRequest =>
           Exists(pending'[r].root_intent_id) /\ pending'[r].root_intent_id \in IntentId
  <2>1. DelegationTypeOK'
    BY DelegationTypeStep
  <2>2. /\ holder' # Idle => holder'.root \in IntentId
        /\ \A r \in RequestId : pending'[r] # NoRequest => pending'[r].root_intent_id \in IntentId
    BY <2>1 DEF DelegationTypeOK, Call, Pending
  <2>3. ASSUME NEW by \in Principals, NEW p \in Proposals, BeginPropose(by, p)
        PROVE  Exists(holder'.root) /\ pending' = pending
    BY <2>3 DEF BeginPropose, Acquire, GetIntent
  <2>4. ASSUME NEW r \in RequestId, NEW by \in Principals, BeginResolve(r, by)
        PROVE  Exists(holder'.root) /\ pending' = pending
    BY <2>4 DEF BeginResolve, Acquire, GetIntent
  <2>5. CASE Finish /\ AskApproval(holder)
    <3>1. holder # Idle /\ holder' = Idle
      BY <2>5 DEF Finish
    <3>2. PICK r \in RequestId \ asked :
            pending' = [pending EXCEPT ![r] = [proposal |-> holder.proposal,
                                               root_intent_id |-> holder.root]]
      BY <2>5 DEF AskApproval
    <3> QED BY <2>2, <3>1, <3>2 DEF DelegationTypeOK
  <2>6. CASE Finish /\ ~AskApproval(holder)
    <3>1. /\ holder' = Idle
          /\ \A q \in RequestId : pending'[q] \in {pending[q], NoRequest}
      BY <2>6 DEF Finish, IssueDirectly, Deny, IssueApproved, FindStale, Forget,
           DelegationTypeOK
    <3> QED BY <2>2, <3>1
  <2>7. ASSUME NEW r \in RequestId, Reject(r)
        PROVE  /\ holder' = holder
               /\ \A q \in RequestId : pending'[q] \in {pending[q], NoRequest}
    BY <2>7 DEF Reject, DelegationTypeOK
  <2>8. CASE \/ \E d \in DelegationId, by \in Principals : RevokeDelegation(d, by)
             \/ \E d \in DelegationId, by \in Principals : CloseDelegation(d, by)
             \/ \E d \in DelegationId : ReserveActionDispatch(d)
             \/ \E i \in IntentId, a \in Agent : StopTrajectory(i, a)
             \/ IntentStep
             \/ UNCHANGED delegation_vars
    <3>1. UNCHANGED <<holder, pending>>
      BY <2>8 DEF RevokeDelegation, CloseDelegation, ReserveActionDispatch, StopTrajectory,
           IntentStep, delegation_vars
    <3> QED BY <2>2, <3>1
  <2> QED BY <2>2, <2>3, <2>4, <2>5, <2>6, <2>7, <2>8 DEF DelegationNext
<1> QED BY <1>1, <1>2, <1>3

(* The ancestors of a grant are fixed when it is issued.                   *)
LEMMA ChainStable ==
  ASSUME DelegationTypeOK, LineageKnown, [DelegationNext]_delegation_vars, NEW d \in Issued
  PROVE  Chain(d)' = Chain(d)
<1>1. CASE UNCHANGED grants
  BY <1>1 DEF Chain, UpClosed, Issued
<1>2. ASSUME NEW e \in DelegationId, NEW g \in Grant, Issues(e, g)
      PROVE  Chain(d)' = Chain(d)
  <2>1. /\ Issued' = Issued \cup {e}
        /\ e \notin Issued \cup {None, UnknownGrant}
        /\ \A k \in Issued : grants'[k] = grants[k]
    BY <1>2, IssuedAfter, DelegationAssumption DEF Issues
  <2>2. \A k \in Issued : grants'[k].parent_delegation_id \in Issued'
                            <=> grants[k].parent_delegation_id \in Issued
    BY <2>1 DEF LineageKnown, Known
  <2>3. ASSUME NEW k \in Chain(d)' PROVE k \in Chain(d)
    <3>1. \A S \in SUBSET Issued' :
            /\ d \in S
            /\ \A l \in S : grants'[l].parent_delegation_id \in Issued'
                              => grants'[l].parent_delegation_id \in S
            => k \in S
      BY <2>3 DEF Chain, UpClosed
    <3>2. \A l \in Chain(d) : grants'[l].parent_delegation_id \in Issued'
                                => grants'[l].parent_delegation_id \in Chain(d)
      BY <2>1, <2>2, ChainClosed DEF UpClosed
    <3>3. Chain(d) \in SUBSET Issued' /\ d \in Chain(d)
      BY <2>1, ChainClosed
    <3> QED BY <3>1, <3>2, <3>3
  <2>4. ASSUME NEW k \in Chain(d) PROVE k \in Chain(d)'
    <3> SUFFICES ASSUME NEW S \in SUBSET Issued', d \in S,
                        \A l \in S : grants'[l].parent_delegation_id \in Issued'
                                       => grants'[l].parent_delegation_id \in S
                 PROVE  k \in S
      BY <2>1, <2>4 DEF Chain, UpClosed
    <3>1. UpClosed(S \cap Issued)
      BY <2>1, <2>2 DEF UpClosed
    <3>2. Chain(d) \subseteq S \cap Issued
      BY <3>1, ChainClosed
    <3> QED BY <2>4, <3>2
  <2> QED BY <2>3, <2>4
<1> QED BY <1>1, <1>2, StoreStep

-----------------------------------------------------------------------------
(* What a grant has executed is never forgotten, nor given back.           *)
LEMMA ExecutedGrows ==
  ASSUME DelegationTypeOK, [DelegationNext]_delegation_vars
  PROVE  \A k \in DelegationId : /\ executed[k] \in Nat /\ executed'[k] \in Nat
                                 /\ executed[k] <= executed'[k]
<1>1. executed' = executed \/ \E e \in DelegationId : ReserveActionDispatch(e)
  BY DEF DelegationNext, delegation_vars, store_vars, BeginPropose, Reject, BeginResolve,
     Finish, IssueDirectly, AskApproval, Deny, IssueApproved, FindStale, CreateGrant,
     RevokeDelegation, CloseDelegation, StopTrajectory, IntentStep
<1> QED BY <1>1 DEF ReserveActionDispatch, DelegationTypeOK

LEMMA NeverRegainedStep ==
  ASSUME DelegationTypeOK, LineageKnown, RootsExist, [DelegationNext]_delegation_vars,
         NEW d \in Issued, Usable(d)'
  PROVE  Usable(d)
<1>1. /\ Chain(d)' = Chain(d) /\ Chain(d) \subseteq Issued
      /\ \A k \in Issued : grants'[k] = grants[k]
  BY ChainStable, ChainClosed, IssuedGrows
<1>2. Authorises(grants[d].root_intent_id)
  <2>1. PICK i \in IntentId : i = grants[d].root_intent_id /\ Exists(i)
    BY DEF DelegationTypeOK, Issued, Grant, RootsExist
  <2>2. grants'[d].root_intent_id = i
    BY <1>1, <2>1
  <2>3. Authorises(i)'
    BY <2>2 DEF Usable, Authorises
  <2>4. Authorises(i)
    BY <2>1, <2>3, TableStep, ContractNeverRevived DEF DelegationTypeOK
  <2> QED BY <2>1, <2>4
<1>3. /\ now \in Nat /\ now' \in Nat /\ now <= now'
      /\ \A k \in DelegationId : /\ executed[k] <= executed'[k]
                                 /\ status'[k] = "ACTIVE" => status[k] = "ACTIVE"
  <2>1. now \in Nat /\ now' \in Nat /\ now <= now'
    BY TableStep DEF IntentNext, intent_vars, DelegationTypeOK, IntentTypeOK, CreateIntent,
       GetIntent, GetIntentForSession, RevokeIntent, NarrowIntent, ReserveToolExecution, Tick
  <2>3. \A k \in DelegationId : executed[k] <= executed'[k]
    BY ExecutedGrows
  <2>4. ASSUME NEW e \in DelegationId, NEW by \in Principals, RevokeDelegation(e, by)
        PROVE  status' \in {status, [status EXCEPT ![e] = "REVOKED"]}
    BY <2>4 DEF RevokeDelegation
  <2>5. ASSUME NEW e \in DelegationId, NEW by \in Principals, CloseDelegation(e, by)
        PROVE  status' = [status EXCEPT ![e] = "CLOSED"]
    BY <2>5 DEF CloseDelegation
  <2>6. \/ status' = status
        \/ \E e \in DelegationId, by \in Principals : RevokeDelegation(e, by)
        \/ \E e \in DelegationId, by \in Principals : CloseDelegation(e, by)
    BY DEF DelegationNext, delegation_vars, store_vars, BeginPropose, Reject, BeginResolve,
       Finish, IssueDirectly, AskApproval, Deny, IssueApproved, FindStale, CreateGrant,
       ReserveActionDispatch, StopTrajectory, IntentStep
  <2>7. \A k \in DelegationId : status'[k] = "ACTIVE" => status[k] = "ACTIVE"
    BY <2>4, <2>5, <2>6 DEF DelegationTypeOK
  <2> QED BY <2>1, <2>3, <2>7
<1>4. ASSUME NEW k \in Chain(d) PROVE GrantLive(k)
  <2>1. GrantLive(k)'
    BY <1>1, <1>4 DEF Usable
  <2>2. /\ k \in DelegationId /\ grants'[k] = grants[k] /\ grants[k] \in Grant
        /\ executed[k] \in Nat /\ executed'[k] \in Nat
    BY <1>1, <1>4, DelegationTypeStep DEF DelegationTypeOK, Issued
  <2>3. /\ status'[k] = "ACTIVE" /\ now' < grants[k].expires_at
        /\ executed'[k] < grants[k].max_actions
    BY <2>1, <2>2 DEF GrantLive
  <2>4. grants[k].expires_at \in Int /\ grants[k].max_actions \in Nat
    BY <2>2 DEF Grant
  <2> QED BY <1>3, <2>2, <2>3, <2>4 DEF GrantLive
<1> QED BY <1>2, <1>4 DEF Usable, Authorises

(* Once revoked, closed, spent or expired, itself or through any ancestor  *)
(* or its contract, a grant is never usable again: nothing the service,    *)
(* the store or the IntentService does can bring it back.                  *)
THEOREM NeverRegainedSafe == DelegationSpec => NeverRegained
<1>1. DelegationInit => RootsExist
  BY DEF DelegationInit, RootsExist, Issued
<1>2. DelegationTypeOK /\ RootsExist /\ [DelegationNext]_delegation_vars => RootsExist'
  BY RootsExistStep
<1>3. DelegationTypeOK /\ LineageKnown /\ RootsExist /\ [DelegationNext]_delegation_vars
        => [\A d \in Issued : Usable(d)' => Usable(d)]_delegation_vars
  BY NeverRegainedStep
<1>4. LineageInv => DelegationTypeOK /\ LineageKnown
  BY DEF LineageInv
<1> QED BY <1>1, <1>2, <1>3, <1>4, LineageInvariant, PTL DEF DelegationSpec, NeverRegained
-----------------------------------------------------------------------------
(* What the call that issues a grant found: the decision on a direct       *)
(* proposal, the live revalidation on an approved one.                     *)
LEMMA IssuedByCall ==
  ASSUME DelegationTypeOK, [DelegationNext]_delegation_vars,
         NEW d \in DelegationId, NEW g \in Grant, Issues(d, g)
  PROVE  /\ g.request = None => Deciding(holder)
         /\ g.request # None =>
              Revalidated(holder.proposal, holder.principal, holder.root, holder.seen)
         /\ \E left \in Int :
              g = NewGrant(holder.proposal, holder.root, holder.seen, left, holder.request)
<1>1. grants' # grants
  BY DelegationAssumption DEF Issues, Issued, DelegationTypeOK
<1>2. ASSUME NEW h, CreateGrant(h) PROVE g = h
  <2>1. PICK e \in DelegationId \ Issued : grants' = [grants EXCEPT ![e] = h]
    BY <1>2 DEF CreateGrant
  <2>2. /\ grants \in [DelegationId -> Grant \cup {NoGrant}] /\ g # NoGrant
        /\ grants[d] = NoGrant /\ grants' = [grants EXCEPT ![d] = g]
    BY DelegationAssumption DEF Issues, Issued, DelegationTypeOK
  <2> QED BY <2>1, <2>2
<1>3. holder # Idle /\ g.request = holder.request
  BY DEF Issues
<1>4. CASE IssueDirectly(holder)
  BY <1>2, <1>3, <1>4, CallTypes DEF IssueDirectly, Proposing
<1>5. CASE IssueApproved(holder)
  BY <1>2, <1>3, <1>5, CallTypes DEF IssueApproved, Proposing
<1>6. Finish
  BY <1>1 DEF DelegationNext, BeginPropose, Reject, BeginResolve, RevokeDelegation,
       CloseDelegation, ReserveActionDispatch, StopTrajectory, IntentStep, store_vars,
       delegation_vars
<1>7. IssueDirectly(holder) \/ IssueApproved(holder)
  BY <1>1, <1>6 DEF Finish, AskApproval, Deny, FindStale, store_vars
<1> QED BY <1>4, <1>5, <1>7

(* The chain of a new grant is the grant and the chain of its parent.      *)
LEMMA ChainOfNew ==
  ASSUME DelegationTypeOK, LineageKnown, [DelegationNext]_delegation_vars,
         NEW d \in DelegationId, NEW g \in Grant, Issues(d, g)
  PROVE  Chain(d)' = {d} \cup IF g.parent_delegation_id \in Issued
                                THEN Chain(g.parent_delegation_id) ELSE {}
<1> DEFINE p == g.parent_delegation_id
           C == IF p \in Issued THEN Chain(p) ELSE {}
<1>1. /\ Issued' = Issued \cup {d} /\ d \notin Issued /\ grants'[d] = g
      /\ \A k \in Issued : grants'[k] = grants[k]
  BY IssuedAfter DEF Issues
<1>2. p \in Issued' <=> p \in Issued
  BY <1>1, DelegationAssumption DEF Issues, LineageKnown, Known
<1>3. /\ C \subseteq Issued
      /\ p \in Issued => p \in C
      /\ \A k \in C : grants[k].parent_delegation_id \in Issued
                        => grants[k].parent_delegation_id \in C
  BY ChainClosed DEF UpClosed
<1>4. \A k \in Issued : grants[k].parent_delegation_id \in Issued'
                          => grants[k].parent_delegation_id \in Issued
  BY <1>1, DelegationAssumption DEF Issues, LineageKnown, Known
<1> HIDE DEF C
<1>5. ({d} \cup C) \in SUBSET Issued'
  BY <1>1, <1>3
<1>6. \A k \in {d} \cup C : grants'[k].parent_delegation_id \in Issued'
                              => grants'[k].parent_delegation_id \in {d} \cup C
  BY <1>1, <1>2, <1>3, <1>4
<1>7. \A k \in Chain(d)' : k \in {d} \cup C
  <2> SUFFICES ASSUME NEW k \in Chain(d)' PROVE k \in {d} \cup C
    OBVIOUS
  <2>1. \A S \in SUBSET Issued' :
          /\ d \in S
          /\ \A l \in S : grants'[l].parent_delegation_id \in Issued'
                            => grants'[l].parent_delegation_id \in S
          => k \in S
    BY DEF Chain, UpClosed
  <2> QED BY <1>5, <1>6, <2>1
<1>8. ASSUME NEW k \in {d} \cup C PROVE k \in Chain(d)'
  <2> SUFFICES ASSUME NEW S \in SUBSET Issued', d \in S,
                      \A l \in S : grants'[l].parent_delegation_id \in Issued'
                                     => grants'[l].parent_delegation_id \in S
               PROVE  k \in S
    BY <1>1, <1>3, <1>8 DEF Chain, UpClosed
  <2>1. CASE k = d
    BY <2>1
  <2>2. CASE k \in C
    <3>1. p \in Issued /\ p \in S /\ k \in Chain(p)
      BY <1>1, <2>2 DEF C
    <3>2. UpClosed(S \cap Issued)
      BY <1>1 DEF UpClosed
    <3>3. Chain(p) \subseteq S \cap Issued
      BY <3>1, <3>2, ChainClosed
    <3> QED BY <3>1, <3>3
  <2> QED BY <1>8, <2>1, <2>2
<1> QED BY <1>7, <1>8 DEF C

(* The chain a step leaves behind: that of an old grant is as it was, that *)
(* of a new one extends its parent's.                                      *)
LEMMA ChainsAfter ==
  ASSUME DelegationTypeOK, LineageKnown, [DelegationNext]_delegation_vars, NEW d \in Issued'
  PROVE  \/ /\ d \in Issued /\ Chain(d)' = Chain(d)
            /\ \A k \in Chain(d) : k \in Issued /\ grants'[k] = grants[k]
         \/ /\ d \in DelegationId \ Issued
            /\ \E g \in Grant :
                 /\ Issues(d, g) /\ grants'[d] = g
                 /\ Chain(d)' = {d} \cup IF g.parent_delegation_id \in Issued
                                           THEN Chain(g.parent_delegation_id) ELSE {}
            /\ \A k \in Issued : grants'[k] = grants[k]
<1>1. CASE d \in Issued
  BY <1>1, ChainStable, ChainClosed, IssuedGrows
<1>2. CASE d \notin Issued
  <2>1. PICK e \in DelegationId, g \in Grant : Issues(e, g)
    BY <1>2, StoreStep DEF Issued
  <2>2. d = e /\ grants'[d] = g /\ \A k \in Issued : grants'[k] = grants[k]
    BY <1>2, <2>1, IssuedAfter
  <2>3. Chain(d)' = {d} \cup IF g.parent_delegation_id \in Issued
                               THEN Chain(g.parent_delegation_id) ELSE {}
    BY <2>1, <2>2, ChainOfNew
  <2> QED BY <1>2, <2>1, <2>2, <2>3
<1> QED BY <1>1, <1>2

-----------------------------------------------------------------------------
(* A proposal hands authority back when its delegatee already is one in    *)
(* the chain it extends.  The direct path looks for it when it decides; an *)
(* approval does not look again, and need not: the chain is as it was.     *)
HandsBack(p) ==
  /\ ParentIssued(p)
  /\ \E k \in Chain(p.parent_delegation_id) :
       grants[k].delegatee_agent_id = p.delegatee_agent_id

RequestsFresh ==
  /\ holder # Idle /\ ~Proposing(holder) => ~HandsBack(holder.proposal)
  /\ \A r \in RequestId : pending[r] # NoRequest => ~HandsBack(pending[r].proposal)

LEMMA DecidedNotBack ==
  ASSUME Deciding(holder)
  PROVE  ~HandsBack(holder.proposal)
BY DEF Deciding, MayDelegate, HandsBack, Lineage

LEMMA HandsBackStable ==
  ASSUME DelegationTypeOK, LineageKnown, [DelegationNext]_delegation_vars,
         NEW p, Known(p.parent_delegation_id), ~HandsBack(p)
  PROVE  ~HandsBack(p)'
<1> DEFINE q == p.parent_delegation_id
<1> SUFFICES ASSUME q \in Issued', NEW k \in Chain(q)'
             PROVE  grants'[k].delegatee_agent_id # p.delegatee_agent_id
  BY DEF HandsBack, ParentIssued
<1>1. q \in Issued
  BY DelegationAssumption DEF Known, Issued
<1>2. Chain(q)' = Chain(q) /\ k \in Issued /\ grants'[k] = grants[k]
  BY <1>1, ChainStable, ChainClosed, IssuedGrows
<1> QED BY <1>1, <1>2 DEF HandsBack, ParentIssued

LEMMA CallsFresh ==
  ASSUME DelegationTypeOK, RequestsFresh, [DelegationNext]_delegation_vars
  PROVE  /\ holder' # Idle /\ ~Proposing(holder') => ~HandsBack(holder'.proposal)
         /\ \A r \in RequestId :
              pending'[r] # NoRequest => ~HandsBack(pending'[r].proposal)
<1> USE DEF RequestsFresh
<1>1. ASSUME NEW by \in Principals, NEW p \in Proposals, BeginPropose(by, p)
      PROVE  Proposing(holder') /\ pending' = pending
  BY <1>1 DEF BeginPropose, Acquire, Proposing
<1>2. ASSUME NEW r \in RequestId, NEW by \in Principals, BeginResolve(r, by)
      PROVE  ~HandsBack(holder'.proposal) /\ pending' = pending
  BY <1>2 DEF BeginResolve, Acquire
<1>3. CASE Finish
  <2>1. holder # Idle /\ holder' = Idle
    BY <1>3 DEF Finish
  <2>2. CASE AskApproval(holder)
    <3>1. ~HandsBack(holder.proposal)
      BY <2>2, DecidedNotBack DEF AskApproval
    <3> QED BY <2>1, <2>2, <3>1 DEF AskApproval, DelegationTypeOK
  <2>3. CASE ~AskApproval(holder)
    BY <1>3, <2>1, <2>3
       DEF Finish, IssueDirectly, Deny, IssueApproved, FindStale, Forget, DelegationTypeOK
  <2> QED BY <2>1, <2>2, <2>3
<1>4. ASSUME NEW r \in RequestId, Reject(r)
      PROVE  /\ holder' = holder
             /\ \A q \in RequestId : pending'[q] \in {pending[q], NoRequest}
  BY <1>4 DEF Reject, DelegationTypeOK
<1>5. CASE \/ \E d \in DelegationId, by \in Principals : RevokeDelegation(d, by)
           \/ \E d \in DelegationId, by \in Principals : CloseDelegation(d, by)
           \/ \E d \in DelegationId : ReserveActionDispatch(d)
           \/ \E i \in IntentId, a \in Agent : StopTrajectory(i, a)
           \/ IntentStep
           \/ UNCHANGED delegation_vars
  <2>1. UNCHANGED <<holder, pending>>
    BY <1>5 DEF RevokeDelegation, CloseDelegation, ReserveActionDispatch, StopTrajectory,
         IntentStep, delegation_vars
  <2> QED BY <2>1
<1> QED BY <1>1, <1>2, <1>3, <1>4, <1>5 DEF DelegationNext

LEMMA RequestsFreshStep ==
  ASSUME DelegationTypeOK, LineageKnown, RequestsFresh, [DelegationNext]_delegation_vars
  PROVE  RequestsFresh'
<1>1. \A p : Known(p.parent_delegation_id) /\ ~HandsBack(p) => ~HandsBack(p)'
  BY HandsBackStable
<1> QED BY <1>1, CallsKnown, CallsFresh DEF RequestsFresh, Proposing

LEMMA NoDelegationLoopStep ==
  ASSUME DelegationTypeOK, LineageKnown, RequestsFresh, NoDelegationLoop,
         [DelegationNext]_delegation_vars
  PROVE  NoDelegationLoop'
<1> SUFFICES ASSUME NEW d \in Issued', NEW k \in Chain(d)', NEW l \in Chain(d)', k # l
             PROVE  grants'[k].delegatee_agent_id # grants'[l].delegatee_agent_id
  BY DEF NoDelegationLoop
<1>1. CASE /\ d \in Issued /\ Chain(d)' = Chain(d)
           /\ \A j \in Chain(d) : j \in Issued /\ grants'[j] = grants[j]
  BY <1>1 DEF NoDelegationLoop
<1>2. ASSUME NEW g \in Grant, d \in DelegationId \ Issued, Issues(d, g), grants'[d] = g,
             Chain(d)' = {d} \cup IF g.parent_delegation_id \in Issued
                                    THEN Chain(g.parent_delegation_id) ELSE {},
             \A j \in Issued : grants'[j] = grants[j]
      PROVE  grants'[k].delegatee_agent_id # grants'[l].delegatee_agent_id
  <2> DEFINE q == g.parent_delegation_id
  <2>1. ~HandsBack(holder.proposal)
    BY <1>2, IssuedByCall, DecidedNotBack DEF Issues, RequestsFresh, Proposing
  <2>2. /\ g.delegatee_agent_id = holder.proposal.delegatee_agent_id
        /\ q = holder.proposal.parent_delegation_id
    <3>1. PICK left \in Int :
            g = NewGrant(holder.proposal, holder.root, holder.seen, left, holder.request)
      BY <1>2, IssuedByCall
    <3> QED BY <3>1 DEF NewGrant
  <2>3. ASSUME q \in Issued, NEW j \in Chain(q)
        PROVE  /\ j \in Issued /\ grants'[j] = grants[j]
               /\ grants[j].delegatee_agent_id # g.delegatee_agent_id
    BY <1>2, <2>1, <2>2, <2>3, ChainClosed DEF HandsBack, ParentIssued
  <2>4. q \in Issued => \A i, j \in Chain(q) :
          i # j => grants[i].delegatee_agent_id # grants[j].delegatee_agent_id
    BY DEF NoDelegationLoop
  <2> QED BY <1>2, <2>3, <2>4
<1> QED BY <1>1, <1>2, ChainsAfter

(* No chain of delegation comes back to an agent it went through, also     *)
(* when grants are issued while a request to extend the chain waits for    *)
(* its approval and nobody looks at the lineage again.                     *)
THEOREM NoDelegationLoopSafe == DelegationSpec => []NoDelegationLoop
<1>1. DelegationInit => RequestsFresh /\ NoDelegationLoop
  BY DEF DelegationInit, RequestsFresh, NoDelegationLoop, Issued
<1>2. DelegationTypeOK /\ LineageKnown /\ RequestsFresh /\ NoDelegationLoop
        /\ [DelegationNext]_delegation_vars => RequestsFresh' /\ NoDelegationLoop'
  BY RequestsFreshStep, NoDelegationLoopStep
<1>3. LineageInv => DelegationTypeOK /\ LineageKnown
  BY DEF LineageInv
<1> QED BY <1>1, <1>2, <1>3, LineageInvariant, PTL DEF DelegationSpec

-----------------------------------------------------------------------------
(* A grant issued on approval, and the chain it hangs under.               *)
LEMMA ApprovedChain ==
  ASSUME DelegationTypeOK, [DelegationNext]_delegation_vars,
         NEW d \in DelegationId, NEW g \in Grant, Issues(d, g), g.request # None
  PROVE  /\ g.parent_delegation_id \in Issued \cup {None}
         /\ g.delegator_agent_id = holder.proposal.delegator_agent_id
         /\ <<g.root_intent_id, g.delegator_agent_id>> \notin stopped
         /\ g.parent_delegation_id \in Issued =>
              \A k \in Chain(g.parent_delegation_id) :
                /\ grants[k].parent_delegation_id \in Issued \cup {None}
                /\ grants[k].root_intent_id = g.root_intent_id
                /\ GrantLive(k)
<1> DEFINE p == holder.proposal
<1>1. Revalidated(p, holder.principal, holder.root, holder.seen)
  BY IssuedByCall
<1>2. PICK left \in Int : g = NewGrant(p, holder.root, holder.seen, left, holder.request)
  BY IssuedByCall
<1>3. /\ g.parent_delegation_id = p.parent_delegation_id
      /\ g.delegator_agent_id = p.delegator_agent_id /\ g.root_intent_id = holder.root
  BY <1>2 DEF NewGrant
<1>4. p.parent_delegation_id # None =>
        p.parent_delegation_id \in Issued /\ SoundLineage(p, holder.root, holder.seen)
  BY <1>1 DEF Revalidated, ParentIssued
<1>5. None \notin Issued
  BY DelegationAssumption DEF Issued
<1> QED BY <1>1, <1>3, <1>4, <1>5 DEF Revalidated, SoundLineage

LEMMA ApprovedLineageStep ==
  ASSUME DelegationTypeOK, LineageKnown, ApprovedLineageSound,
         [DelegationNext]_delegation_vars
  PROVE  ApprovedLineageSound'
<1> SUFFICES ASSUME NEW d \in Issued', grants'[d].request # None, NEW k \in Chain(d)'
             PROVE  /\ grants'[k].root_intent_id = grants'[d].root_intent_id
                    /\ grants'[k].parent_delegation_id \in Issued' \cup {None}
  BY DEF ApprovedLineageSound
<1>1. Issued \subseteq Issued'
  BY IssuedGrows
<1>2. CASE /\ d \in Issued /\ Chain(d)' = Chain(d)
           /\ \A j \in Chain(d) : j \in Issued /\ grants'[j] = grants[j]
  <2>1. grants'[d] = grants[d]
    BY <1>2, ChainClosed
  <2> QED BY <1>1, <1>2, <2>1 DEF ApprovedLineageSound
<1>3. ASSUME NEW g \in Grant, d \in DelegationId \ Issued, Issues(d, g), grants'[d] = g,
             Chain(d)' = {d} \cup IF g.parent_delegation_id \in Issued
                                    THEN Chain(g.parent_delegation_id) ELSE {},
             \A j \in Issued : grants'[j] = grants[j]
      PROVE  /\ grants'[k].root_intent_id = grants'[d].root_intent_id
             /\ grants'[k].parent_delegation_id \in Issued' \cup {None}
  <2>1. CASE k = d
    BY <1>1, <1>3, <2>1, ApprovedChain
  <2>2. CASE k # d
    <3>1. g.parent_delegation_id \in Issued /\ k \in Chain(g.parent_delegation_id)
      <4>1. k \in {d} \cup IF g.parent_delegation_id \in Issued
                           THEN Chain(g.parent_delegation_id) ELSE {}
        BY <1>3
      <4> QED BY <2>2, <4>1
    <3>2. k \in Issued /\ grants'[k] = grants[k]
      BY <1>3, <3>1, ChainClosed
    <3>3. /\ grants[k].root_intent_id = g.root_intent_id
          /\ grants[k].parent_delegation_id \in Issued \cup {None}
      <4>1. g.request # None
        BY <1>3
      <4> QED BY <1>3, <3>1, <4>1, ApprovedChain
    <3> QED BY <1>1, <1>3, <3>2, <3>3
  <2> QED BY <2>1, <2>2
<1> QED BY <1>2, <1>3, ChainsAfter

(* A grant issued on approval hangs, through all of its ancestors, under   *)
(* the contract its request was made under.                                *)
THEOREM ApprovedLineageSafe == DelegationSpec => []ApprovedLineageSound
<1>1. DelegationInit => ApprovedLineageSound
  BY DEF DelegationInit, ApprovedLineageSound, Issued
<1>2. DelegationTypeOK /\ LineageKnown /\ ApprovedLineageSound
        /\ [DelegationNext]_delegation_vars => ApprovedLineageSound'
  BY ApprovedLineageStep
<1>3. LineageInv => DelegationTypeOK /\ LineageKnown
  BY DEF LineageInv
<1> QED BY <1>1, <1>2, <1>3, LineageInvariant, PTL DEF DelegationSpec

LEMMA ApprovalStep ==
  ASSUME DelegationTypeOK, LineageKnown, [DelegationNext]_delegation_vars,
         NEW d \in DelegationId \ Issued, d \in Issued', grants[d]'.request # None
  PROVE  /\ \A k \in Chain(d)' \ {d} : GrantLive(k)
         /\ <<grants[d]'.root_intent_id, grants[d]'.delegator_agent_id>> \notin stopped
<1>1. PICK g \in Grant :
        /\ Issues(d, g) /\ grants'[d] = g
        /\ Chain(d)' = {d} \cup IF g.parent_delegation_id \in Issued
                                  THEN Chain(g.parent_delegation_id) ELSE {}
  BY ChainsAfter
<1>2. ASSUME NEW k \in Chain(d)' \ {d} PROVE GrantLive(k)
  BY <1>1, <1>2, ApprovedChain
<1> QED BY <1>1, <1>2, ApprovedChain

(* Whatever happened while a request waited, the grant it becomes hangs    *)
(* under grants that are live at that instant, and its delegator is not    *)
(* quarantined.                                                            *)
THEOREM ApprovalNotStaleSafe == DelegationSpec => ApprovalNotStale
<1>1. LineageInv => DelegationTypeOK /\ LineageKnown
  BY DEF LineageInv
<1>2. DelegationTypeOK /\ LineageKnown /\ [DelegationNext]_delegation_vars
        => [\A d \in DelegationId \ Issued : d \in Issued' /\ grants[d]'.request # None =>
              /\ \A k \in Chain(d)' \ {d} : GrantLive(k)
              /\ <<grants[d]'.root_intent_id, grants[d]'.delegator_agent_id>>
                   \notin stopped]_delegation_vars
  BY ApprovalStep
<1> QED BY <1>1, <1>2, LineageInvariant, PTL DEF DelegationSpec, ApprovalNotStale

-----------------------------------------------------------------------------
(* The depth a new grant is given: one more than its parent's, which had   *)
(* the right to delegate and levels left to give.                          *)
LEMMA DepthOfNew ==
  ASSUME DelegationTypeOK, [DelegationNext]_delegation_vars,
         NEW d \in DelegationId, NEW g \in Grant, Issues(d, g)
  PROVE  LET q == g.parent_delegation_id
         IN  IF q \in Issued
               THEN /\ g.depth = grants[q].depth + 1 /\ g.depth <= MaxDepth
                    /\ grants[q].allow_subdelegation
                    /\ g.remaining_subdelegation_depth
                         < grants[q].remaining_subdelegation_depth
               ELSE g.depth = 1
<1> DEFINE p == holder.proposal
           q == g.parent_delegation_id
<1>1. PICK left \in Int : g = NewGrant(p, holder.root, holder.seen, left, holder.request)
  BY IssuedByCall
<1>2. q = p.parent_delegation_id
  BY <1>1 DEF NewGrant
<1>3. CASE q \notin Issued
  BY <1>1, <1>2, <1>3 DEF NewGrant, ParentIssued
<1>4. CASE q \in Issued
  <2>1. /\ ParentIssued(p) /\ Parent(p) = grants[q]
        /\ q # None /\ grants[q] \in Grant
    BY <1>2, <1>4, DelegationAssumption DEF ParentIssued, Parent, Issued, DelegationTypeOK
  <2>2. /\ grants[q].depth \in Nat /\ grants[q].remaining_subdelegation_depth \in Nat
        /\ MaxDepth \in Nat
    BY <2>1, DelegationAssumption DEF Grant
  <2>3. /\ grants[q].remaining_subdelegation_depth > 0
        /\ grants[q].depth + 1 <= MaxDepth /\ grants[q].allow_subdelegation
    <3>1. CASE Deciding(holder)
      BY <2>1, <3>1 DEF Deciding, MayDelegate, DepthWithinLimits
    <3>2. CASE Revalidated(p, holder.principal, holder.root, holder.seen)
      <4>1. SoundLineage(p, holder.root, holder.seen)
        BY <1>2, <2>1, <3>2 DEF Revalidated
      <4>2. q \in Chain(q)
        BY <1>4, ChainClosed
      <4> QED BY <1>2, <2>1, <4>1, <4>2 DEF SoundLineage
    <3> QED BY <3>1, <3>2, IssuedByCall
  <2>4. g.depth = grants[q].depth + 1
    BY <1>1, <2>1 DEF NewGrant
  <2>5. \/ g.remaining_subdelegation_depth = 0
        \/ g.remaining_subdelegation_depth
             = AtLeast0(grants[q].remaining_subdelegation_depth - 1)
    BY <1>1, <2>1 DEF NewGrant
  <2> QED BY <1>4, <2>2, <2>3, <2>4, <2>5 DEF AtLeast0
<1> QED BY <1>3, <1>4

(* Chains are finite, which their definition as least sets does not say.   *)
ChainsFinite == \A d \in Issued : IsFiniteSet(Chain(d))

LEMMA DepthSoundStep ==
  ASSUME DelegationTypeOK, LineageKnown, ChainsFinite, DepthSound, MaxDepth # 0,
         [DelegationNext]_delegation_vars
  PROVE  ChainsFinite' /\ DepthSound'
<1> SUFFICES ASSUME NEW d \in Issued'
             PROVE  /\ IsFiniteSet(Chain(d)')
                    /\ grants'[d].depth = Cardinality(Chain(d)')
                    /\ grants'[d].depth <= MaxDepth
                    /\ \A k \in Chain(d)' \ {d} :
                         /\ grants'[k].allow_subdelegation
                         /\ grants'[d].remaining_subdelegation_depth
                              < grants'[k].remaining_subdelegation_depth
  BY DEF ChainsFinite, DepthSound
<1>1. CASE /\ d \in Issued /\ Chain(d)' = Chain(d)
           /\ \A j \in Chain(d) : j \in Issued /\ grants'[j] = grants[j]
  <2>1. grants'[d] = grants[d]
    BY <1>1, ChainClosed
  <2> QED BY <1>1, <2>1 DEF ChainsFinite, DepthSound
<1>2. ASSUME NEW g \in Grant, d \in DelegationId \ Issued, Issues(d, g), grants'[d] = g,
             Chain(d)' = {d} \cup IF g.parent_delegation_id \in Issued
                                    THEN Chain(g.parent_delegation_id) ELSE {},
             \A j \in Issued : grants'[j] = grants[j]
      PROVE  /\ IsFiniteSet(Chain(d)')
             /\ grants'[d].depth = Cardinality(Chain(d)')
             /\ grants'[d].depth <= MaxDepth
             /\ \A k \in Chain(d)' \ {d} :
                  /\ grants'[k].allow_subdelegation
                  /\ grants'[d].remaining_subdelegation_depth
                       < grants'[k].remaining_subdelegation_depth
  <2> DEFINE q == g.parent_delegation_id
  <2>1. CASE q \notin Issued
    <3>1. Chain(d)' = {d}
      BY <1>2, <2>1
    <3>2. g.depth = 1
      BY <1>2, <2>1, DepthOfNew
    <3>3. IsFiniteSet({d}) /\ Cardinality({d}) = 1
      BY FS_Singleton
    <3> QED BY <1>2, <3>1, <3>2, <3>3, DelegationAssumption
  <2>2. CASE q \in Issued
    <3>1. /\ Chain(d)' = Chain(q) \cup {d} /\ d \notin Chain(q)
          /\ \A k \in Chain(q) : k \in Issued /\ grants'[k] = grants[k]
      BY <1>2, <2>2, ChainClosed
    <3>2. /\ IsFiniteSet(Chain(q)) /\ grants[q].depth = Cardinality(Chain(q))
          /\ \A k \in Chain(q) \ {q} :
               /\ grants[k].allow_subdelegation
               /\ grants[q].remaining_subdelegation_depth
                    < grants[k].remaining_subdelegation_depth
      BY <2>2 DEF ChainsFinite, DepthSound
    <3>3. /\ g.depth = grants[q].depth + 1 /\ g.depth <= MaxDepth
          /\ grants[q].allow_subdelegation
          /\ g.remaining_subdelegation_depth < grants[q].remaining_subdelegation_depth
      BY <1>2, <2>2, DepthOfNew
    <3>4. /\ IsFiniteSet(Chain(q) \cup {d})
          /\ Cardinality(Chain(q) \cup {d}) = Cardinality(Chain(q)) + 1
      BY <3>1, <3>2, FS_AddElement
    <3>5. \A k \in Issued : grants[k].remaining_subdelegation_depth \in Nat
      BY DEF DelegationTypeOK, Issued, Grant
    <3>6. g.remaining_subdelegation_depth \in Nat
      BY DEF Grant
    <3>7. ASSUME NEW k \in Chain(q)
          PROVE  /\ grants'[k].allow_subdelegation
                 /\ g.remaining_subdelegation_depth < grants'[k].remaining_subdelegation_depth
      <4>1. CASE k = q
        BY <3>1, <3>3, <4>1
      <4>2. CASE k # q
        BY <2>2, <3>1, <3>2, <3>3, <3>5, <3>6, <4>2
      <4> QED BY <4>1, <4>2
    <3> QED BY <1>2, <3>1, <3>2, <3>3, <3>4, <3>7
  <2> QED BY <2>1, <2>2
<1> QED BY <1>1, <1>2, ChainsAfter

(* Under any limit but zero, which a root grant exceeds when its proposal  *)
(* asks for depth 0, the depth recorded in a grant is the length of its    *)
(* chain and within the limit, and every ancestor had the right to         *)
(* delegate and more levels left than the grants below it.                 *)
THEOREM DepthSoundSafe ==
  ASSUME MaxDepth # 0
  PROVE  DelegationSpec => []DepthSound
<1>1. DelegationInit => ChainsFinite /\ DepthSound
  BY DEF DelegationInit, ChainsFinite, DepthSound, Issued
<1>2. DelegationTypeOK /\ LineageKnown /\ ChainsFinite /\ DepthSound
        /\ [DelegationNext]_delegation_vars => ChainsFinite' /\ DepthSound'
  BY DepthSoundStep
<1>3. LineageInv => DelegationTypeOK /\ LineageKnown
  BY DEF LineageInv
<1> QED BY <1>1, <1>2, <1>3, LineageInvariant, PTL DEF DelegationSpec

-----------------------------------------------------------------------------
(* A chain is a line: no grant of a chain is the parent of two others, and *)
(* none of them has the grant at the bottom as its parent.                 *)
Children(d) == {k \in Issued : grants[k].parent_delegation_id = d}

ChainsAreLines ==
  \A d \in Issued :
    /\ \A k, l \in Chain(d) :
         /\ grants[k].parent_delegation_id \in Issued
         /\ grants[k].parent_delegation_id = grants[l].parent_delegation_id
         => k = l
    /\ \A k \in Chain(d) : grants[k].parent_delegation_id # d

LEMMA ChainsAreLinesStep ==
  ASSUME DelegationTypeOK, LineageKnown, ChainsAreLines, [DelegationNext]_delegation_vars
  PROVE  ChainsAreLines'
<1> SUFFICES ASSUME NEW d \in Issued'
             PROVE  /\ \A k, l \in Chain(d)' :
                         /\ grants'[k].parent_delegation_id \in Issued'
                         /\ grants'[k].parent_delegation_id = grants'[l].parent_delegation_id
                         => k = l
                    /\ \A k \in Chain(d)' : grants'[k].parent_delegation_id # d
  BY DEF ChainsAreLines
<1>1. \A k \in Issued : grants[k].parent_delegation_id \in Issued \cup {None, UnknownGrant}
  BY DEF LineageKnown, Known
<1>2. /\ Issued \subseteq DelegationId /\ Issued' \subseteq DelegationId
      /\ None \notin DelegationId /\ UnknownGrant \notin DelegationId
  BY DelegationAssumption DEF Issued
<1>3. CASE /\ d \in Issued /\ Chain(d)' = Chain(d)
           /\ \A j \in Chain(d) : j \in Issued /\ grants'[j] = grants[j]
  BY <1>1, <1>2, <1>3 DEF ChainsAreLines
<1>4. ASSUME NEW g \in Grant, d \in DelegationId \ Issued, Issues(d, g), grants'[d] = g,
             Chain(d)' = {d} \cup IF g.parent_delegation_id \in Issued
                                    THEN Chain(g.parent_delegation_id) ELSE {},
             \A j \in Issued : grants'[j] = grants[j]
      PROVE  /\ \A k, l \in Chain(d)' :
                  /\ grants'[k].parent_delegation_id \in Issued'
                  /\ grants'[k].parent_delegation_id = grants'[l].parent_delegation_id
                  => k = l
             /\ \A k \in Chain(d)' : grants'[k].parent_delegation_id # d
  <2> DEFINE q == g.parent_delegation_id
  <2>1. q \in Issued \cup {None, UnknownGrant}
    BY <1>4 DEF Issues, LineageKnown, Known
  <2>2. q \in Issued => /\ \A k \in Chain(q) : k \in Issued /\ grants'[k] = grants[k]
                        /\ \A k \in Chain(q) : grants[k].parent_delegation_id # q
                        /\ \A k, l \in Chain(q) :
                             /\ grants[k].parent_delegation_id \in Issued
                             /\ grants[k].parent_delegation_id = grants[l].parent_delegation_id
                             => k = l
    BY <1>4, ChainClosed DEF ChainsAreLines
  <2>3. \A k \in Chain(d)' : grants'[k].parent_delegation_id # d
    BY <1>1, <1>2, <1>4, <2>1, <2>2
  <2>4. ASSUME NEW k \in Chain(d)', NEW l \in Chain(d)',
               grants'[k].parent_delegation_id \in Issued',
               grants'[k].parent_delegation_id = grants'[l].parent_delegation_id
        PROVE  k = l
    <3>1. Issued' = Issued \cup {d}
      BY <1>4, IssuedAfter
    <3>2. CASE q \notin Issued
      BY <1>4, <2>4, <3>2
    <3>3. CASE q \in Issued
      <4>1. grants'[k].parent_delegation_id \in Issued
        BY <1>1, <1>2, <1>4, <2>1, <2>2, <2>4, <3>1, <3>3
      <4> QED BY <1>4, <2>2, <2>4, <3>3, <4>1
    <3> QED BY <3>2, <3>3
  <2> QED BY <2>3, <2>4
<1> QED BY <1>3, <1>4, ChainsAfter

-----------------------------------------------------------------------------
(* What the budget invariant rests on: finitely many grants, and nothing   *)
(* spent on an id before a grant has it.                                   *)
StoreFinite == IsFiniteSet(Issued) /\ \A d \in DelegationId \ Issued : executed[d] = 0

Budgeted(d) ==
  /\ executed[d] <= grants[d].max_actions
  /\ SumOf(executed, Children(d)) <= executed[d]

LEMMA BudgetSharedIsBudgeted == BudgetShared <=> \A d \in Issued : Budgeted(d)
BY DEF BudgetShared, Budgeted, SumOf, Children

LEMMA ChildrenFinite ==
  ASSUME DelegationTypeOK, StoreFinite, NEW d
  PROVE  IsFiniteSet(Children(d)) /\ Naturals(executed, Children(d))
<1>1. Children(d) \subseteq Issued
  BY DEF Children
<1>2. IsFiniteSet(Children(d))
  BY <1>1, FS_Subset DEF StoreFinite
<1> QED BY <1>1, <1>2 DEF Naturals, DelegationTypeOK, Issued

(* The two steps the budget depends on: one that spends, one that issues.  *)
LEMMA BudgetAfterDispatch ==
  ASSUME DelegationTypeOK, StoreFinite, ChainsAreLines, NEW d \in DelegationId,
         ReserveActionDispatch(d), NEW e \in Issued, Budgeted(e)
  PROVE  Budgeted(e)'
<1>1. /\ d \in Issued /\ Chain(d) \subseteq Issued /\ UNCHANGED grants
      /\ \A k \in DelegationId : executed'[k] = executed[k] + IF k \in Chain(d) THEN 1 ELSE 0
      /\ \A k \in Chain(d) : executed[k] < grants[k].max_actions
  BY ChainClosed DEF ReserveActionDispatch, Charged
<1>2. /\ Children(e)' = Children(e) /\ Children(e) \subseteq Issued
      /\ \A k \in Issued : k \in DelegationId
  BY <1>1 DEF Children, Issued
<1>3. /\ IsFiniteSet(Children(e)) /\ Naturals(executed, Children(e))
      /\ SumOf(executed, Children(e)) \in Nat
  BY ChildrenFinite, SumOfNaturals
<1>4. /\ e \in DelegationId /\ executed[e] \in Nat /\ grants[e] \in Grant
      /\ grants[e].max_actions \in Nat
  BY DEF DelegationTypeOK, Issued, Grant
<1>5. executed'[e] <= grants'[e].max_actions
  BY <1>1, <1>4 DEF Budgeted
<1>6. CASE \E a \in Children(e) : a \in Chain(d)
  <2>1. PICK a \in Children(e) : a \in Chain(d)
    BY <1>6
  <2>2. e \in Chain(d)
    BY <1>1, <2>1, ChainClosed DEF Children, UpClosed
  <2>3. \A x \in Children(e) \ {a} : x \notin Chain(d)
    BY <1>1, <2>1 DEF ChainsAreLines, Children
  <2>4. executed'[a] = executed[a] + 1 /\ \A x \in Children(e) \ {a} : executed'[x] = executed[x]
    BY <1>1, <1>2, <2>1, <2>3 DEF DelegationTypeOK
  <2>5. SumOf(executed', Children(e)) = SumOf(executed, Children(e)) + 1
    BY <1>3, <2>1, <2>4, SumOfStep
  <2>6. executed'[e] = executed[e] + 1
    BY <1>1, <1>4, <2>2
  <2> QED BY <1>2, <1>3, <1>4, <1>5, <2>5, <2>6 DEF Budgeted
<1>7. CASE \A a \in Children(e) : a \notin Chain(d)
  <2>1. \A x \in Children(e) : executed'[x] = executed[x]
    BY <1>1, <1>2, <1>7 DEF DelegationTypeOK
  <2>2. SumOf(executed', Children(e)) = SumOf(executed, Children(e))
    BY <1>3, <2>1, SumOfEqual
  <2>3. executed'[e] >= executed[e] /\ executed'[e] \in Nat
    BY <1>1, <1>4
  <2> QED BY <1>2, <1>3, <1>4, <1>5, <2>2, <2>3 DEF Budgeted
<1> QED BY <1>6, <1>7

LEMMA BudgetAfterIssue ==
  ASSUME DelegationTypeOK, LineageKnown, StoreFinite, \A e \in Issued : Budgeted(e),
         UNCHANGED executed,
         NEW d \in DelegationId, NEW g \in Grant, Issues(d, g)
  PROVE  StoreFinite' /\ \A e \in Issued' : Budgeted(e)'
<1>1. /\ Issued' = Issued \cup {d} /\ grants'[d] = g /\ d \notin Issued
      /\ \A k \in Issued : grants'[k] = grants[k]
  BY IssuedAfter DEF Issues
<1>2. IsFiniteSet(Issued \cup {d}) /\ executed[d] = 0
  BY <1>1, FS_AddElement DEF StoreFinite
<1>3. StoreFinite'
  BY <1>1, <1>2 DEF StoreFinite
<1>4. ASSUME NEW e \in Issued' PROVE Budgeted(e)'
  <2>1. d \notin {None, UnknownGrant}
    BY DelegationAssumption
  <2>2. CASE e = d
    <3>1. \A k \in Issued' : grants'[k].parent_delegation_id # d
      BY <1>1, <2>1 DEF LineageKnown, Known, Issues
    <3>2. Children(e)' = {}
      BY <2>2, <3>1 DEF Children
    <3>3. SumOf(executed', Children(e)') = 0
      BY <3>2, SumOfEmpty
    <3>4. executed'[e] = 0 /\ g.max_actions \in Nat
      BY <1>2, <2>2 DEF Grant
    <3> QED BY <1>1, <2>2, <3>3, <3>4 DEF Budgeted
  <2>3. CASE e \in Issued
    <3>1. /\ IsFiniteSet(Children(e)) /\ Naturals(executed, Children(e))
          /\ SumOf(executed, Children(e)) \in Nat
      BY ChildrenFinite, SumOfNaturals
    <3>2. Children(e)' \in {Children(e), Children(e) \cup {d}} /\ d \notin Children(e)
      BY <1>1 DEF Children
    <3>3. SumOf(executed, Children(e) \cup {d}) = SumOf(executed, Children(e))
      BY <1>2, <3>1, <3>2, SumOfInsert
    <3>4. SumOf(executed', Children(e)') = SumOf(executed, Children(e))
      BY <3>2, <3>3
    <3> QED BY <1>1, <2>3, <3>4 DEF Budgeted
  <2> QED BY <1>1, <1>4, <2>2, <2>3
<1> QED BY <1>3, <1>4

LEMMA BudgetSharedStep ==
  ASSUME DelegationTypeOK, LineageKnown, ChainsAreLines, StoreFinite,
         \A e \in Issued : Budgeted(e), [DelegationNext]_delegation_vars
  PROVE  StoreFinite' /\ \A e \in Issued' : Budgeted(e)'
<1>1. ASSUME NEW d \in DelegationId, ReserveActionDispatch(d)
      PROVE  StoreFinite' /\ \A e \in Issued' : Budgeted(e)'
  <2>1. UNCHANGED grants /\ Issued' = Issued
    BY <1>1 DEF ReserveActionDispatch, Issued
  <2>2. \A k \in DelegationId \ Issued : executed'[k] = executed[k]
    BY <1>1, ChainClosed DEF ReserveActionDispatch, Charged, DelegationTypeOK
  <2>3. \A e \in Issued : Budgeted(e)'
    BY <1>1, BudgetAfterDispatch
  <2> QED BY <2>1, <2>2, <2>3 DEF StoreFinite
<1>2. CASE UNCHANGED executed
  <2>1. CASE UNCHANGED grants
    BY <1>2, <2>1 DEF StoreFinite, Budgeted, Children, Issued
  <2> QED BY <1>2, <2>1, BudgetAfterIssue, StoreStep
<1>3. UNCHANGED executed \/ \E e \in DelegationId : ReserveActionDispatch(e)
  BY DEF DelegationNext, delegation_vars, store_vars, BeginPropose, Reject, BeginResolve,
     Finish, IssueDirectly, AskApproval, Deny, IssueApproved, FindStale, CreateGrant,
     RevokeDelegation, CloseDelegation, StopTrajectory, IntentStep
<1> QED BY <1>1, <1>2, <1>3

(* However a chain branches and whichever grants of it are used, no grant  *)
(* is spent beyond its cap, and whatever was spent under it, by all of its *)
(* children together, was spent by it as well.                             *)
THEOREM BudgetSharedSafe == DelegationSpec => []BudgetShared
<1> DEFINE BudgetInv == ChainsAreLines /\ StoreFinite /\ \A e \in Issued : Budgeted(e)
<1>1. DelegationInit => BudgetInv
  BY FS_EmptySet DEF DelegationInit, ChainsAreLines, StoreFinite, Issued
<1>2. DelegationTypeOK /\ LineageKnown /\ BudgetInv /\ [DelegationNext]_delegation_vars
        => BudgetInv'
  BY ChainsAreLinesStep, BudgetSharedStep
<1>3. LineageInv => DelegationTypeOK /\ LineageKnown
  BY DEF LineageInv
<1>4. BudgetInv => BudgetShared
  BY BudgetSharedIsBudgeted
<1> HIDE DEF BudgetInv
<1> QED BY <1>1, <1>2, <1>3, <1>4, LineageInvariant, PTL DEF DelegationSpec
=============================================================================
