# Formal models of CAGE

CAGE is a control plane for AI agents: an agent proposes tool calls, the
backend (`src/backend/app`) decides on each against the task-scoped authority a
trusted caller gave the agent, may suspend it for a human, and executes it.
The repository's claim is that authority is monotone ("authority_next <=
authority_original"), bounded, revocable and never outlived by a decision.
These modules state that claim, component by component, and check it.

## 1. Inventory

All state is in memory, in one process. The HTTP handlers are `async def`
without an `await` in the authority paths, so one event loop runs them one at a
time; the services carry locks, and their tests call them from thread pools
(`test_intent_concurrency.py`, `test_delegation_hardening_invariants.py`,
`test_trajectory_store.py`), so the models let calls interleave wherever no
lock is held.

| Component | State | Operations | Hard part | What makes it correct |
|---|---|---|---|---|
| Intent service (`intent/service.py`) | contracts, index session -> contract | create, get, get for session, revoke, narrow, reserve a slot | expiry is lazily written; narrowing races with reservation | one live contract per session, quota never overdrawn, narrowing never widens |
| Intent rules (`policies/intent_rules.py`) | none | decide on one operation | empty list means unconstrained | the meaning of a contract |
| Delegation (`delegation/*.py`, its rules) | grants, their runtime state, pending requests | propose, resolve, revoke, close, reserve along a chain | two locks, snapshot of the root, human in the loop, chains | attenuation, depth, no loop, shared budgets, no grant revived, no stale approval |
| Trajectory (`trajectory/*.py`) | per contract and agent: actions, last, pending checkpoint, egress count, quarantine | get or create, validate, record, set/clear pending, quarantine | one lock per method, decisions span several | linear history, one checkpoint, quarantine contains |
| Gateway (`gateway/service.py`) | action ids and results in the graph | evaluate, resolve, execute | long handlers over all stores; late approvals | nothing runs unauthorised, every run is charged, refused stays refused |
| Causal graph (`graph/*.py`) | per session: nodes, one edge per pair of nodes | add intents, agents, grants, actions, artifacts, an edge of each relation; walk to ancestors | an edge replaces the one between the same nodes; checks per relation | causes, derivation, subdelegation are DAGs; no dangling edge |
| Provenance (`provenance/*.py`) | artifacts' metadata, payloads, their projection to the graph | register (with rollback), label outputs, analyse inputs | three stores written in turn; labels over many hops | labels are inherited, all or nothing, store and graph agree |
| Policy engine (`policies/engine.py`, OPA client, resolver, parity, Rego) | backend | evaluate in Python, in OPA, or both and compare | outage; early returns on one side only | fail closed, backends agree, severity is monotone |
| Tool registry and tools (`gateway/registry.py`, `tools.py`) | static table | look up, run | - | the facts and labels of a tool |
| API, auth | static | forward one call | - | fixes who may call what |

How they interact: the gateway asks the intent service for the contract of a
session, the trajectory store for the history, the graph and provenance
analyzers for context, the policy rules for a decision, then reserves a slot
with the delegation store and the intent service. Delegation reads the intent
service for the root contract and the trajectory store for quarantine. All
calls are direct method calls; the shared state is the stores'.

## 2. What is modelled

| Module | Models | State | Extends |
|---|---|---|---|
| `IntentContract` | `schemas/intent.py`, the authority tests of `policies/intent_rules.py`, the comparison and update of `narrow_intent` | none: operators on contracts and scopes | - |
| `IntentService` | `intent/service.py` and the clock | `intents`, `session_to_intent`, `now` | `IntentContract` |
| `IntentQuota` | what the intent service promises, abstractly | `phase`, `owner`, `limit`, `used` | - |
| `DelegationService` | `delegation/service.py`, `store.py`, `analyzer.py`, `models.py`, and the delegation rules of `policies/rules.py` with the context `policies/policy_input.py` builds for them | `grants`, `status`, `executed`, `pending`, `asked`, `holder`, `stopped` | `IntentService` |
| `TrajectoryStore` | `trajectory/store.py` | `trajectories` | `DelegationService` |
| `AgentGateway` | `gateway/service.py`, the trajectory rules of `policies/rules.py`, `trajectory/analyzer.py`, the action nodes of `graph/causal_graph.py` | `actions`, `worker`, `ran` | `TrajectoryStore` |
| `ActionGate` | what the gateway promises, abstractly | `verdict`, `reserved`, `runs` | - |
| `SessionGraph` | `graph/causal_graph.py`: every method that changes the graph | `nodes`, `edges` | - |
| `ProvenanceStore` | `provenance/store.py`, `factory.py`, `analyzer.py`, `models.py` | `artifacts`, `payloads` | `SessionGraph` |
| `PolicyRules` | `policies/rules.py`, `intent_rules.py`, `resolver.py`, and what `policy_input.py` guarantees of its documents | none: operators on sets of facts | - |
| `RegoPolicies` | the packages of `src/policies/cage` | none | `PolicyRules` |
| `PolicyEngine` | `policies/engine.py`, `opa_client.py`, `parity.py` | `backend`, `input`, `stage`, `rules`, `opa`, `decision`, `parity` | `RegoPolicies` |
| `InformationFlow` | what `gateway/service.py` makes of the graph, the store, `graph/analyzer.py`, `trajectory/analyzer.py`, the registry and the rules | `actions`, `trajectory` | `ProvenanceStore`, `PolicyRules` |
| `MC*` | the instances TLC checks | - | the module they are named for |
| `*Proofs` | theorems and their proofs, in one module per component, of which the gateway has four: types and grants (`AgentGatewayProofs`), quotas and budgets (`AgentGatewayQuotaProofs`), egress (`AgentGatewayTrajectoryProofs`), the event loop and the refinement (`AgentGatewayLoopProofs`); the graph, the store and the flow of a session share `InformationFlowProofs` | - | the module they are named for |

`AgentGateway` composes everything below it: its next-state relation contains
every operation of the intent and delegation services, called by the control
plane and by the agents while the gateway's own calls are under way.
`InformationFlow` is the second composition of the gateway, cut the other way:
one call at a time, under one contract that permits everything, but with all
that is known of tools, artifacts and causes, and with the actual rules in place
of the free outcome `other` of `AgentGateway`.

### How state and actions correspond to the code

**Intent service.** One action per method of `IntentService`, each atomic, as
the method is under the service's lock. `now` is the clock; `Tick` advances it
at any moment. Expiry is lazy in the code, and in the model: `GetIntent` writes
`EXPIRED` back, nobody else does, and every other test compares the deadline
with the clock. The session index is overwritten by a new contract, as
`create_intent` does. A contract's fields are the ones some decision depends
on; names, tools, resources are members of small sets. The wildcard `"*"` is
not modelled.

**Delegation service.** `resolve_delegation_approval` reads the root contract
under the lock of the intent service and works on that snapshot under its own
lock. `holder` is the call inside the service's lock: `BeginPropose` and
`BeginResolve` take it with the snapshot (`holder.seen`), `Finish` decides,
issues or raises, and frees it, and any step of the intent service may come in
between. `ReserveActionDispatch` is a method of the store and does not take
the service's lock. `Chain(d)` is `get_chain`: the grants above `d`, itself
included (the depth limit of 25 in `get_chain` cannot be reached under
`MaxDepth`). `UnknownGrant` is a made-up uuid in a proposal, `OtherResource`
stands for the resources no contract lists, so an unconstrained scope is
`Resource \cup {OtherResource}`. `stopped` are the quarantined trajectories; the
delegation service reads it through the trajectory store.
`compute_effective_status` is reduced to `Usable` (ACTIVE or not), since
nothing distinguishes the other answers. What the direct path does not check
(status, deadline and budget of the parent, the limit on active grants, the
delegator's trajectory, that the parent hangs under the same contract), the
model does not check either.

**Trajectory store.** One operator per method, each under the store's lock. A
trajectory is found by contract and agent (the contract fixes the session).
Methods without a caller in `backend/app` (`mark_aborted`, `close_trajectory`,
`update_status`, `create_trajectory`, `validate_linear_continuation`,
`record_invalid_continuation_attempt`, `update_effective_authority`) are not modelled.

**Gateway.** `evaluate_proposal`, `resolve_pending_approval` and
`execute_authorized_action` take and release the locks of several stores. Each
such critical section is one step of a worker, and what the call has read is in
the worker's record (`seen`, `halted`, `exceeded`, `decision`). `worker[w].step`
is the next section:

    evaluate_proposal           open, validate, record_egress, refresh, decide, record,
                                pend or quarantine or charge_grant and charge_intent, finish
    resolve_pending_approval    read_contract, reserve, approve or refuse, then
    execute_authorized_action   gate, start, run

Local computation between two sections belongs to one of them. Clearing the
checkpoint and updating the action of a resolution are one step. With
`Interleaved = FALSE` a call starts only when no other is under way and no
other service moves until it returns, except that the clock may advance: that
is the HTTP deployment, whose handlers are `async def` with no `await`.
With `Interleaved = TRUE` calls of several threads and of the other services
interleave at every step, which is how the repository's concurrency tests and
library users call the services. `execute_authorized_action` is reached from an
approval and by library users; no HTTP route exposes it.

A proposal of `AgentGateway` carries `other`, the outcome of the rules on
provenance, resources and causal-graph paths: it is chosen freely, so a property
that holds for every proposal holds whatever those rules say. The byte
threshold of the egress rule, `max_nodes`, and the refusals for a missing
payload artifact are abstracted in the same way. `Verdict` resolves the
matched rules by the precedence DENY, QUARANTINE, REQUIRE_APPROVAL, ALLOW; no
rule produces SANDBOX or ALLOW_WITH_LIMITS. The gateway is modelled in its
strict mode, where a session without a contract is denied. The hash checks of
a frozen proposal are left out: the stored proposal cannot change, so they
always hold.

**Causal graph.** `edges[r]` is the set of pairs of relation `r`. networkx keeps
one edge per ordered pair, so `AddEdge` takes the pair out of every other
relation: a `precedes` edge between two nodes replaces `CAUSES`. The cycle check
of each method is modelled with the edges it reads: `add_derived_from_edge` and
`add_subdelegates_edge` follow their own relation, `add_relationship` follows
all of them and only for `CAUSES`. `HasPath` and `Acyclic` are stated by closed
sets of nodes, which the prover can handle and TLC evaluates.
`add_causal_edge` is used by tests only and is left out.

**Provenance store.** `register_artifact` writes the payload, the metadata and
the graph in turn and undoes all three when the graph raises: `RegisterIn` is
the whole method, with `Accepts` for what the graph takes. Payloads are present
or absent; their size limit raises before anything is written, so it is the case
that nothing happens. Of the classifications the two tiers that rules ask for are kept.
Registering an id again is done by tests only, and left out: a
failed second registration would remove the first.

**Rules.** A document is the set of the facts that hold in it, and a rule is
its name; `Coherent` says what `build_cage_policy_input` and the analyzers
guarantee of documents, each conjunct for a reason in that code.
`IntentRules` has the early returns of `evaluate_intent`, `RegoFindings` the
union of the packages. The rules on the creation of grants are in `DelegationService`.

**Policy engine.** `stage` is the next step of an evaluation: Python, OPA, or the
conclusion. OPA answers with the findings of the policies or fails in one of the
ways `OpaClient` tells apart; an empty list of findings is one of them.

**Information flow.** `EvaluateProposal` is `evaluate_proposal` past its
checks on pending approvals and continuation (a proposal they refuse changes
nothing): the action and its edges are recorded, then the graph, the inputs and
the trajectory are analysed, and the rules decide. `Execution` is shared by
`ExecuteAuthorizedAction` and `Approve`, as in the code, and labels and
registers the output. Fresh ids are the first unused ones. Arguments of denied
actions are dropped, since nothing reads them again. The action types,
classifications and environments a client may declare are fixed; the limits of
the analyses on depth and count are beyond the bounds (`FailClosed` is about
what they deny). `RepeatParent` says whether `previous_action_ids` may name the
parent action again.

## 3. Runs

`tlc -workers 2 -config <cfg> <module>`; each takes between some seconds and two minutes.

| Run | Configuration | Question |
|---|---|---|
| `intent_service` | `MCIntentService.cfg` | Do contracts govern one at a time, are quotas safe, is narrowing monotone but for the empty resource list, and is it an `IntentQuota`? |
| `delegation_lineage` | `MCDelegationLineage.cfg` | Do chains attenuate, with true depths, no loops and shared budgets, and can a dead grant authorise again? |
| `delegation_approval` | `MCDelegationApproval.cfg` | Can an approval given late, twice or under another contract grant what is gone? No. |
| `gateway_loop` | `MCAgentGateway.cfg` | Behind the event loop: linear trajectories, one checkpoint, containment, approvals that look at the contract as it is, and `ActionGate`. |
| `gateway_threads` | `MCAgentGatewayThreads.cfg` | From threads: is every action that may run paid for, does split exfiltration always quarantine? |
| `gateway_delegated` | `MCAgentGatewayDelegated.cfg` | From threads: do delegated actions stay within their grants, paid by every one of them? |
| `gateway_progress` | `MCAgentGatewayProgress.cfg` | Does every action that was proposed or started settle? |
| `gateway_replaced` | `MCAgentGatewayReplaced.cfg` | Is an approval given under the contract of the action? No. |
| `session_graph` | `MCSessionGraph.cfg` | In any order of edges that replace each other and nodes that are rolled back, are the typed graphs acyclic and without dangling edges? |
| `policy_engine` | `MCPolicyEngine.cfg` | Does every failure deny, do the backends agree outside the known gaps, does a match in SHADOW predict OPA, is severity monotone? |
| `policy_parity` | `MCPolicyEngineParity.cfg` | Do Python and Rego decide alike on every document? No. |
| `information_flow` | `MCInformationFlow.cfg` | Over any number of hops, is nothing sensitive sent and nothing privileged done on untrusted data unapproved; do causes and records tell where data came from? |

### Bounds, and why they are enough

- Ids (`IntentId`, `DelegationId`, `RequestId`, `ActionId`) run out instead of
  being generated for ever: creation is guarded by a free id, and by `IdLeft` in
  the gateway, which keeps one free for every call under way, so that no call is
  cut off for lack of an id. When ids and calls are spent the instance stops;
  that is why deadlock is not checked in these configurations. Two contracts are what replacement needs, three grants what a loop or a
  chain with a middle needs, three actions what a first, a waiting and a
  next one need. Two workers show every race between two calls.
- `MaxTime` bounds the clock: one deadline before, at and after `now`.
- `MaxStopped` bounds quarantines set from outside in the delegation runs; in
  the gateway runs it is large enough never to bind.
- `MaxRuns` bounds the executions of an action started by its user. With 0 only
  approvals execute.
- `MaxActionDepth` is 20 in the code; `gateway_threads` sets 1, so that
  trajectories do grow beyond the reach of the analysis.
- `EgressThreshold` is 2 here and 3 in the code: the threshold is reached by two
  racing calls. `MaxDepth` and `MaxActiveGrants` are as small as the
  interesting cases allow.
- Requests and proposals are a handful per run, chosen per question and
  listed in the `MC` modules with their reasons: some that attenuate, some that
  try to widen, some that are refused late.
- `session_graph`: three edges (`MaxEdges`) among eight nodes of the four kinds
  that occur in typed cycles. A cycle of two and one of three edges fit, and so
  does a pair of nodes whose edge changes its relation. The theorems lift the bound.
- `policy_engine`: all coherent documents that add up to two facts to one of five
  usual ones, and `NeverMilder` adds a third: two rules and what hides one of
  them. The theorems are about every document.
- `information_flow`: three actions, two artifacts of the session and one of
  another, four records together (`MaxRecords`), one input per proposal: enough
  to read, transform and send, or to ingest, transform and act, with a middle
  hop, and for every failure of a registration.
- Symmetry permutes ids and workers, which no module distinguishes. It is not
  used in the run with a liveness property, nor with fresh ids that are chosen.

### Fairness

None is assumed for safety. `FairGatewaySpec` adds weak fairness of each
worker's steps: a call is straight-line code that takes locks for bounded
sections and never waits for an event, so once begun it goes on to return.
Nothing is assumed of humans, agents or the control plane: an action may wait
for its approval for ever, and `ActionsSettle` does not claim otherwise.

### Mutants

Every property of a passing run is paired in `PROJECT.json` with a mutation of a
definition it depends on, an operator placed just before the definition
(`ScopeWithinParentToolsOnly`, `ReserveForApprovalUnpaid`, ...): a bug someone
could write. With the mutation TLC finds the property violated under the same
configuration.

## 4. What is proved

The theorems hold for every value of the constants that satisfies the named
assumptions, among them that the sentinel values (`None`, `NoContract`,
`NoGrant`, `Free`, ...) are not ids or records and that requests are
well-formed. TLC evaluates all of them in the runs.

| Theorem | States | Argument |
|---|---|---|
| `IntentTypeCorrect`, `DelegationTypeCorrect`, `GatewayTypeCorrect` | type correctness | per action; the gateway's needs `GatewayInv` below |
| `QuotaSafe` | `QuotaRespected` | a reservation is made below the limit, narrowing never goes below usage |
| `SingleContractSafe` | `SingleActiveContract` | a live contract is the one its session is indexed to |
| `ExpansionConfined` | `ExpandsOnlyByEmptyingResources` | each list of the new scope is compared with the old one but for the empty list of resources, which permits all; what is left alone permits no more |
| `ServiceImplementsQuota` | `ImplementsQuota`: the service refines `IntentQuota` | the mapping reads expiry off the clock, so that `Tick` may retire several contracts and a lazy write-back is a stutter |
| `AttenuationSafe` | `Attenuation` along chains of any length | `LineageInv`: every grant is within its parent, and parents were issued before; the set of ancestors that hold at least as much is closed upward, so it contains the chain |
| `NoDelegationLoopSafe` | `NoDelegationLoop` | the chain of a new grant is that of its parent and itself, and the chain of an older one stays as it was; both ways of issuing look for the delegatee on the chain, and what a waiting request saw of its chain is still so when it is granted (`RequestsFresh`) |
| `DepthSoundSafe` (`MaxDepth # 0`) | `DepthSound` | the depth of a grant is one more than its parent's, and its chain is one longer; chains are finite |
| `BudgetSharedSafe` | `BudgetShared` | chains are lines (`ChainsAreLines`), so a reservation that charges a chain charges at most one child of a parent, and with it the parent |
| `ApprovedLineageSafe` | `ApprovedLineageSound` | an approval walks the whole chain, and a chain of issued grants stays one |
| `ApprovalNotStaleSafe` | `ApprovalNotStale` | the last critical section of an approval takes the checks again |
| `OneGrantPerRequestSafe` | `OneGrantPerRequest` | a request is pending, in the hands of the holder, or spent, and only one of them |
| `NeverRegainedSafe` | `NeverRegained` | chains never change once issued, and each of the ways to die is irreversible |
| `GatewayUsesDelegation`, `DelegationUsesIntents` | every behaviour of the gateway is one of the services | each step is a step of the service or leaves it alone |
| `GatewayQuotaSafe`, `GatewayNeverRegained` | the services' guarantees under the gateway | from the two refinements |
| `DelegatedWithinGrantSafe` | `DelegatedWithinGrant` | `Covered`, below |
| `QuotaCoversActionsSafe` | `QuotaCoversActions` | `PaidFor`, below |
| `GrantsCoverActionsSafe` | `GrantsCoverActions` | `ChargedFor`, below |
| `EgressQuarantinesSafe` (`EgressThreshold # 0`) | `EgressQuarantines` | `EgressInv`, below |
| `LinearTrajectorySafe`, `CheckpointConsistentSafe`, `QuarantineContainsSafe`, `ApprovalRevalidatedSafe` (one event loop) | the properties they are named for | `LoopInv`, below |
| `GatewayImplementsGate` (one event loop) | `ImplementsGate`: the gateway refines `ActionGate` | a step that records a decision to allow maps to the grant of an execution that was paid for and not used, by `PaidFor`; a payment maps to a reservation, and no step makes two |
| `TypedDagsAlways` | `TypedDags`, for graphs of any size | `TypedDags` is inductive: an edge whose end has no path back to its start leaves every set of nodes with a node no edge keeps inside; removing edges and replacing their relation keeps acyclicity |
| `EdgesJoinNodesAlways`, `GraphTypeCorrect` | `EdgesJoinNodes`, type correctness | per action; a rollback removes the node with all its edges |
| `FlowTypeCorrect` | type correctness of a session | `FlowInv`, below |
| `StoreMatchesGraphSafe` | `StoreMatchesGraph` | `FlowInv`: a projection adds exactly the edges of a new artifact, and taking them away restores the graph (`RollbackUndoes`), since an id that is not registered is no node |
| `NothingSensitiveSentSafe` (at most one argument names the payload) | `NothingSensitiveSent`, over any number of hops | `Judged`, below |
| `UntrustedNeedsApprovalSafe` | `UntrustedNeedsApproval`, over any number of hops | `Judged`, below |
| `FlowFollowsCausalityAlways` (`~RepeatParent`) | `FlowFollowsCausality`, for walks of any length | `Lined`, below |
| `FailClosedAlways` | `FailClosed`, for all documents | a failed analysis is the name of a rule that denies, and it is found by both sides |
| `BackendsAgreeAlways` | `BackendsAgree` | rule by rule the two sides match the same (`SameGraphRules`, `SameProvenanceRules`, ...) but for the contract rules, where an early return only hides rules when it denies (`ContractRulesAgree`) |
| `MatchPredictsOpaAlways` | `MatchPredictsOpa` | from what each stage knows (`EngineInv`): the decision of SHADOW is that of the rules compared |
| `NeverMilderAlways` | `NeverMilder` | all rules but the intent rules grow with the document; where those return early they deny (`IntentGrows`), and a severer set of rules has a severer verdict (`ResolveMonotone`) |
| `EngineTypeCorrect` | type correctness | per action |

`GatewayInv` is inductive where type correctness alone is not: a call under way
refers to an action that is recorded on a trajectory that exists
(`WorkersGrounded`), and an action that may run has such a place
(`ActionsGrounded`). Without them an update could apply to no record at all.

`Covered` carries the decision over the critical sections between it and the
execution: a proposal that was allowed or suspended, that is a checkpoint, that
is being approved, or whose action may run, was within every grant of its chain
(`WithinGrant`), and stays so because grants are never rewritten and chains
never change. Revocation in between does not matter to this property: it
bounds what may be done, not when (`gateway_unrevoked` shows what it leaves
open).

`PaidFor` (module `AgentGatewayQuotaProofs`) counts what the property does not
show: with the actions that may run it counts those a call has paid for and not
yet recorded, since several threads may be between payment and record at once.
The sum of what the contracts have used is never below that count. It goes
up where an execution is reserved and at no other place of the gateway, and
what a call leaves behind when it gives up after paying stays with the
contract. `ChargedFor` is the same of one grant: its own count of executions,
against the actions under it that run or were paid for and were not asked of a human. It needs that a
proposal is in the hands of one call (`Private`) whose action names
the grant that was charged. The sums are over the contracts and grants that exist, which are
finitely many at any time though the sets of ids need not be finite
(`FiniteSoFar`).

`EgressInv` (module `AgentGatewayTrajectoryProofs`): when the count of a
trajectory reaches the threshold it is stopped, or a call that made one of the
attempts is still on its way to the step that stops it (`EgressWatched`). What the count counts is recorded (`EgressRecorded`), and
the ancestors of an action, over which the analyzer walks, stay the same once
its parent is known (`ParentsKnown`).

The five theorems with the hypothesis `~Interleaved` are about the program as it
is deployed, where one event loop runs the calls one at a time; in threads some of
them fail (section 5). Under `LoopInv` (module `AgentGatewayLoopProofs`)
only one call is under way (`Serial`), and what it has read stays true until
its last step: the control plane does not come between (`CallsInLoop`).
`Lines`, `Statuses` and `Checkpoints` say of each trajectory that its actions
follow each other, and that an action waits exactly when it is the checkpoint and
the last. The case in which the assertion on the locks fails cannot occur, which is part of
the proof.

The theorems about `InformationFlow` (module `InformationFlowProofs`) start from
`FlowInv`: types, references that resolve (the creator and the parents of an
artifact, the inputs of an action), and a graph that shows of every artifact
what the store holds. Each step passes through a graph that fits the store
(`GraphFits`) and lands in one of three ways (`Lands`): nothing is registered, or
an artifact with the graph or without it. In all three no artifact changes and
none refers to a later one, so that what is upstream of a set stays what it is
(`AboveStays`). `Judged` rests on that: the classes and origins that a verdict was
taken on are unions over all that is upstream of the inputs, so that one
artifact there is enough for a rule to match, and what the verdict
excluded then is still excluded when the action runs, whatever was registered in between.
`Lined` says that the actions of a session are one line, each with the one before as
its only cause, and that who made what is upstream of an action's inputs comes
before it in the line. A walk is a recursive function; it goes back along the
line because that is a solution of its recursion, and two solutions differ at no
least step (`OneWalk`); it is as long as there are ids of actions, which are
assumed to be finitely many. The limits on the depth of the analyses, which the model
leaves out, deny what reaches them (`PROVENANCE_DEPTH_LIMIT_EXCEEDED` and its like),
and can only take verdicts away from what the theorems speak of.

Their two hypotheses are where the code does not do what the property says
(section 5): a proposal that names its payload by two arguments, and one that
lists its parent among its previous actions, which both are accepted.

Two hypotheses on constants exclude settings in which the statement is false
and which are not the defaults: with `MaxDepth = 0` a root proposal that asks for depth
0 is issued with depth 1, and with `EgressThreshold = 0` the count is at its
threshold before anything was attempted (the default is 3,
`CAGE_MAX_SENSITIVE_EGRESS_ATTEMPTS`).

Cardinalities and sums over finite sets are the first section of
`DelegationServiceProofs`. The provers cannot instantiate the induction theorems
of the library, whose parameters are operators, so that induction is
by a least counterexample: of the finite sets that violate a fact take one of the
least cardinality.

Only model-checked: `ActionsSettle`, as liveness is out of the prover's reach,
and the two runs that end in a violation. No module uses `RECURSIVE`: `Chain`,
`Causes` and `Upstream` are written as least closed sets for that reason, and
`Walk` is a recursive function.

## 5. What the code does not do, though its texts say so

The two runs that end in a violation, with the lines quoted in
`PROJECT.json`:

1. `gateway_replaced`: an action that waits under a contract that was revoked
   and replaced is approved under the replacement.
2. `policy_parity`: the two sets of rules decide differently on an action of type
   EXECUTE with inputs of untrusted or unknown origin, on a contract past its
   deadline whose status is still ACTIVE, and on actions of type DELEGATION.
   `Gap` names these three, and outside of them the backends agree.

These configurations also end in the violation of one property, and are kept to
be run by hand:

| Configuration | Violates | What happens |
|---|---|---|
| `MCDelegationDangling.cfg` | `ParentExists` | a grant whose parent does not exist is issued: a missing parent is passed to the rules as no parent (`policy_input.py:183`, against "Referenced parent delegation grant does not exist or is invalid", `rules.py:535`) |
| `MCDelegationInactiveParent.cfg` | `IssuedUnderActiveChain` | a subdelegation is issued under a revoked parent; it authorises nothing (`delegation/service.py:125`) |
| `MCDelegationLimit.cfg` | `ActiveGrantsLimited` | direct proposals are not counted against `max_session_active_grants` (`delegation/service.py:228`, `:780`) |
| `MCDelegationSnapshot.cfg` | `ApprovedUnderLiveRoot` | threads: the contract is revoked between its snapshot and the issue ("atomic live revalidation", `delegation/service.py:306`) |
| `MCDelegationForbidden.cfg` | `DelegationOnlyWhenAllowed` | `delegation_allowed` is never read (`schemas/intent.py:53`) |
| `MCAgentGatewayLinear.cfg` | `LinearTrajectory` | threads: two calls continue the same action ("Enforce strict linear continuation", `trajectory/store.py:253`) |
| `MCAgentGatewayQuarantine.cfg` | `QuarantineContains` | threads: an action decided on an older snapshot is allowed after the quarantine (`rules.py:390`) |
| `MCAgentGatewayRepeat.cfg` | `RunsWithinQuota` | each call executes an allowed action again ("Hard quota on cumulative tool executions", `schemas/intent.py:51`) |
| `MCAgentGatewayAssertion.cfg` | `ExecutionEnds` | threads: the lock assertion fails for a lock another thread holds, and the action stays EXECUTING (`gateway/service.py:817`) |
| `MCIntentServiceExpansion.cfg` | `AuthorityNeverExpands` | narrowing `allowed_resources` to the empty list lifts the constraint ("authority_next <= authority_original", `intent/service.py:136`) |
| `MCAgentGatewayDeniedResource.cfg` | `ApprovedWithinLiveAuthority` | the resource of a waiting action is denied by narrowing; the approval goes through, as it reads `allowed_resources` and not `denied_resources` ("Current live Intent authority revalidation", `gateway/service.py:612`) |
| `MCAgentGatewayUnrevoked.cfg` | `ApprovedUnderLiveGrant` | the grant of a waiting action is revoked; the approval goes through ("Revoke a delegation grant and invalidate all descendant authority", `api/v1/delegations.py:76`) |
| `MCInformationFlowLostParent.cfg` | `FlowFollowsCausality` | the parent action is named again among the previous actions, and its `CAUSES` edge becomes `precedes`, which the walks do not follow (`graph/causal_graph.py:502`) |
| `MCInformationFlowLateOutput.cfg` | `AccessAfterUntrustedApproved` | a read is allowed before the search it continues was executed, and executed after it: the verdict is not taken again (`gateway/service.py:354`) |
| `MCInformationFlowTwoFields.cfg` | `SentWasAnalysed` | both payload fields are named: the binding is satisfied by one of them and the payload comes from the other (`provenance/analyzer.py:243`, `gateway/service.py:767`) |
| `MCAgentGatewayRefund.cfg` | `GrantBudgetExact` | the grants were charged, the contract has nothing left: the action is denied, the slots are gone (`delegation/store.py:217`) |

Two consequences of the code show in the models without any text that says
otherwise. DENY is more severe than QUARANTINE, so an action that is denied for
another reason does not quarantine its trajectory for repeated probing. And a
file that was written and is read again has the labels of the read, not of what was
written, since the simulated file tools keep no content.

## 6. What is not modelled, and why

- The rules on RESOLVE_APPROVAL and REVOKE_GRANT, in Python and in Rego: no
  code builds a document of these operations. The Rego rules on CREATE_GRANT: the
  delegation service evaluates the Python rules whatever the backend.
- Documents of the gateway under threads: `AgentGateway` leaves the outcome
  of the rules on provenance free, `InformationFlow` runs one call at a time.
- The HTTP layer beyond the order of its calls, authentication (it fixes the
  principal a call is made with: `Principals`), schemas beyond the fields
  decisions read, and the clients, demonstrations, attack lab and research
  scripts, which keep no authority state.

## 7. Plan

1. Proofs: that `InformationFlow`, whose steps make many calls of the graph at
   once, keeps `TypedDags` too; the hypothesis `~Interleaved` replaced by the
   weakest one under which each of the five theorems that has it holds.
2. `InformationFlow` with contracts that narrow which data may be read, and with
   environments and action types that a client declares.
