----------------------------- MODULE AgentGateway -----------------------------
(***************************************************************************)
(* The AgentGateway (gateway/service.py), which decides on the actions an  *)
(* agent proposes, suspends some of them for a human and runs the tools of *)
(* those it allowed, over the intent service, the delegation service and   *)
(* the trajectory store.                                                   *)
(*                                                                         *)
(* A call of the gateway is a worker that takes one step per critical      *)
(* section of a store it enters, and carries from one to the next what it  *)
(* read there.  Behind the HTTP API one event loop runs each call to its   *)
(* end (Interleaved = FALSE); called from threads, they interleave.        *)
(***************************************************************************)
EXTENDS TrajectoryStore

CONSTANTS Worker,           \* the calls that can be under way at once
          ActionProposals,  \* what the agents propose
          Interleaved,      \* threads, or one event loop
          Free, NoAction,
          MaxActionDepth,   \* max_action_depth of the trajectory analysis
          MaxRuns           \* bound on the calls that execute one action

(* `other` is the decision of the rules that are not modelled here, on     *)
(* provenance, resources and the causal graph; sensitive_egress says that  *)
(* the tool is an external sink and the bound payload sensitive.           *)
ActionProposal ==
  [session_id: Session, agent_id: Agent,
   intent_contract_id: IntentId \cup {None},
   parent_action_id: ActionId \cup {None},
   delegation_id: DelegationId \cup {None, UnknownGrant},
   operation: Operation, sensitive_egress: BOOLEAN,
   other: {"ALLOW", "REQUIRE_APPROVAL", "QUARANTINE", "DENY"}]

PolicyDecision == {"ALLOW", "DENY", "QUARANTINE", "REQUIRE_APPROVAL"}

ToolExecutionStatus == {"PROPOSED", "AUTHORIZED", "PENDING_APPROVAL", "DENIED",
                        "EXECUTING", "COMPLETED", "FAILED"}

(* trajectory_intent and the proposal's agent identify the trajectory.     *)
AgentAction ==
  [proposal: ActionProposal, trajectory_intent: IntentId \cup {None},
   delegation_id: DelegationId \cup {None},
   policy_result: PolicyDecision \cup {None},
   execution_status: ToolExecutionStatus,
   approved: BOOLEAN]   \* security_reason: approved by the control plane

(* What a call holds in its local variables, and the step it takes next.   *)
Task ==
  [step: {"open", "validate", "record_egress", "refresh", "decide", "record", "pend",
          "quarantine", "charge_grant", "charge_intent", "finish",
          "read_contract", "reserve", "approve", "refuse", "gate", "start", "run"},
   proposal: ActionProposal,
   action: ActionId \cup {None},
   intent: IntentId,                        \* the contract, and its snapshot
   seen: Contract \cup {NoContract},
   exceeded: BOOLEAN, halted: BOOLEAN,      \* the trajectory snapshot
   decision: PolicyDecision \cup {None}]

ASSUME GatewayAssumption ==
  /\ ActionProposals \subseteq ActionProposal
  /\ Interleaved \in BOOLEAN
  /\ NoAction \notin AgentAction
  /\ None \notin PolicyDecision
  /\ Free \notin Task
  /\ MaxActionDepth \in Nat
  /\ MaxRuns \in Nat

VARIABLES actions,   \* the action nodes of the session graphs
          worker,    \* the calls under way
          ran        \* how often the tool of an action was run

gateway_vars == <<delegation_vars, trajectories, actions, worker, ran>>

GatewayTypeOK ==
  /\ DelegationTypeOK /\ TrajectoryTypeOK
  /\ actions \in [ActionId -> AgentAction \cup {NoAction}]
  /\ worker \in [Worker -> Task \cup {Free}]
  /\ ran \in [ActionId -> Nat]

GatewayInit ==
  /\ DelegationInit /\ TrajectoryInit
  /\ actions = [a \in ActionId |-> NoAction]
  /\ worker = [w \in Worker |-> Free]
  /\ ran = [a \in ActionId |-> 0]

-----------------------------------------------------------------------------
(* Bound: enough ids for the calls under way.                              *)
IdLeft == Cardinality({a \in ActionId : actions[a] = NoAction})
            > Cardinality({w \in Worker : worker[w] # Free})

Recorded == {a \in ActionId : actions[a] # NoAction}

KeyOf(a) == <<actions[a].trajectory_intent, actions[a].proposal.agent_id>>
TrajectoryOf(t) == <<t.intent, t.proposal.agent_id>>

Idling == \A w \in Worker : worker[w] = Free

Quiet == Interleaved \/ (holder = Idle /\ Idling)

MayStart(w) == worker[w] = Free /\ Quiet

At(w, step) == worker[w] # Free /\ worker[w].step = step

GoTo(w, step) == worker' = [worker EXCEPT ![w].step = step]
Return(w) == worker' = [worker EXCEPT ![w] = Free]

Update(a, decision, execution_status, approved) ==
  actions' = [actions EXCEPT ![a] = [@ EXCEPT !.policy_result = decision,
                                              !.execution_status = execution_status,
                                              !.approved = approved]]

-----------------------------------------------------------------------------
(* evaluate_proposal, up to the record of the action in the graph.         *)
NewAction(p, i, decision, execution_status) ==
  [proposal |-> p, trajectory_intent |-> i, delegation_id |-> None,
   policy_result |-> decision, execution_status |-> execution_status,
   approved |-> FALSE]

(* The trajectory snapshot: the counters of an active trajectory only.     *)
Observed(t, step, trajectory) ==
  LET halted == TrajectoryOf(t) \in stopped
  IN  [t EXCEPT !.step = step, !.halted = halted,
                !.exceeded = ~halted /\ SplitExfiltration(trajectory)]

ParentKnown(p) ==
  p.parent_action_id # None =>
    /\ p.parent_action_id \in Recorded
    /\ actions[p.parent_action_id].proposal.session_id = p.session_id

BeginEvaluate(w, p) ==
  /\ MayStart(w) /\ IdLeft /\ ParentKnown(p)
  /\ GetIntentForSession(p.session_id)
  /\ LET i == session_to_intent[p.session_id]
     IN  worker' = [worker EXCEPT ![w] =
           [step |-> "open", proposal |-> p, action |-> None, intent |-> i,
            seen |-> intents'[i], exceeded |-> FALSE, halted |-> FALSE,
            decision |-> None]]
  /\ UNCHANGED <<store_vars, pending, asked, holder, stopped, trajectories, actions, ran>>

(* Without a contract there is no trajectory, and strict mode denies.      *)
EvaluateUngoverned(w, p) ==
  /\ MayStart(w) /\ IdLeft /\ ParentKnown(p)
  /\ session_to_intent[p.session_id] = None
  /\ \E a \in ActionId \ Recorded :
       actions' = [actions EXCEPT ![a] = NewAction(p, None, "DENY", "DENIED")]
  /\ UNCHANGED <<delegation_vars, trajectories, worker, ran>>

WaitingNever(t) == FALSE
Waiting(t) == t.pending # None

(* An action proposed while another waits for approval is turned away      *)
(* before it is recorded.                                                  *)
OpenTrajectory(w) ==
  /\ At(w, "open")
  /\ LET t   == worker[w]
         key == TrajectoryOf(t)
         current == GetOrCreate(key, t.seen)
     IN  /\ Replace(key, current)
         /\ IF Waiting(current) THEN Return(w)
            ELSE worker' = [worker EXCEPT ![w] = Observed(@, "validate", current)]
  /\ UNCHANGED <<delegation_vars, actions, ran>>

Validate(w) ==
  /\ At(w, "validate")
  /\ LET t   == worker[w]
         key == TrajectoryOf(t)
     IN  IF ~IsContinuation(key, trajectories[key], t.proposal.parent_action_id)
           THEN Return(w) /\ UNCHANGED actions
           ELSE \E a \in ActionId \ Recorded :
             /\ actions' = [actions EXCEPT ![a] =
                              NewAction(t.proposal, t.intent, None, "PROPOSED")]
             /\ worker' = [worker EXCEPT
                  ![w].action = a,
                  ![w].step = IF t.proposal.sensitive_egress THEN "record_egress"
                                                              ELSE "decide"]
  /\ UNCHANGED <<delegation_vars, trajectories, ran>>

CountEgress(w) ==
  /\ At(w, "record_egress")
  /\ RecordEgress(TrajectoryOf(worker[w]), worker[w].action)
  /\ GoTo(w, "refresh")
  /\ UNCHANGED <<delegation_vars, actions, ran>>

Refresh(w) ==
  /\ At(w, "refresh")
  /\ worker' = [worker EXCEPT ![w] = Observed(@, "decide", trajectories[TrajectoryOf(@)])]
  /\ UNCHANGED <<delegation_vars, trajectories, actions, ran>>

-----------------------------------------------------------------------------
(* The decision, from the snapshots of the contract and the trajectory and *)
(* the grants as they are now.                                             *)
ResolvedGrant(t) ==
  /\ t.proposal.delegation_id \in Issued
  /\ LET g == grants[t.proposal.delegation_id]
     IN  g.session_id = t.proposal.session_id /\ g.root_intent_id = t.intent

Allows(envelope, op) ==
  /\ op.tool \in envelope.allowed_tools
  /\ op.resource \in envelope.resource_scope
  /\ op.env \in envelope.allowed_environments
  /\ op.class \in envelope.allowed_data_classifications

CoveredByGrantOfAnyone(t) ==
  LET d == t.proposal.delegation_id
  IN  /\ \A k \in Chain(d) : GrantLive(k)
      /\ Allows(LiveEffectiveAuthority(d, t.seen), t.proposal.operation)
CoveredByGrant(t) ==
  LET d == t.proposal.delegation_id
  IN  /\ t.proposal.agent_id = grants[d].delegatee_agent_id
      /\ \A k \in Chain(d) : GrantLive(k)
      /\ Allows(LiveEffectiveAuthority(d, t.seen), t.proposal.operation)

ActsFor(t) ==
  IF t.proposal.delegation_id = None THEN t.proposal.agent_id = t.seen.agent_id
  ELSE ResolvedGrant(t) /\ CoveredByGrant(t)

(* The actions that led to an action, itself included: the CAUSES edges.   *)
CausesClosed(S) ==
  \A a \in S : actions[a].proposal.parent_action_id \in Recorded
                 => actions[a].proposal.parent_action_id \in S
Causes(a) == {b \in Recorded : \A S \in SUBSET Recorded : a \in S /\ CausesClosed(S) => b \in S}

(* A trajectory too long to be analysed is denied, whatever it counted.    *)
AnalysisComplete(p) ==
  p.parent_action_id = None \/ Cardinality(Causes(p.parent_action_id)) <= MaxActionDepth

Exceeds(t) == t.exceeded /\ AnalysisComplete(t.proposal)

Authorized(t) ==
  /\ ~t.halted /\ AnalysisComplete(t.proposal)
  /\ t.proposal.intent_contract_id \in {None, t.intent}
  /\ IsActive(t.seen, now) /\ HasQuota(t.seen)
  /\ ActsFor(t)
  /\ Permits(t.seen.scope, t.proposal.operation)
  /\ t.proposal.other # "DENY"

Supervised(t) == \/ NeedsApproval(t.seen.scope, t.proposal.operation)
                 \/ t.proposal.other = "REQUIRE_APPROVAL"

Contained(t) == Exceeds(t) \/ t.proposal.other = "QUARANTINE"

VerdictWithoutContainment(t) ==
  CASE ~Authorized(t) -> "DENY"
    [] Authorized(t) /\ Supervised(t) -> "REQUIRE_APPROVAL"
    [] OTHER -> "ALLOW"
Verdict(t) ==
  CASE ~Authorized(t) -> "DENY"
    [] Authorized(t) /\ Contained(t) -> "QUARANTINE"
    [] Authorized(t) /\ ~Contained(t) /\ Supervised(t) -> "REQUIRE_APPROVAL"
    [] OTHER -> "ALLOW"

Decide(w) ==
  /\ At(w, "decide")
  /\ LET t == worker[w]
     IN  /\ worker' = [worker EXCEPT ![w].step = "record", ![w].decision = Verdict(t)]
         /\ actions' = [actions EXCEPT ![t.action].delegation_id =
                          IF ResolvedGrant(t) THEN t.proposal.delegation_id ELSE None]
  /\ UNCHANGED <<delegation_vars, trajectories, ran>>

(* What follows: the egress rule quarantines even where another denies.    *)
AfterRecordByDecision(t) ==
  CASE t.decision = "QUARANTINE" -> "quarantine"
    [] t.decision = "REQUIRE_APPROVAL" -> "pend"
    [] t.decision = "ALLOW" -> IF actions[t.action].delegation_id # None THEN "charge_grant"
                                                                       ELSE "charge_intent"
    [] OTHER -> "finish"
AfterRecord(t) == IF Exceeds(t) THEN "quarantine" ELSE AfterRecordByDecision(t)

Record(w) ==
  /\ At(w, "record")
  /\ RecordEvaluation(TrajectoryOf(worker[w]), worker[w].action)
  /\ GoTo(w, AfterRecord(worker[w]))
  /\ UNCHANGED <<delegation_vars, actions, ran>>

(* Another action waits already: the call raises, the action stays PROPOSED.*)
SetCheckpoint(w) ==
  /\ At(w, "pend")
  /\ LET key == TrajectoryOf(worker[w])
     IN  IF MayPend(key, worker[w].action)
           THEN SetPending(key, worker[w].action) /\ GoTo(w, "finish")
           ELSE Return(w) /\ UNCHANGED trajectories
  /\ UNCHANGED <<delegation_vars, actions, ran>>

Quarantine(w) ==
  /\ At(w, "quarantine")
  /\ StopTrajectory(worker[w].intent, worker[w].proposal.agent_id)
  /\ GoTo(w, "finish")
  /\ UNCHANGED <<trajectories, actions, ran>>

-----------------------------------------------------------------------------
(* The two reservations.  A slot taken on the grants is not given back     *)
(* when the contract has none left.                                        *)
DenyLate(w) == worker' = [worker EXCEPT ![w].step = "finish", ![w].decision = "DENY"]

CanDispatch(d) ==
  \A k \in Chain(d) : status[k] = "ACTIVE" /\ executed[k] < grants[k].max_actions

ChargeGrant(w) ==
  /\ At(w, "charge_grant")
  /\ LET d == actions[worker[w].action].delegation_id
     IN  \/ ReserveActionDispatch(d) /\ GoTo(w, "charge_intent")
         \/ ~CanDispatch(d) /\ DenyLate(w) /\ UNCHANGED delegation_vars
  /\ UNCHANGED <<trajectories, actions, ran>>

CanReserve(i) == Live(i) /\ HasQuota(intents[i])

ChargeIntent(w) ==
  /\ At(w, "charge_intent")
  /\ \/ ReserveToolExecution(worker[w].intent) /\ GoTo(w, "finish")
     \/ ~CanReserve(worker[w].intent) /\ DenyLate(w) /\ UNCHANGED intent_vars
  /\ UNCHANGED <<store_vars, pending, asked, holder, stopped, trajectories, actions, ran>>

StatusOf(decision) == CASE decision = "ALLOW" -> "AUTHORIZED"
                        [] decision = "REQUIRE_APPROVAL" -> "PENDING_APPROVAL"
                        [] OTHER -> "DENIED"

FinishEvaluate(w) ==
  /\ At(w, "finish")
  /\ LET t == worker[w] IN Update(t.action, t.decision, StatusOf(t.decision), FALSE)
  /\ Return(w)
  /\ UNCHANGED <<delegation_vars, trajectories, ran>>

-----------------------------------------------------------------------------
(* resolve_pending_approval.                                               *)
OpenCheckpoint(w, a, approved) ==
  /\ MayStart(w)
  /\ a \in Recorded /\ KeyOf(a) \in Created /\ trajectories[KeyOf(a)].pending = a
  /\ worker' = [worker EXCEPT ![w] =
       [step |-> IF approved /\ KeyOf(a) \notin stopped THEN "read_contract" ELSE "refuse",
        proposal |-> actions[a].proposal, action |-> a,
        intent |-> actions[a].trajectory_intent,
        seen |-> NoContract,
        exceeded |-> FALSE, halted |-> FALSE, decision |-> None]]
  /\ UNCHANGED <<delegation_vars, trajectories, actions, ran>>

UnlessEmpty(S, x) == S = {} \/ x \in S

(* The contract that governs the session now, whichever it is.             *)
StillAllowsIfActive(c, op) == IsActive(c, now)
StillAllows(c, op) ==
  /\ IsActive(c, now)
  /\ op.tool \in c.scope.allowed_tools \ c.scope.denied_tools
  /\ UnlessEmpty(c.scope.allowed_environments, op.env)
  /\ UnlessEmpty(c.scope.allowed_resources, op.resource)
  /\ UnlessEmpty(c.scope.allowed_data_classifications, op.class)

ReadContract(w) ==
  /\ At(w, "read_contract")
  /\ LET t  == worker[w]
         i  == session_to_intent[t.proposal.session_id]
         op == t.proposal.operation
     IN  /\ GetIntentForSession(t.proposal.session_id)
         /\ worker' = [worker EXCEPT
              ![w].intent = i, ![w].seen = intents'[i],
              ![w].step = IF /\ StillAllows(intents'[i], op)
                             /\ Allows(trajectories[KeyOf(t.action)].effective_authority, op)
                            THEN "reserve" ELSE "refuse"]
  /\ UNCHANGED <<store_vars, pending, asked, holder, stopped, trajectories, actions, ran>>

ReserveForApprovalUnpaid(w) ==
  /\ At(w, "reserve") /\ GoTo(w, "approve")
  /\ UNCHANGED <<delegation_vars, trajectories, actions, ran>>
ReserveForApproval(w) ==
  /\ At(w, "reserve")
  /\ \/ ReserveToolExecution(worker[w].intent) /\ GoTo(w, "approve")
     \/ ~CanReserve(worker[w].intent) /\ GoTo(w, "refuse") /\ UNCHANGED intent_vars
  /\ UNCHANGED <<store_vars, pending, asked, holder, stopped, trajectories, actions, ran>>

Refuse(w) ==
  /\ At(w, "refuse")
  /\ LET a == worker[w].action
     IN  ClearPending(KeyOf(a), a) /\ Update(a, "DENY", "DENIED", FALSE)
  /\ Return(w)
  /\ UNCHANGED <<delegation_vars, ran>>

Approve(w) ==
  /\ At(w, "approve")
  /\ LET a == worker[w].action
     IN  ClearPending(KeyOf(a), a) /\ Update(a, "ALLOW", "AUTHORIZED", TRUE)
  /\ GoTo(w, "gate")
  /\ UNCHANGED <<delegation_vars, ran>>

-----------------------------------------------------------------------------
(* execute_authorized_action, called by its user or by an approval.        *)
MayRun(a) == actions[a].policy_result = "ALLOW"

BeginExecute(w, a) ==
  /\ MayStart(w)
  /\ a \in Recorded /\ MayRun(a) /\ ran[a] < MaxRuns
  /\ worker' = [worker EXCEPT ![w] =
       [step |-> "start", proposal |-> actions[a].proposal, action |-> a,
        intent |-> actions[a].trajectory_intent,
        seen |-> NoContract,
        exceeded |-> FALSE, halted |-> FALSE, decision |-> None]]
  /\ UNCHANGED <<delegation_vars, trajectories, actions, ran>>

Gate(w) ==
  /\ At(w, "gate")
  /\ IF MayRun(worker[w].action) THEN GoTo(w, "start") ELSE Return(w)
  /\ UNCHANGED <<delegation_vars, trajectories, actions, ran>>

SetExecutionStatus(a, execution_status) ==
  actions' = [actions EXCEPT ![a].execution_status = execution_status]

Start(w) ==
  /\ At(w, "start")
  /\ SetExecutionStatus(worker[w].action, "EXECUTING")
  /\ GoTo(w, "run")
  /\ UNCHANGED <<delegation_vars, trajectories, ran>>

RunTool(w) ==
  /\ At(w, "run")
  /\ LET a == worker[w].action
     IN  /\ ran' = [ran EXCEPT ![a] = @ + 1]
         /\ \/ SetExecutionStatus(a, "COMPLETED") /\ RecordExecution(KeyOf(a), a)
            \/ SetExecutionStatus(a, "FAILED") /\ UNCHANGED trajectories
  /\ Return(w)
  /\ UNCHANGED delegation_vars

(* The assertion that no lock of a store is held: the lock of the intent   *)
(* service cannot tell its owner, so it fails when another thread is in.   *)
AssertionFails(w) ==
  /\ Interleaved /\ At(w, "run")
  /\ Return(w)
  /\ UNCHANGED <<delegation_vars, trajectories, actions, ran>>

-----------------------------------------------------------------------------
WorkerStep(w) ==
  \/ OpenTrajectory(w) \/ Validate(w) \/ CountEgress(w) \/ Refresh(w) \/ Decide(w)
  \/ Record(w) \/ SetCheckpoint(w) \/ Quarantine(w) \/ ChargeGrant(w) \/ ChargeIntent(w)
  \/ FinishEvaluate(w)
  \/ ReadContract(w) \/ ReserveForApproval(w) \/ Refuse(w) \/ Approve(w)
  \/ Gate(w) \/ Start(w) \/ RunTool(w) \/ AssertionFails(w)

NewCall(w) ==
  \/ \E p \in ActionProposals : BeginEvaluate(w, p) \/ EvaluateUngoverned(w, p)
  \/ \E a \in ActionId, approved \in BOOLEAN : OpenCheckpoint(w, a, approved)
  \/ \E a \in ActionId : BeginExecute(w, a)

(* The calls the control plane and the delegating agents make meanwhile.   *)
IntentCall ==
  \/ \E i \in IntentId, req \in CreateRequests : CreateIntent(i, req)
  \/ \E i \in IntentId : GetIntent(i) \/ RevokeIntent(i)
  \/ \E i \in IntentId, n \in NarrowRequests : NarrowIntent(i, n)

DelegationCall ==
  \/ \E by \in Principals, p \in Proposals : BeginPropose(by, p)
  \/ \E r \in RequestId : Reject(r)
  \/ \E r \in RequestId, by \in Principals : BeginResolve(r, by)
  \/ \E d \in DelegationId, by \in Principals : RevokeDelegation(d, by) \/ CloseDelegation(d, by)

ControlPlane ==
  /\ \/ Quiet /\ DelegationCall
     \/ Quiet /\ IntentCall /\ UNCHANGED <<store_vars, pending, asked, holder, stopped>>
     \/ Tick /\ UNCHANGED <<store_vars, pending, asked, holder, stopped>>
     \/ Finish
  /\ UNCHANGED <<trajectories, actions, worker, ran>>

GatewayNext == ControlPlane \/ \E w \in Worker : NewCall(w) \/ WorkerStep(w)

GatewaySpec == GatewayInit /\ [][GatewayNext]_gateway_vars

(* The code of a call never waits: it runs on until it returns.            *)
Progress == \A w \in Worker : WF_gateway_vars(WorkerStep(w))

FairGatewaySpec == GatewaySpec /\ Progress

-----------------------------------------------------------------------------
(* A trajectory is one line of actions: the first has no parent, every     *)
(* other one the action before it (validate_continuation: "Enforce strict  *)
(* linear continuation").  It holds behind the event loop; called from     *)
(* threads, the check and the record are two critical sections.            *)
LinearTrajectory ==
  \A key \in Created : LET e == trajectories[key].evaluated IN
    /\ trajectories[key].last = IF e = <<>> THEN None ELSE e[Len(e)]
    /\ \A n \in DOMAIN e : actions[e[n]].proposal.parent_action_id =
                              IF n = 1 THEN None ELSE e[n - 1]

(* Between calls, an action waits for a human exactly when it is the       *)
(* checkpoint of its trajectory, and nothing was recorded after it: no     *)
(* approval is lost, and none is asked for twice.                          *)
CheckpointConsistent ==
  Idling =>
    /\ \A a \in Recorded : actions[a].execution_status = "PENDING_APPROVAL"
                             => trajectories[KeyOf(a)].pending = a
    /\ \A key \in Created : LET a == trajectories[key].pending IN
         a # None => /\ actions[a].execution_status = "PENDING_APPROVAL"
                     /\ a = trajectories[key].last

(* Containment: nothing is allowed any more on a quarantined trajectory,   *)
(* neither by a decision nor by a late approval                            *)
(* (RULE_TRAJECTORY_QUARANTINED; revalidation check B of an approval).     *)
QuarantineContains ==
  [][\A a \in Recorded : MayRun(a)' /\ ~MayRun(a) => KeyOf(a) \notin stopped]_gateway_vars

(* Split exfiltration is noticed: whatever else the rules said of the      *)
(* attempts, and whichever calls interleaved, a trajectory that made as    *)
(* many as the threshold is quarantined when the calls have returned,      *)
(* unless one was made beyond the depth the analysis reaches               *)
(* (RULE_TRAJECTORY_CUMULATIVE_SENSITIVE_EGRESS).                          *)
EgressQuarantines ==
  Idling => \A key \in Created :
    LET t == trajectories[key]
        analysed == \A a \in t.egress : AnalysisComplete(actions[a].proposal)
    IN  SplitExfiltration(t) /\ analysed => key \in stopped

(* Every action that may run was paid for: each has an execution reserved, *)
(* on the path of the decision and on that of the approval, in every       *)
(* interleaving.                                                           *)
Reserved ==
  LET executions == [i \in IntentId |-> Used(i)]
  IN  MapThenSumSet(LAMBDA i : executions[i], {i \in IntentId : Exists(i)})

QuotaCoversActions == Cardinality({a \in Recorded : MayRun(a)}) <= Reserved

(* An approval is checked against what the contract says now, not when the *)
(* action was proposed (resolve_pending_approval, checks E to I).          *)
ApprovalRevalidated ==
  [][\A a \in Recorded : actions[a]'.approved /\ ~actions[a].approved =>
       LET op == actions[a].proposal.operation
           c  == intents[session_to_intent[actions[a].proposal.session_id]]
       IN  /\ c.status = "ACTIVE"
           /\ op.tool \in c.scope.allowed_tools \ c.scope.denied_tools
           /\ UnlessEmpty(c.scope.allowed_resources, op.resource)
           /\ Allows(trajectories[KeyOf(a)].effective_authority, op)]_gateway_vars

(* An action on behalf of a grant stays within every grant of the chain,   *)
(* is done by its delegatee, and draws on each of their budgets unless a   *)
(* human allowed it (build_delegated_action_context).                      *)
ActingUnder(d) == {a \in Recorded : /\ MayRun(a) /\ actions[a].delegation_id # None
                                    /\ d \in Chain(actions[a].delegation_id)}

DelegatedWithinGrant ==
  \A d \in Issued : \A a \in ActingUnder(d) :
    /\ Allows(grants[d].authority_envelope, actions[a].proposal.operation)
    /\ actions[a].proposal.agent_id = grants[actions[a].delegation_id].delegatee_agent_id

GrantsCoverActions ==
  \A d \in Issued : Cardinality({a \in ActingUnder(d) : ~actions[a].approved}) <= executed[d]

(* No action is left halfway: one that was proposed is decided, one that   *)
(* was started ends.                                                       *)
Halfway(a) == /\ a \in Recorded
              /\ actions[a].execution_status \in {"PROPOSED", "EXECUTING"}
ActionsSettle == \A a \in ActionId : Halfway(a) ~> ~Halfway(a)

(* Behind the event loop the gateway implements the abstract gate.         *)
VerdictOf(a) ==
  IF a \notin Recorded \/ actions[a].policy_result = None THEN "none"
  ELSE CASE actions[a].policy_result = "REQUIRE_APPROVAL" -> "waiting"
         [] actions[a].policy_result = "ALLOW" -> "granted"
         [] OTHER -> "refused"

ActionGate == INSTANCE ActionGate WITH
  Action   <- ActionId,
  verdict  <- [a \in ActionId |-> VerdictOf(a)],
  reserved <- Reserved,
  runs     <- ran

ImplementsGate == ActionGate!Spec

-----------------------------------------------------------------------------
(* What the repository's texts say of the gateway and the code does not do.*)

(* "Revoked or replaced Intent at T1 blocks execution at T2": an approval  *)
(* is checked against whichever contract governs the session by then.      *)
ApprovedUnderOwnContract ==
  [][\A a \in Recorded : actions[a]'.approved /\ ~actions[a].approved =>
       session_to_intent[actions[a].proposal.session_id]
         = actions[a].trajectory_intent]_gateway_vars

(* "Current live Intent authority revalidation (after any narrowing at     *)
(* T1)": resources denied since are not looked at.                         *)
ApprovedWithinLiveAuthority ==
  [][\A a \in Recorded : actions[a]'.approved /\ ~actions[a].approved =>
       Permits(intents[session_to_intent[actions[a].proposal.session_id]].scope,
               actions[a].proposal.operation)]_gateway_vars

(* "Revoke a delegation grant and invalidate all descendant authority": an *)
(* approval does not look at the grant the action was proposed under.      *)
ApprovedUnderLiveGrant ==
  [][\A a \in Recorded :
       actions[a]'.approved /\ ~actions[a].approved /\ actions[a].delegation_id # None =>
       \A k \in Chain(actions[a].delegation_id) : status[k] = "ACTIVE"]_gateway_vars

(* "Roll back an action reservation if downstream evaluation failed": the  *)
(* slots of a grant are spent by actions that were denied.                 *)
GrantBudgetExact ==
  Idling => \A d \in Issued :
    executed[d] = Cardinality({a \in ActingUnder(d) : ~actions[a].approved})

(* "Hard quota on cumulative tool executions": an allowed action may be    *)
(* executed any number of times.                                           *)
RunsWithinQuota == MapThenSumSet(LAMBDA a : ran[a], ActionId) <= Reserved

(* "no security-store lock is held during tool execution": the assertion   *)
(* also fails for the lock of another thread, and the action stays         *)
(* EXECUTING.                                                              *)
ExecutionEnds ==
  [][\A w \in Worker : At(w, "run") /\ worker[w]' = Free =>
       actions'[worker[w].action].execution_status \in {"COMPLETED", "FAILED"}]_gateway_vars
=============================================================================
