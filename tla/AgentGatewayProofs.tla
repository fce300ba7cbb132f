-------------------------- MODULE AgentGatewayProofs --------------------------
(***************************************************************************)
(* The gateway uses the services as their own specifications say: every    *)
(* step of it is a step of the delegation system or leaves that system     *)
(* alone, so what is proved of the services holds of the whole.            *)
(***************************************************************************)
EXTENDS AgentGateway, DelegationServiceProofs

(* What a call holds refers to something: its action is recorded on a      *)
(* trajectory that exists.  Without it a record update could apply to no   *)
(* record at all.                                                          *)
Placed(a) == /\ a \in Recorded /\ actions[a].trajectory_intent # None
             /\ KeyOf(a) \in Created

Evaluating == {"record_egress", "refresh", "decide", "record", "pend",
               "quarantine", "charge_grant", "charge_intent", "finish"}

Grounded(t) ==
  /\ t.action # None => Placed(t.action)
  /\ t.step \notin {"open", "validate"} => t.action # None
  /\ t.step \in Evaluating => TrajectoryOf(t) = KeyOf(t.action)
  /\ t.step = "validate" => TrajectoryOf(t) \in Created
  /\ t.step = "open" => t.seen \in Contract

WorkersGrounded == \A w \in Worker : worker[w] # Free => Grounded(worker[w])

ActionsGrounded == \A a \in Recorded : MayRun(a) => Placed(a)

GatewayInv == GatewayTypeOK /\ WorkersGrounded /\ ActionsGrounded

-----------------------------------------------------------------------------
(* What every step does to the trajectories and the actions.               *)
HistoryKept ==
  /\ Created \subseteq Created'
  /\ Recorded \subseteq Recorded'
  /\ \A a \in Recorded : /\ actions'[a].proposal = actions[a].proposal
                         /\ actions'[a].trajectory_intent = actions[a].trajectory_intent

TablesOK ==
  /\ TrajectoryTypeOK'
  /\ actions' \in [ActionId -> AgentAction \cup {NoAction}]
  /\ ran' \in [ActionId -> Nat]

Allowed(a) == a \in Recorded' /\ MayRun(a)' => a \in Recorded /\ (MayRun(a) \/ Placed(a))

StepOK(w, t) ==
  /\ [DelegationNext]_delegation_vars
  /\ TablesOK /\ HistoryKept
  /\ \A a \in ActionId : Allowed(a)
  /\ t \in Task \cup {Free}
  /\ worker' = [worker EXCEPT ![w] = t]
  /\ t # Free => Grounded(t)'

LEMMA PlacedStays ==
  ASSUME HistoryKept, NEW a, Placed(a)
  PROVE  Placed(a)' /\ KeyOf(a)' = KeyOf(a)
BY DEF HistoryKept, Placed, KeyOf

LEMMA GroundedStays ==
  ASSUME HistoryKept, NEW t, Grounded(t)
  PROVE  Grounded(t)'
<1>1. t.action # None => Placed(t.action)' /\ KeyOf(t.action)' = KeyOf(t.action)
  BY PlacedStays DEF Grounded
<1>2. t.step \in Evaluating => t.action # None
  BY DEF Grounded, Evaluating
<1> QED BY <1>1, <1>2 DEF Grounded, HistoryKept, TrajectoryOf

LEMMA InvFromStep ==
  ASSUME GatewayInv, NEW w \in Worker, NEW t, StepOK(w, t)
  PROVE  GatewayInv'
<1>1. DelegationTypeOK'
  BY DelegationTypeStep DEF GatewayInv, GatewayTypeOK, StepOK
<1>2. worker' \in [Worker -> Task \cup {Free}]
  BY DEF GatewayInv, GatewayTypeOK, StepOK
<1>3. WorkersGrounded'
  <2> SUFFICES ASSUME NEW v \in Worker, worker'[v] # Free PROVE Grounded(worker[v])'
    BY DEF WorkersGrounded
  <2>1. CASE v = w
    BY <2>1 DEF StepOK, GatewayInv, GatewayTypeOK, Grounded, TrajectoryOf
  <2>2. CASE v # w
    <3>1. worker'[v] = worker[v] /\ Grounded(worker[v])
      BY <2>2 DEF StepOK, GatewayInv, GatewayTypeOK, WorkersGrounded
    <3> QED BY <3>1, GroundedStays DEF StepOK, Grounded, TrajectoryOf
  <2> QED BY <2>1, <2>2
<1>4. ActionsGrounded'
  <2> SUFFICES ASSUME NEW a \in Recorded', MayRun(a)' PROVE Placed(a)'
    BY DEF ActionsGrounded
  <2>1. a \in ActionId /\ Allowed(a)
    BY DEF StepOK, Recorded
  <2>2. Placed(a)
    BY <2>1 DEF Allowed, GatewayInv, ActionsGrounded
  <2> QED BY <2>2, PlacedStays DEF StepOK
<1> QED BY <1>1, <1>2, <1>3, <1>4 DEF GatewayInv, GatewayTypeOK, StepOK, TablesOK

-----------------------------------------------------------------------------
LEMMA Held ==
  ASSUME GatewayInv, NEW w \in Worker, worker[w] # Free
  PROVE  /\ worker[w] \in Task /\ Grounded(worker[w])
         /\ worker[w].proposal \in ActionProposal /\ worker[w].intent \in IntentId
         /\ worker[w].proposal.agent_id \in Agent /\ worker[w].proposal.session_id \in Session
         /\ TrajectoryOf(worker[w]) \in Key
<1>1. worker[w] \in Task /\ Grounded(worker[w])
  BY DEF GatewayInv, GatewayTypeOK, WorkersGrounded
<1>2. worker[w].proposal \in ActionProposal /\ worker[w].intent \in IntentId
  BY <1>1 DEF Task
<1> QED BY <1>1, <1>2 DEF ActionProposal, TrajectoryOf, Key

LEMMA PlacedTypes ==
  ASSUME GatewayInv, NEW a, Placed(a)
  PROVE  /\ a \in ActionId /\ a \in Recorded /\ actions[a] \in AgentAction
         /\ actions[a].proposal \in ActionProposal
         /\ actions[a].trajectory_intent \in IntentId
         /\ KeyOf(a) \in Key /\ trajectories[KeyOf(a)] \in Trajectory
<1>1. a \in ActionId /\ a \in Recorded /\ actions[a] \in AgentAction
  BY DEF GatewayInv, GatewayTypeOK, Placed, Recorded
<1>2. actions[a].proposal \in ActionProposal /\ actions[a].trajectory_intent \in IntentId
  BY <1>1 DEF AgentAction, Placed
<1>3. KeyOf(a) \in Key /\ trajectories[KeyOf(a)] \in Trajectory
  BY DEF Placed, Created, GatewayInv, GatewayTypeOK, TrajectoryTypeOK
<1> QED BY <1>1, <1>2, <1>3

LEMMA NewTrajectoryType ==
  ASSUME NEW c \in Contract
  PROVE  NewTrajectory(c) \in Trajectory
<1>1. c.scope \in Scope
  BY DEF Contract
<1>2. RootEnvelope(c) \in Envelope
  BY <1>1 DEF Scope, RootEnvelope, Envelope
<1> QED BY <1>2 DEF NewTrajectory, Trajectory

(* Putting a trajectory in its place loses none.                           *)
LEMMA ReplaceKeeps ==
  ASSUME GatewayInv, NEW key \in Key, NEW t \in Trajectory, Replace(key, t)
  PROVE  TrajectoryTypeOK' /\ Created \subseteq Created' /\ key \in Created'
BY TrajectoryAssumption
   DEF GatewayInv, GatewayTypeOK, TrajectoryTypeOK, Replace, Created

(* The ways an action's record is written: new, or changed in place.       *)
Rewritten(a, r) ==
  /\ r \in AgentAction
  /\ actions' = [actions EXCEPT ![a] = r]
  /\ a \in Recorded => /\ r.proposal = actions[a].proposal
                        /\ r.trajectory_intent = actions[a].trajectory_intent

LEMMA RewrittenKeeps ==
  ASSUME GatewayInv, NEW a \in ActionId, NEW r, Rewritten(a, r)
  PROVE  /\ actions' \in [ActionId -> AgentAction \cup {NoAction}]
         /\ Recorded' = Recorded \cup {a} /\ actions'[a] = r
         /\ \A b \in ActionId \ {a} : actions'[b] = actions[b]
         /\ \A b \in Recorded : /\ actions'[b].proposal = actions[b].proposal
                                /\ actions'[b].trajectory_intent = actions[b].trajectory_intent
         /\ (a \in Recorded \/ r.policy_result # "ALLOW")
              => \A b \in ActionId : b # a \/ MayRun(a) \/ Placed(a) \/ r.policy_result # "ALLOW"
                                     => Allowed(b)
<1>1. /\ actions \in [ActionId -> AgentAction \cup {NoAction}]
      /\ actions' = [actions EXCEPT ![a] = r] /\ r # NoAction /\ r \in AgentAction
  BY GatewayAssumption DEF GatewayInv, GatewayTypeOK, Rewritten
<1>2. /\ actions' \in [ActionId -> AgentAction \cup {NoAction}]
      /\ Recorded' = Recorded \cup {a} /\ actions'[a] = r
      /\ \A b \in ActionId \ {a} : actions'[b] = actions[b]
  BY <1>1 DEF Recorded
<1> QED BY <1>2 DEF Rewritten, Recorded, Allowed, MayRun

LEMMA UpdateRewrites ==
  ASSUME GatewayInv, NEW a \in Recorded, NEW decision \in PolicyDecision \cup {None},
         NEW execution_status \in ToolExecutionStatus, NEW approved \in BOOLEAN,
         Update(a, decision, execution_status, approved)
  PROVE  \E r : Rewritten(a, r)
<1>1. actions[a] \in AgentAction
  BY DEF GatewayInv, GatewayTypeOK, Recorded
<1> DEFINE r == [actions[a] EXCEPT !.policy_result = decision,
                                   !.execution_status = execution_status,
                                   !.approved = approved]
<1>2. /\ r \in AgentAction /\ r.proposal = actions[a].proposal
      /\ r.trajectory_intent = actions[a].trajectory_intent
  BY <1>1 DEF AgentAction
<1>3. actions' = [actions EXCEPT ![a] = r]
  BY DEF Update
<1>4. PICK q : q = r
  OBVIOUS
<1> HIDE DEF r
<1> QED BY <1>2, <1>3, <1>4 DEF Rewritten

-----------------------------------------------------------------------------
(* The tables, when a step leaves them alone, replaces one trajectory or   *)
(* rewrites one action.                                                    *)
Tables == TablesOK /\ HistoryKept /\ \A a \in ActionId : Allowed(a)

LEMMA TablesUnchanged ==
  ASSUME GatewayInv, UNCHANGED <<trajectories, actions, ran>>
  PROVE  Tables
BY DEF GatewayInv, GatewayTypeOK, TrajectoryTypeOK, Tables, TablesOK, HistoryKept, Created,
       Recorded, Allowed, MayRun

LEMMA TablesReplaced ==
  ASSUME GatewayInv, NEW key \in Key, NEW t \in Trajectory, Replace(key, t),
         UNCHANGED <<actions, ran>>
  PROVE  Tables
<1>1. TrajectoryTypeOK' /\ Created \subseteq Created'
  BY ReplaceKeeps
<1> QED BY <1>1 DEF GatewayInv, GatewayTypeOK, Tables, TablesOK, HistoryKept, Recorded, Allowed,
                    MayRun

LEMMA TablesRewritten ==
  ASSUME GatewayInv, NEW a \in ActionId, NEW r, Rewritten(a, r),
         TrajectoryTypeOK', Created \subseteq Created', ran' \in [ActionId -> Nat],
         a \in Recorded \/ r.policy_result # "ALLOW",
         r.policy_result = "ALLOW" => MayRun(a) \/ Placed(a)
  PROVE  Tables
BY RewrittenKeeps DEF Tables, TablesOK, HistoryKept

(* A call goes on: it keeps its action, and the services did what they may.*)
Continues(s, t) ==
  /\ t \in Task /\ s.action # None
  /\ t.action = s.action /\ t.proposal = s.proposal
  /\ t.step \notin {"open", "validate"}
  /\ t.step \in Evaluating => s.step \in Evaluating /\ t.intent = s.intent

LEMMA GoesOn ==
  ASSUME GatewayInv, NEW w \in Worker, worker[w] # Free, [DelegationNext]_delegation_vars, Tables,
         NEW t, Continues(worker[w], t), worker' = [worker EXCEPT ![w] = t]
  PROVE  \E u : StepOK(w, u)
<1>1. PICK s : s = worker[w]
  OBVIOUS
<1>2. Grounded(s) /\ Continues(s, t) /\ HistoryKept
  BY <1>1, Held DEF Tables
<1>3. /\ Placed(s.action) /\ Placed(s.action)'
      /\ KeyOf(s.action)' = KeyOf(s.action)
  BY <1>2, PlacedStays DEF Grounded, Continues
<1>4. t.step \in Evaluating => TrajectoryOf(t) = KeyOf(t.action)
  BY <1>2 DEF Grounded, Continues, TrajectoryOf
<1>5. Grounded(t)'
  <2>1. Placed(t.action)' /\ KeyOf(t.action)' = KeyOf(t.action)
    BY <1>2, <1>3 DEF Continues
  <2> QED BY <1>2, <1>4, <2>1 DEF Grounded, Continues, TrajectoryOf
<1> QED BY <1>2, <1>5 DEF StepOK, Tables, Continues

(* A call returns.                                                         *)
LEMMA Returns ==
  ASSUME GatewayInv, NEW w \in Worker, [DelegationNext]_delegation_vars, Tables, Return(w)
  PROVE  \E u : StepOK(w, u)
<1>1. StepOK(w, Free)
  BY DEF StepOK, Tables, Return
<1>2. PICK u : u = Free
  OBVIOUS
<1> QED BY <1>1, <1>2

LEMMA GoesTo ==
  ASSUME GatewayInv, NEW w \in Worker, worker[w] # Free, [DelegationNext]_delegation_vars, Tables,
         NEW x, GoTo(w, x),
         x \in {"finish", "refresh", "quarantine", "pend", "charge_grant", "charge_intent",
                "approve", "refuse", "gate", "start", "run"},
         worker[w].step \notin {"open", "validate"},
         x \in Evaluating => worker[w].step \in Evaluating
  PROVE  \E u : StepOK(w, u)
<1>1. PICK s : s = worker[w]
  OBVIOUS
<1>2. s \in Task /\ s.action # None
  BY <1>1, Held DEF Grounded
<1>3. PICK t : t = [s EXCEPT !.step = x]
  OBVIOUS
<1>4. t \in Task
  BY <1>2, <1>3 DEF Task
<1>5. /\ t.step = x /\ t.action = s.action /\ t.proposal = s.proposal /\ t.intent = s.intent
  BY <1>2, <1>3 DEF Task
<1>6. Continues(s, t)
  BY <1>1, <1>2, <1>4, <1>5 DEF Continues, Evaluating
<1>7. worker' = [worker EXCEPT ![w] = t]
  BY <1>1, <1>3 DEF GoTo
<1> QED BY <1>1, <1>6, <1>7, GoesOn

-----------------------------------------------------------------------------
(* One lemma for each step of a call: evaluating an action.                *)
LEMMA BeginEvaluateStep ==
  ASSUME GatewayInv, NEW w \in Worker, NEW p \in ActionProposals, BeginEvaluate(w, p)
  PROVE  \E u : StepOK(w, u)
<1> DEFINE i == session_to_intent[p.session_id]
<1>1. /\ p \in ActionProposal /\ p.session_id \in Session
      /\ i \in IntentId /\ GetIntent(i)
  BY GatewayAssumption DEF BeginEvaluate, ActionProposal, GetIntentForSession, GatewayInv,
     GatewayTypeOK, DelegationTypeOK, IntentTypeOK
<1>2. intents'[i] \in Contract
  BY <1>1, GetIntentType DEF GatewayInv, GatewayTypeOK, DelegationTypeOK
<1>3. IntentNext /\ DelegationNext
  BY <1>1 DEF BeginEvaluate, IntentNext, DelegationNext, IntentStep
<1>4. Tables
  BY TablesUnchanged DEF BeginEvaluate
<1>5. PICK t : t = [step |-> "open", proposal |-> p, action |-> None, intent |-> i,
                    seen |-> intents'[i], exceeded |-> FALSE, halted |-> FALSE,
                    decision |-> None]
  OBVIOUS
<1>6. t \in Task /\ t.step = "open" /\ t.action = None /\ t.seen \in Contract
  BY <1>1, <1>2, <1>5 DEF Task
<1>7. Grounded(t)'
  BY <1>6 DEF Grounded, Evaluating
<1>8. worker' = [worker EXCEPT ![w] = t]
  BY <1>5 DEF BeginEvaluate
<1> QED BY <1>3, <1>4, <1>6, <1>7, <1>8 DEF StepOK, Tables

LEMMA EvaluateUngovernedStep ==
  ASSUME GatewayInv, NEW w \in Worker, NEW p \in ActionProposals, EvaluateUngoverned(w, p)
  PROVE  \E u : StepOK(w, u)
<1>1. PICK a \in ActionId \ Recorded :
        actions' = [actions EXCEPT ![a] = NewAction(p, None, "DENY", "DENIED")]
  BY DEF EvaluateUngoverned
<1>2. PICK r : r = NewAction(p, None, "DENY", "DENIED")
  OBVIOUS
<1>3. r \in AgentAction /\ r.policy_result = "DENY"
  BY <1>2, GatewayAssumption DEF NewAction, AgentAction, PolicyDecision, ToolExecutionStatus
<1>4. Rewritten(a, r)
  BY <1>1, <1>2, <1>3 DEF Rewritten
<1>5. TrajectoryTypeOK' /\ Created' = Created /\ ran' \in [ActionId -> Nat]
  BY DEF EvaluateUngoverned, GatewayInv, GatewayTypeOK, TrajectoryTypeOK, Created
<1>6. Tables
  BY <1>3, <1>4, <1>5, TablesRewritten
<1>7. PICK u : u = worker[w]
  OBVIOUS
<1>8. u = Free /\ worker' = [worker EXCEPT ![w] = u]
  BY <1>7 DEF EvaluateUngoverned, MayStart, GatewayInv, GatewayTypeOK
<1> QED BY <1>6, <1>8 DEF StepOK, Tables, EvaluateUngoverned

LEMMA GetOrCreateType ==
  ASSUME GatewayInv, NEW key \in Key, NEW c \in Contract
  PROVE  GetOrCreate(key, c) \in Trajectory
BY NewTrajectoryType DEF GatewayInv, GatewayTypeOK, TrajectoryTypeOK, GetOrCreate

LEMMA ObservedType ==
  ASSUME NEW t \in Task, NEW x \in {"validate", "decide"}, NEW trajectory
  PROVE  /\ Observed(t, x, trajectory) \in Task
         /\ Observed(t, x, trajectory).step = x
         /\ Observed(t, x, trajectory).action = t.action
         /\ Observed(t, x, trajectory).proposal = t.proposal
         /\ Observed(t, x, trajectory).intent = t.intent
         /\ Observed(t, x, trajectory).seen = t.seen
<1> DEFINE h == TrajectoryOf(t) \in stopped
           e == ~h /\ SplitExfiltration(trajectory)
<1>1. h \in BOOLEAN /\ e \in BOOLEAN
  OBVIOUS
<1>2. Observed(t, x, trajectory) = [t EXCEPT !.step = x, !.halted = h, !.exceeded = e]
  BY DEF Observed
<1> HIDE DEF h, e
<1> QED BY <1>1, <1>2 DEF Task

LEMMA OpenTrajectoryStep ==
  ASSUME GatewayInv, NEW w \in Worker, OpenTrajectory(w)
  PROVE  \E u : StepOK(w, u)
<1>1. PICK s : s = worker[w]
  OBVIOUS
<1>2. PICK key : key = TrajectoryOf(s)
  OBVIOUS
<1>3. PICK current : current = GetOrCreate(key, s.seen)
  OBVIOUS
<1>4. s \in Task /\ Grounded(s) /\ s # Free /\ s.step = "open" /\ key \in Key
  BY <1>1, <1>2, Held DEF OpenTrajectory, At
<1>5. s.seen \in Contract
  BY <1>4 DEF Grounded
<1>6. current \in Trajectory /\ Replace(key, current)
  BY <1>1, <1>2, <1>3, <1>4, <1>5, GetOrCreateType DEF OpenTrajectory
<1>7. Tables /\ key \in Created'
  BY <1>4, <1>6, TablesReplaced, ReplaceKeeps DEF OpenTrajectory
<1>8. CASE Waiting(current)
  <2>1. Return(w)
    BY <1>1, <1>2, <1>3, <1>8 DEF OpenTrajectory
  <2> QED BY <1>7, <2>1, Returns DEF OpenTrajectory
<1>9. CASE ~Waiting(current)
  <2>1. PICK t : t = Observed(s, "validate", current)
    OBVIOUS
  <2>2. worker' = [worker EXCEPT ![w] = t]
    BY <1>1, <1>2, <1>3, <1>9, <2>1 DEF OpenTrajectory
  <2>3. /\ t \in Task /\ t.step = "validate" /\ t.action = s.action
        /\ TrajectoryOf(t) = key
    BY <1>2, <1>4, <2>1, ObservedType DEF TrajectoryOf
  <2>4. s.action # None => Placed(s.action)'
    BY <1>4, <1>7, PlacedStays DEF Grounded, Tables
  <2>5. Grounded(t)'
    BY <1>7, <2>3, <2>4 DEF Grounded, Evaluating, TrajectoryOf
  <2> QED BY <1>7, <2>2, <2>3, <2>5 DEF StepOK, Tables, OpenTrajectory
<1> QED BY <1>8, <1>9

LEMMA ValidateStep ==
  ASSUME GatewayInv, NEW w \in Worker, Validate(w)
  PROVE  \E u : StepOK(w, u)
<1>1. PICK s : s = worker[w]
  OBVIOUS
<1>2. PICK key : key = TrajectoryOf(s)
  OBVIOUS
<1>3. s \in Task /\ Grounded(s) /\ s # Free /\ s.step = "validate" /\ key \in Created
  BY <1>1, <1>2, Held DEF Validate, At, Grounded
<1>4. CASE ~IsContinuation(key, trajectories[key], s.proposal.parent_action_id)
  <2>1. Return(w) /\ UNCHANGED <<trajectories, actions, ran>>
    BY <1>1, <1>2, <1>4 DEF Validate
  <2> QED BY <2>1, TablesUnchanged, Returns DEF Validate
<1>5. CASE IsContinuation(key, trajectories[key], s.proposal.parent_action_id)
  <2>1. PICK a \in ActionId \ Recorded :
          /\ actions' = [actions EXCEPT ![a] = NewAction(s.proposal, s.intent, None, "PROPOSED")]
          /\ worker' = [worker EXCEPT
               ![w].action = a,
               ![w].step = IF s.proposal.sensitive_egress THEN "record_egress" ELSE "decide"]
    BY <1>1, <1>2, <1>5 DEF Validate
  <2>2. PICK r : r = NewAction(s.proposal, s.intent, None, "PROPOSED")
    OBVIOUS
  <2>3. s.proposal \in ActionProposal /\ s.intent \in IntentId /\ s.intent # None
    BY <1>3, IntentServiceAssumption DEF Task
  <2>4. /\ r \in AgentAction /\ r.policy_result # "ALLOW"
        /\ r.proposal = s.proposal /\ r.trajectory_intent = s.intent
    BY <2>2, <2>3, GatewayAssumption
    DEF NewAction, AgentAction, PolicyDecision, ToolExecutionStatus
  <2>5. Rewritten(a, r)
    BY <2>1, <2>2, <2>4 DEF Rewritten
  <2>6. TrajectoryTypeOK' /\ Created' = Created /\ ran' \in [ActionId -> Nat]
    BY DEF Validate, GatewayInv, GatewayTypeOK, TrajectoryTypeOK, Created
  <2>7. Tables
    BY <2>4, <2>5, <2>6, TablesRewritten
  <2>8. actions'[a] = r /\ a \in Recorded'
    BY <2>5, RewrittenKeeps
  <2>9. PICK t : t = [s EXCEPT !.action = a,
                 !.step = IF s.proposal.sensitive_egress THEN "record_egress" ELSE "decide"]
    OBVIOUS
  <2>10. /\ t \in Task /\ t.action = a /\ t.step \in {"record_egress", "decide"}
         /\ t.intent = s.intent /\ t.proposal = s.proposal
    BY <1>3, <2>9 DEF Task
  <2>11. worker' = [worker EXCEPT ![w] = t]
    BY <1>1, <1>3, <2>1, <2>9 DEF GatewayInv, GatewayTypeOK
  <2>12. Placed(a)' /\ KeyOf(a)' = key
    BY <1>2, <1>3, <2>3, <2>4, <2>6, <2>8 DEF Placed, KeyOf, TrajectoryOf
  <2>13. Grounded(t)'
    BY <1>2, <2>10, <2>12, TrajectoryAssumption DEF Grounded, TrajectoryOf
  <2> QED BY <2>7, <2>10, <2>11, <2>13 DEF StepOK, Tables, Validate
<1> QED BY <1>4, <1>5

(* In the steps that decide, the key the call works on is its action's.    *)
LEMMA Working ==
  ASSUME GatewayInv, NEW w \in Worker, worker[w] # Free, worker[w].step \in Evaluating
  PROVE  /\ worker[w].action \in ActionId /\ Placed(worker[w].action)
         /\ TrajectoryOf(worker[w]) = KeyOf(worker[w].action)
         /\ trajectories[TrajectoryOf(worker[w])] \in Trajectory
BY Held, PlacedTypes DEF Grounded, Evaluating

LEMMA RecordedTrajectory ==
  ASSUME NEW t \in Trajectory, NEW a \in ActionId
  PROVE  /\ Evaluated(t, a) \in Seq(ActionId)
         /\ [t EXCEPT !.evaluated = Evaluated(t, a), !.last = a] \in Trajectory
         /\ [t EXCEPT !.evaluated = Evaluated(t, a), !.last = a, !.pending = a] \in Trajectory
         /\ [t EXCEPT !.egress = @ \cup {a}] \in Trajectory
         /\ [t EXCEPT !.executed = @ \cup {a}] \in Trajectory
         /\ [t EXCEPT !.pending = IF @ = a THEN None ELSE @] \in Trajectory
<1>1. t.evaluated \in Seq(ActionId) /\ t.egress \subseteq ActionId /\ t.executed \subseteq ActionId
      /\ t.pending \in ActionId \cup {None}
  BY DEF Trajectory
<1>2. Append(t.evaluated, a) \in Seq(ActionId)
  BY <1>1
<1>3. Evaluated(t, a) \in Seq(ActionId)
  BY <1>1, <1>2 DEF Evaluated
<1>4. PICK e \in Seq(ActionId) : e = Evaluated(t, a)
  BY <1>3
<1>5. /\ [t EXCEPT !.evaluated = e, !.last = a] \in Trajectory
      /\ [t EXCEPT !.evaluated = e, !.last = a, !.pending = a] \in Trajectory
  BY DEF Trajectory
<1>6. /\ [t EXCEPT !.egress = @ \cup {a}] \in Trajectory
      /\ [t EXCEPT !.executed = @ \cup {a}] \in Trajectory
      /\ [t EXCEPT !.pending = IF @ = a THEN None ELSE @] \in Trajectory
  BY <1>1 DEF Trajectory
<1> QED BY <1>3, <1>4, <1>5, <1>6

LEMMA CountEgressStep ==
  ASSUME GatewayInv, NEW w \in Worker, CountEgress(w)
  PROVE  \E u : StepOK(w, u)
<1>1. PICK s : s = worker[w]
  OBVIOUS
<1>2. PICK key : key = TrajectoryOf(s)
  OBVIOUS
<1>3. /\ s \in Task /\ s # Free /\ s.step = "record_egress" /\ key \in Key
      /\ s.action \in ActionId /\ trajectories[key] \in Trajectory
  BY <1>1, <1>2, Held, Working DEF CountEgress, At, Evaluating
<1>4. PICK t \in Trajectory : t = [trajectories[key] EXCEPT !.egress = @ \cup {s.action}]
  BY <1>3, RecordedTrajectory
<1>5. Replace(key, t)
  BY <1>1, <1>2, <1>4 DEF CountEgress, RecordEgress
<1>6. Tables
  BY <1>3, <1>5, TablesReplaced DEF CountEgress
<1> QED BY <1>1, <1>3, <1>6, GoesTo DEF CountEgress, Evaluating

LEMMA RefreshStep ==
  ASSUME GatewayInv, NEW w \in Worker, Refresh(w)
  PROVE  \E u : StepOK(w, u)
<1>1. PICK s : s = worker[w]
  OBVIOUS
<1>2. s \in Task /\ Grounded(s) /\ s # Free /\ s.step = "refresh"
  BY <1>1, Held DEF Refresh, At
<1>3. PICK t : t = Observed(s, "decide", trajectories[TrajectoryOf(s)])
  OBVIOUS
<1>4. Continues(s, t)
  BY <1>2, <1>3, ObservedType DEF Continues, Grounded, Evaluating
<1>5. worker' = [worker EXCEPT ![w] = t]
  BY <1>1, <1>3 DEF Refresh
<1>6. Tables
  BY TablesUnchanged DEF Refresh
<1> QED BY <1>1, <1>2, <1>4, <1>5, <1>6, GoesOn DEF Refresh

LEMMA TablesUpdated ==
  ASSUME GatewayInv, NEW a, Placed(a), NEW decision \in PolicyDecision \cup {None},
         NEW execution_status \in ToolExecutionStatus, NEW approved \in BOOLEAN,
         Update(a, decision, execution_status, approved),
         TrajectoryTypeOK', Created \subseteq Created', ran' \in [ActionId -> Nat]
  PROVE  Tables
<1>1. a \in ActionId /\ a \in Recorded
  BY PlacedTypes
<1>2. PICK r : Rewritten(a, r)
  BY <1>1, UpdateRewrites
<1> QED BY <1>1, <1>2, TablesRewritten

LEMMA TablesRestarted ==
  ASSUME GatewayInv, NEW a, Placed(a), NEW x \in ToolExecutionStatus, SetExecutionStatus(a, x),
         TrajectoryTypeOK', Created \subseteq Created', ran' \in [ActionId -> Nat]
  PROVE  Tables
<1>1. a \in ActionId /\ a \in Recorded /\ actions[a] \in AgentAction
  BY PlacedTypes
<1>2. PICK r : r = [actions[a] EXCEPT !.execution_status = x]
  OBVIOUS
<1>3. /\ r \in AgentAction /\ r.proposal = actions[a].proposal
      /\ r.trajectory_intent = actions[a].trajectory_intent
  BY <1>1, <1>2 DEF AgentAction
<1>4. Rewritten(a, r)
  BY <1>2, <1>3 DEF Rewritten, SetExecutionStatus
<1> QED BY <1>1, <1>4, TablesRewritten

LEMMA VerdictType ==
  ASSUME NEW t
  PROVE  Verdict(t) \in PolicyDecision
BY DEF Verdict, PolicyDecision

LEMMA DecideStep ==
  ASSUME GatewayInv, NEW w \in Worker, Decide(w)
  PROVE  \E u : StepOK(w, u)
<1>1. PICK s : s = worker[w]
  OBVIOUS
<1>2. PICK a : a = s.action
  OBVIOUS
<1>3. /\ s \in Task /\ s # Free /\ s.step = "decide" /\ a \in ActionId /\ Placed(a)
      /\ a \in Recorded /\ actions[a] \in AgentAction /\ Grounded(s)
  BY <1>1, <1>2, Held, Working, PlacedTypes DEF Decide, At, Evaluating
<1>4. PICK d : d = IF ResolvedGrant(s) THEN s.proposal.delegation_id ELSE None
  OBVIOUS
<1>5. d \in DelegationId \cup {None}
  BY <1>4 DEF ResolvedGrant, Issued
<1>6. PICK r : r = [actions[a] EXCEPT !.delegation_id = d]
  OBVIOUS
<1>7. /\ r \in AgentAction /\ r.proposal = actions[a].proposal
      /\ r.trajectory_intent = actions[a].trajectory_intent
      /\ r.policy_result = actions[a].policy_result
  BY <1>3, <1>5, <1>6 DEF AgentAction
<1>8. actions' = [actions EXCEPT ![a] = r]
  BY <1>1, <1>2, <1>4, <1>6 DEF Decide
<1>9. Rewritten(a, r)
  BY <1>7, <1>8 DEF Rewritten
<1>10. TrajectoryTypeOK' /\ Created' = Created /\ ran' \in [ActionId -> Nat]
  BY DEF Decide, GatewayInv, GatewayTypeOK, TrajectoryTypeOK, Created
<1>11. Tables
  BY <1>3, <1>7, <1>9, <1>10, TablesRewritten
<1>12. PICK v \in PolicyDecision : v = Verdict(s)
  BY VerdictType
<1>13. PICK t : t = [s EXCEPT !.step = "record", !.decision = v]
  OBVIOUS
<1>14. Continues(s, t)
  BY <1>3, <1>13 DEF Continues, Task, Grounded, Evaluating
<1>15. worker' = [worker EXCEPT ![w] = t]
  BY <1>1, <1>3, <1>12, <1>13 DEF Decide, GatewayInv, GatewayTypeOK
<1> QED BY <1>1, <1>3, <1>11, <1>14, <1>15, GoesOn DEF Decide

LEMMA RecordStep ==
  ASSUME GatewayInv, NEW w \in Worker, Record(w)
  PROVE  \E u : StepOK(w, u)
<1>1. PICK s : s = worker[w]
  OBVIOUS
<1>2. PICK key : key = TrajectoryOf(s)
  OBVIOUS
<1>3. /\ s \in Task /\ s # Free /\ s.step = "record" /\ key \in Key
      /\ s.action \in ActionId /\ trajectories[key] \in Trajectory
  BY <1>1, <1>2, Held, Working DEF Record, At, Evaluating
<1>4. PICK old : old = trajectories[key]
  OBVIOUS
<1>5. PICK t \in Trajectory : t = [old EXCEPT !.evaluated = Evaluated(old, s.action),
                                              !.last = s.action]
  BY <1>3, <1>4, RecordedTrajectory
<1>6. Replace(key, t)
  BY <1>1, <1>2, <1>4, <1>5 DEF Record, RecordEvaluation
<1>7. Tables
  BY <1>3, <1>6, TablesReplaced DEF Record
<1>8. PICK x : x = AfterRecord(s)
  OBVIOUS
<1>9. x \in {"quarantine", "pend", "charge_grant", "charge_intent", "finish"}
  BY <1>8 DEF AfterRecord, AfterRecordByDecision
<1>10. GoTo(w, x)
  BY <1>1, <1>8 DEF Record
<1> QED BY <1>1, <1>3, <1>7, <1>9, <1>10, GoesTo DEF Record, Evaluating

LEMMA SetCheckpointStep ==
  ASSUME GatewayInv, NEW w \in Worker, SetCheckpoint(w)
  PROVE  \E u : StepOK(w, u)
<1>1. PICK s : s = worker[w]
  OBVIOUS
<1>2. PICK key : key = TrajectoryOf(s)
  OBVIOUS
<1>3. /\ s \in Task /\ s # Free /\ s.step = "pend" /\ key \in Key
      /\ s.action \in ActionId /\ trajectories[key] \in Trajectory
  BY <1>1, <1>2, Held, Working DEF SetCheckpoint, At, Evaluating
<1>4. CASE MayPend(key, s.action)
  <2>1. PICK old : old = trajectories[key]
    OBVIOUS
  <2>2. PICK t \in Trajectory : t = [old EXCEPT !.evaluated = Evaluated(old, s.action),
                                                !.last = s.action, !.pending = s.action]
    BY <1>3, <2>1, RecordedTrajectory
  <2>3. Replace(key, t) /\ GoTo(w, "finish")
    BY <1>1, <1>2, <1>4, <2>1, <2>2 DEF SetCheckpoint, SetPending
  <2>4. Tables
    BY <1>3, <2>3, TablesReplaced DEF SetCheckpoint
  <2> QED BY <1>1, <1>3, <2>3, <2>4, GoesTo DEF SetCheckpoint, Evaluating
<1>5. CASE ~MayPend(key, s.action)
  <2>1. Return(w) /\ UNCHANGED <<trajectories, actions, ran>>
    BY <1>1, <1>2, <1>5 DEF SetCheckpoint
  <2> QED BY <2>1, TablesUnchanged, Returns DEF SetCheckpoint
<1> QED BY <1>4, <1>5

LEMMA QuarantineStep ==
  ASSUME GatewayInv, NEW w \in Worker, Quarantine(w)
  PROVE  \E u : StepOK(w, u)
<1>1. PICK s : s = worker[w]
  OBVIOUS
<1>2. /\ s # Free /\ s.step = "quarantine"
      /\ s.intent \in IntentId /\ s.proposal.agent_id \in Agent
  BY <1>1, Held DEF Quarantine, At
<1>3. DelegationNext
  BY <1>1, <1>2 DEF Quarantine, DelegationNext
<1>4. Tables
  BY TablesUnchanged DEF Quarantine
<1> QED BY <1>1, <1>2, <1>3, <1>4, GoesTo DEF Quarantine, Evaluating

(* A call that is denied a reservation still has its action.               *)
LEMMA DeniesLate ==
  ASSUME GatewayInv, NEW w \in Worker, worker[w] # Free, worker[w].step \in Evaluating,
         [DelegationNext]_delegation_vars, Tables, DenyLate(w)
  PROVE  \E u : StepOK(w, u)
<1>1. PICK s : s = worker[w]
  OBVIOUS
<1>2. s \in Task /\ Grounded(s) /\ s.step \in Evaluating
  BY <1>1, Held
<1>3. PICK t : t = [s EXCEPT !.step = "finish", !.decision = "DENY"]
  OBVIOUS
<1>4. Continues(s, t)
  BY <1>2, <1>3 DEF Continues, Task, Grounded, Evaluating, PolicyDecision
<1>5. worker' = [worker EXCEPT ![w] = t]
  BY <1>1, <1>3 DEF DenyLate, GatewayInv, GatewayTypeOK
<1> QED BY <1>1, <1>4, <1>5, GoesOn

LEMMA ChargeGrantStep ==
  ASSUME GatewayInv, NEW w \in Worker, ChargeGrant(w)
  PROVE  \E u : StepOK(w, u)
<1>1. worker[w] # Free /\ worker[w].step = "charge_grant"
  BY DEF ChargeGrant, At
<1>2. Tables
  BY TablesUnchanged DEF ChargeGrant
<1>3. PICK d : d = actions[worker[w].action].delegation_id
  OBVIOUS
<1>4. CASE ReserveActionDispatch(d) /\ GoTo(w, "charge_intent")
  <2>1. DelegationNext
    BY <1>4 DEF ReserveActionDispatch, Issued, DelegationNext
  <2> QED BY <1>1, <1>2, <1>4, <2>1, GoesTo DEF Evaluating
<1>5. CASE DenyLate(w) /\ UNCHANGED delegation_vars
  BY <1>1, <1>2, <1>5, DeniesLate DEF Evaluating
<1> QED BY <1>3, <1>4, <1>5 DEF ChargeGrant

LEMMA ChargeIntentStep ==
  ASSUME GatewayInv, NEW w \in Worker, ChargeIntent(w)
  PROVE  \E u : StepOK(w, u)
<1>1. worker[w] # Free /\ worker[w].step = "charge_intent" /\ worker[w].intent \in IntentId
  BY Held DEF ChargeIntent, At
<1>2. Tables
  BY TablesUnchanged DEF ChargeIntent
<1>3. PICK i \in IntentId : i = worker[w].intent
  BY <1>1
<1>4. CASE ReserveToolExecution(i) /\ GoTo(w, "finish")
  <2>1. IntentNext /\ IntentStep /\ DelegationNext
    BY <1>4 DEF ChargeIntent, IntentNext, IntentStep, DelegationNext
  <2> QED BY <1>1, <1>2, <1>4, <2>1, GoesTo DEF Evaluating
<1>5. CASE DenyLate(w) /\ UNCHANGED intent_vars
  <2>1. UNCHANGED delegation_vars
    BY <1>5 DEF ChargeIntent, delegation_vars
  <2> QED BY <1>1, <1>2, <1>5, <2>1, DeniesLate DEF Evaluating
<1> QED BY <1>3, <1>4, <1>5 DEF ChargeIntent

LEMMA FinishEvaluateStep ==
  ASSUME GatewayInv, NEW w \in Worker, FinishEvaluate(w)
  PROVE  \E u : StepOK(w, u)
<1>1. PICK s : s = worker[w]
  OBVIOUS
<1>2. s \in Task /\ s # Free /\ s.step = "finish" /\ Placed(s.action)
  BY <1>1, Held, Working DEF FinishEvaluate, At, Evaluating
<1>3. s.decision \in PolicyDecision \cup {None} /\ StatusOf(s.decision) \in ToolExecutionStatus
  BY <1>2 DEF Task, StatusOf, ToolExecutionStatus
<1>4. Update(s.action, s.decision, StatusOf(s.decision), FALSE)
  BY <1>1 DEF FinishEvaluate
<1>5. TrajectoryTypeOK' /\ Created' = Created /\ ran' \in [ActionId -> Nat]
  BY DEF FinishEvaluate, GatewayInv, GatewayTypeOK, TrajectoryTypeOK, Created
<1>6. PICK a, d, x : a = s.action /\ d = s.decision /\ x = StatusOf(s.decision)
  OBVIOUS
<1>7. Tables
  BY <1>2, <1>3, <1>4, <1>5, <1>6, TablesUpdated
<1> QED BY <1>7, Returns DEF FinishEvaluate

-----------------------------------------------------------------------------
(* Resolving a checkpoint and running a tool.                              *)

(* A call that begins with an action already recorded.                     *)
LEMMA BeginsWith ==
  ASSUME GatewayInv, NEW w \in Worker, NEW a, Placed(a),
         UNCHANGED <<delegation_vars, trajectories, actions, ran>>,
         NEW x \in {"read_contract", "refuse", "start"},
         worker' = [worker EXCEPT ![w] =
           [step |-> x, proposal |-> actions[a].proposal, action |-> a,
            intent |-> actions[a].trajectory_intent, seen |-> NoContract,
            exceeded |-> FALSE, halted |-> FALSE, decision |-> None]]
  PROVE  \E u : StepOK(w, u)
<1>1. /\ a \in ActionId /\ actions[a].proposal \in ActionProposal
      /\ actions[a].trajectory_intent \in IntentId
  BY PlacedTypes
<1>2. PICK t : t = [step |-> x, proposal |-> actions[a].proposal, action |-> a,
                    intent |-> actions[a].trajectory_intent, seen |-> NoContract,
                    exceeded |-> FALSE, halted |-> FALSE, decision |-> None]
  OBVIOUS
<1>3. t \in Task /\ t.action = a /\ t.step = x
  BY <1>1, <1>2 DEF Task
<1>4. Tables
  BY TablesUnchanged
<1>5. Placed(a)'
  BY <1>4, PlacedStays DEF Tables
<1>6. Grounded(t)'
  BY <1>3, <1>5, TrajectoryAssumption, <1>1 DEF Grounded, Evaluating
<1> QED BY <1>2, <1>3, <1>4, <1>6 DEF StepOK, Tables

LEMMA OpenCheckpointStep ==
  ASSUME GatewayInv, NEW w \in Worker, NEW a \in ActionId, NEW approved \in BOOLEAN,
         OpenCheckpoint(w, a, approved)
  PROVE  \E u : StepOK(w, u)
<1>1. Placed(a)
  BY IntentServiceAssumption DEF OpenCheckpoint, Placed, Created, Key, KeyOf
<1>2. PICK x \in {"read_contract", "refuse"} :
        x = IF approved /\ KeyOf(a) \notin stopped THEN "read_contract" ELSE "refuse"
  OBVIOUS
<1> QED BY <1>1, <1>2, BeginsWith DEF OpenCheckpoint

LEMMA BeginExecuteStep ==
  ASSUME GatewayInv, NEW w \in Worker, NEW a \in ActionId, BeginExecute(w, a)
  PROVE  \E u : StepOK(w, u)
<1>1. Placed(a)
  BY DEF BeginExecute, GatewayInv, ActionsGrounded
<1> QED BY <1>1, BeginsWith DEF BeginExecute

(* In the steps of a resolution and of an execution the action is there.   *)
LEMMA Resolving ==
  ASSUME GatewayInv, NEW w \in Worker, worker[w] # Free,
         worker[w].step \notin {"open", "validate"}
  PROVE  /\ worker[w].action \in ActionId /\ Placed(worker[w].action)
         /\ KeyOf(worker[w].action) \in Key
         /\ trajectories[KeyOf(worker[w].action)] \in Trajectory
BY Held, PlacedTypes DEF Grounded

LEMMA ReadContractStep ==
  ASSUME GatewayInv, NEW w \in Worker, ReadContract(w)
  PROVE  \E u : StepOK(w, u)
<1>1. PICK s : s = worker[w]
  OBVIOUS
<1>2. /\ s \in Task /\ s # Free /\ s.step = "read_contract" /\ Grounded(s)
      /\ s.proposal.session_id \in Session
  BY <1>1, Held DEF ReadContract, At
<1>3. PICK i : i = session_to_intent[s.proposal.session_id]
  OBVIOUS
<1>4. i \in IntentId /\ GetIntent(i)
  BY <1>1, <1>2, <1>3 DEF ReadContract, GetIntentForSession, GatewayInv, GatewayTypeOK,
     DelegationTypeOK, IntentTypeOK
<1>5. PICK c \in Contract : c = intents'[i]
  BY <1>4, GetIntentType DEF GatewayInv, GatewayTypeOK, DelegationTypeOK
<1>6. IntentNext /\ DelegationNext
  BY <1>4 DEF ReadContract, IntentNext, DelegationNext, IntentStep
<1>7. PICK x \in {"reserve", "refuse"} :
        worker' = [worker EXCEPT ![w].intent = i, ![w].seen = c, ![w].step = x]
  BY <1>1, <1>3, <1>5 DEF ReadContract
<1>8. PICK t : t = [s EXCEPT !.intent = i, !.seen = c, !.step = x]
  OBVIOUS
<1>9. Continues(s, t)
  BY <1>2, <1>4, <1>8 DEF Continues, Task, Grounded, Evaluating
<1>10. worker' = [worker EXCEPT ![w] = t]
  BY <1>1, <1>7, <1>8 DEF GatewayInv, GatewayTypeOK
<1>11. Tables
  BY TablesUnchanged DEF ReadContract
<1> QED BY <1>1, <1>2, <1>6, <1>9, <1>10, <1>11, GoesOn

LEMMA ReserveForApprovalStep ==
  ASSUME GatewayInv, NEW w \in Worker, ReserveForApproval(w)
  PROVE  \E u : StepOK(w, u)
<1>1. worker[w] # Free /\ worker[w].step = "reserve" /\ worker[w].intent \in IntentId
  BY Held DEF ReserveForApproval, At
<1>2. Tables
  BY TablesUnchanged DEF ReserveForApproval
<1>3. PICK i \in IntentId : i = worker[w].intent
  BY <1>1
<1>4. CASE ReserveToolExecution(i) /\ GoTo(w, "approve")
  <2>1. IntentNext /\ IntentStep /\ DelegationNext
    BY <1>4 DEF ReserveForApproval, IntentNext, IntentStep, DelegationNext
  <2> QED BY <1>1, <1>2, <1>4, <2>1, GoesTo DEF Evaluating
<1>5. CASE GoTo(w, "refuse") /\ UNCHANGED intent_vars
  <2>1. UNCHANGED delegation_vars
    BY <1>5 DEF ReserveForApproval, delegation_vars
  <2> QED BY <1>1, <1>2, <1>5, <2>1, GoesTo DEF Evaluating
<1> QED BY <1>3, <1>4, <1>5 DEF ReserveForApproval

LEMMA ClearPendingKeeps ==
  ASSUME GatewayInv, NEW a \in ActionId, Placed(a), ClearPending(KeyOf(a), a)
  PROVE  TrajectoryTypeOK' /\ Created \subseteq Created'
<1>1. PICK key \in Key : key = KeyOf(a) /\ trajectories[key] \in Trajectory
  BY PlacedTypes
<1>2. PICK t \in Trajectory :
        t = [trajectories[key] EXCEPT !.pending = IF @ = a THEN None ELSE @]
  BY <1>1, RecordedTrajectory
<1> QED BY <1>1, <1>2, ReplaceKeeps DEF ClearPending

LEMMA ResolvedTables ==
  ASSUME GatewayInv, NEW a \in ActionId, Placed(a), ClearPending(KeyOf(a), a), UNCHANGED ran,
         NEW decision \in PolicyDecision, NEW x \in ToolExecutionStatus, NEW approved \in BOOLEAN,
         Update(a, decision, x, approved)
  PROVE  Tables
<1>1. ran' \in [ActionId -> Nat]
  BY DEF GatewayInv, GatewayTypeOK
<1> QED BY <1>1, ClearPendingKeeps, TablesUpdated

LEMMA RefuseStep ==
  ASSUME GatewayInv, NEW w \in Worker, Refuse(w)
  PROVE  \E u : StepOK(w, u)
<1>1. PICK a : a = worker[w].action
  OBVIOUS
<1>2. a \in ActionId /\ Placed(a)
  BY <1>1, Resolving DEF Refuse, At
<1>3. Tables
  BY <1>1, <1>2, ResolvedTables DEF Refuse, PolicyDecision, ToolExecutionStatus
<1> QED BY <1>3, Returns DEF Refuse

LEMMA ApproveStep ==
  ASSUME GatewayInv, NEW w \in Worker, Approve(w)
  PROVE  \E u : StepOK(w, u)
<1>1. PICK a : a = worker[w].action
  OBVIOUS
<1>2. a \in ActionId /\ Placed(a) /\ worker[w] # Free /\ worker[w].step = "approve"
  BY <1>1, Resolving DEF Approve, At
<1>3. Tables
  BY <1>1, <1>2, ResolvedTables DEF Approve, PolicyDecision, ToolExecutionStatus
<1> QED BY <1>2, <1>3, GoesTo DEF Approve, Evaluating

LEMMA GateStep ==
  ASSUME GatewayInv, NEW w \in Worker, Gate(w)
  PROVE  \E u : StepOK(w, u)
<1>1. Tables /\ worker[w] # Free /\ worker[w].step = "gate"
  BY TablesUnchanged DEF Gate, At
<1>2. CASE Return(w)
  BY <1>1, <1>2, Returns DEF Gate
<1>3. CASE GoTo(w, "start")
  BY <1>1, <1>3, GoesTo DEF Gate, Evaluating
<1> QED BY <1>2, <1>3 DEF Gate

LEMMA StartStep ==
  ASSUME GatewayInv, NEW w \in Worker, Start(w)
  PROVE  \E u : StepOK(w, u)
<1>1. PICK a : a = worker[w].action
  OBVIOUS
<1>2. a \in ActionId /\ Placed(a) /\ worker[w] # Free /\ worker[w].step = "start"
  BY <1>1, Resolving DEF Start, At
<1>3. TrajectoryTypeOK' /\ Created' = Created /\ ran' \in [ActionId -> Nat]
  BY DEF Start, GatewayInv, GatewayTypeOK, TrajectoryTypeOK, Created
<1>4. Tables
  BY <1>1, <1>2, <1>3, TablesRestarted DEF Start, ToolExecutionStatus
<1> QED BY <1>2, <1>4, GoesTo DEF Start, Evaluating

LEMMA RunToolStep ==
  ASSUME GatewayInv, NEW w \in Worker, RunTool(w)
  PROVE  \E u : StepOK(w, u)
<1>1. PICK a : a = worker[w].action
  OBVIOUS
<1>2. a \in ActionId /\ Placed(a) /\ worker[w] # Free /\ worker[w].step = "run"
  BY <1>1, Resolving DEF RunTool, At
<1>3. ran' \in [ActionId -> Nat]
  BY <1>1, <1>2 DEF RunTool, GatewayInv, GatewayTypeOK
<1>4. PICK key \in Key : key = KeyOf(a) /\ trajectories[key] \in Trajectory
  BY <1>2, PlacedTypes
<1>5. CASE SetExecutionStatus(a, "COMPLETED") /\ RecordExecution(key, a)
  <2>1. PICK t \in Trajectory : t = [trajectories[key] EXCEPT !.executed = @ \cup {a}]
    BY <1>2, <1>4, RecordedTrajectory
  <2>2. TrajectoryTypeOK' /\ Created \subseteq Created'
    BY <1>5, <2>1, ReplaceKeeps DEF RecordExecution
  <2>3. Tables
    BY <1>2, <1>3, <1>5, <2>2, TablesRestarted DEF ToolExecutionStatus
  <2> QED BY <2>3, Returns DEF RunTool
<1>6. CASE SetExecutionStatus(a, "FAILED") /\ UNCHANGED trajectories
  <2>1. TrajectoryTypeOK' /\ Created' = Created
    BY <1>6 DEF GatewayInv, GatewayTypeOK, TrajectoryTypeOK, Created
  <2>2. Tables
    BY <1>2, <1>3, <1>6, <2>1, TablesRestarted DEF ToolExecutionStatus
  <2> QED BY <2>2, Returns DEF RunTool
<1> QED BY <1>1, <1>4, <1>5, <1>6 DEF RunTool

LEMMA AssertionFailsStep ==
  ASSUME GatewayInv, NEW w \in Worker, AssertionFails(w)
  PROVE  \E u : StepOK(w, u)
<1>1. Tables
  BY TablesUnchanged DEF AssertionFails
<1> QED BY <1>1, Returns DEF AssertionFails

-----------------------------------------------------------------------------
(* The other services go their own way.                                    *)
LEMMA ControlPlaneStep ==
  ASSUME GatewayInv, ControlPlane
  PROVE  DelegationNext /\ GatewayInv'
<1>1. DelegationNext
  <2>1. CASE DelegationCall
    BY <2>1 DEF DelegationCall, DelegationNext
  <2>2. CASE IntentCall /\ UNCHANGED <<store_vars, pending, asked, holder, stopped>>
    BY <2>2 DEF IntentCall, IntentNext, IntentStep, DelegationNext
  <2>3. CASE Tick /\ UNCHANGED <<store_vars, pending, asked, holder, stopped>>
    BY <2>3 DEF IntentNext, IntentStep, DelegationNext
  <2>4. CASE Finish
    BY <2>4 DEF DelegationNext
  <2> QED BY <2>1, <2>2, <2>3, <2>4 DEF ControlPlane
<1>2. DelegationTypeOK'
  BY <1>1, DelegationTypeStep DEF GatewayInv, GatewayTypeOK
<1>3. UNCHANGED <<trajectories, actions, worker, ran>>
  BY DEF ControlPlane
<1>4. TrajectoryTypeOK' /\ GatewayTypeOK'
  BY <1>2, <1>3 DEF GatewayInv, GatewayTypeOK, TrajectoryTypeOK
<1>5. Created' = Created /\ Recorded' = Recorded
  BY <1>3 DEF Created, Recorded
<1>6. WorkersGrounded'
  BY <1>3, <1>5 DEF GatewayInv, WorkersGrounded, Grounded, Placed, KeyOf, TrajectoryOf
<1>7. ActionsGrounded'
  BY <1>3, <1>5 DEF GatewayInv, ActionsGrounded, MayRun, Placed, KeyOf
<1> QED BY <1>1, <1>4, <1>6, <1>7 DEF GatewayInv

LEMMA WorkerStepOK ==
  ASSUME GatewayInv, NEW w \in Worker, NewCall(w) \/ WorkerStep(w)
  PROVE  \E u : StepOK(w, u)
<1>1. CASE NewCall(w)
  BY <1>1, BeginEvaluateStep, EvaluateUngovernedStep, OpenCheckpointStep, BeginExecuteStep
  DEF NewCall
<1>2. CASE WorkerStep(w)
  BY <1>2, OpenTrajectoryStep, ValidateStep, CountEgressStep, RefreshStep, DecideStep,
     RecordStep, SetCheckpointStep, QuarantineStep, ChargeGrantStep, ChargeIntentStep,
     FinishEvaluateStep, ReadContractStep, ReserveForApprovalStep, RefuseStep, ApproveStep,
     GateStep, StartStep, RunToolStep, AssertionFailsStep
  DEF WorkerStep
<1> QED BY <1>1, <1>2

(* Every step of the gateway keeps the invariant, and is a step of the     *)
(* delegation system or none.                                              *)
LEMMA GatewayStep ==
  ASSUME GatewayInv, [GatewayNext]_gateway_vars
  PROVE  GatewayInv' /\ [DelegationNext]_delegation_vars
<1>1. CASE ControlPlane
  BY <1>1, ControlPlaneStep
<1>2. ASSUME NEW w \in Worker, NewCall(w) \/ WorkerStep(w)
      PROVE  GatewayInv' /\ [DelegationNext]_delegation_vars
  <2>1. PICK t : StepOK(w, t)
    BY <1>2, WorkerStepOK
  <2> QED BY <2>1, InvFromStep DEF StepOK
<1>3. CASE UNCHANGED gateway_vars
  <2>1. UNCHANGED delegation_vars /\ UNCHANGED <<trajectories, actions, worker, ran>>
    BY <1>3 DEF gateway_vars
  <2>2. DelegationTypeOK'
    BY <2>1, DelegationTypeStep DEF GatewayInv, GatewayTypeOK
  <2>3. TrajectoryTypeOK' /\ GatewayTypeOK'
    BY <2>1, <2>2 DEF GatewayInv, GatewayTypeOK, TrajectoryTypeOK
  <2>4. Created' = Created /\ Recorded' = Recorded
    BY <2>1 DEF Created, Recorded
  <2>5. WorkersGrounded' /\ ActionsGrounded'
    BY <2>1, <2>4 DEF GatewayInv, WorkersGrounded, Grounded, Placed, KeyOf, TrajectoryOf,
       ActionsGrounded, MayRun
  <2> QED BY <2>1, <2>3, <2>5 DEF GatewayInv
<1> QED BY <1>1, <1>2, <1>3 DEF GatewayNext

LEMMA GatewayStart == GatewayInit => GatewayInv /\ DelegationInit
<1> SUFFICES ASSUME GatewayInit PROVE GatewayInv /\ DelegationInit
  OBVIOUS
<1>1. DelegationTypeOK
  BY IntentServiceAssumption, DelegationAssumption
     DEF GatewayInit, DelegationInit, DelegationTypeOK, IntentInit, IntentTypeOK
<1> QED BY <1>1, GatewayAssumption DEF GatewayInit, TrajectoryInit, GatewayInv, GatewayTypeOK,
           TrajectoryTypeOK, WorkersGrounded, ActionsGrounded, Recorded

LEMMA GatewayInvariant == GatewaySpec => []GatewayInv
BY GatewayStart, GatewayStep, PTL DEF GatewaySpec

(* The tables of the gateway stay well typed, however its calls, the calls *)
(* of the control plane and those of the agents interleave                 *)
(* (evaluate_proposal, resolve_pending_approval, execute_authorized_action).*)
THEOREM GatewayTypeCorrect == GatewaySpec => []GatewayTypeOK
<1>1. GatewayInv => GatewayTypeOK
  BY DEF GatewayInv
<1> QED BY <1>1, GatewayInvariant, PTL

(* The gateway uses the services as they are meant to be used: whatever it *)
(* does is behaviour of the delegation system.                             *)
THEOREM GatewayUsesDelegation == GatewaySpec => DelegationSpec
BY GatewayStart, GatewayStep, GatewayInvariant, PTL DEF GatewaySpec, DelegationSpec

THEOREM DelegationUsesIntents == DelegationSpec => IntentSpec
<1>1. DelegationInit => IntentInit
  BY DEF DelegationInit
<1> QED BY <1>1, TableStep, DelegationTypeCorrect, PTL DEF DelegationSpec, IntentSpec

(* Under the gateway too the quota of a contract is never overdrawn, by    *)
(* decisions and approvals that interleave in any way.                     *)
THEOREM GatewayQuotaSafe == GatewaySpec => []QuotaRespected
BY GatewayUsesDelegation, DelegationUsesIntents, QuotaSafe, PTL

(* Under the gateway too a grant that stopped authorising never authorises *)
(* again.                                                                  *)
THEOREM GatewayNeverRegained == GatewaySpec => NeverRegained
BY GatewayUsesDelegation, NeverRegainedSafe

-----------------------------------------------------------------------------
(***************************************************************************)
(* A delegated action that may run stays within every grant of its chain.  *)
(* The decision is taken on one snapshot, waits for a human, is paid for   *)
(* and recorded, each in a critical section of its own: what is carried    *)
(* from the decision to the record of the action is that its proposal was  *)
(* covered, which stays true because grants are never rewritten.           *)
(***************************************************************************)
WithinGrant(p) ==
  p.delegation_id # None =>
    /\ p.delegation_id \in Issued
    /\ p.agent_id = grants[p.delegation_id].delegatee_agent_id
    /\ \A k \in Chain(p.delegation_id) : Allows(grants[k].authority_envelope, p.operation)

ActionCovered(a) ==
  /\ actions[a].delegation_id \in {None, actions[a].proposal.delegation_id}
  /\ MayRun(a) => WithinGrant(actions[a].proposal)

CheckpointCovered(key) ==
  LET a == trajectories[key].pending
  IN  a # None => a \in Recorded /\ WithinGrant(actions[a].proposal)

CallCovered(t) ==
  /\ t.action # None => t.proposal = actions[t.action].proposal
  /\ t.decision \in {"ALLOW", "REQUIRE_APPROVAL"} => WithinGrant(t.proposal)
  /\ t.step = "pend" => t.decision = "REQUIRE_APPROVAL"
  /\ t.step \in {"read_contract", "reserve", "approve"} => WithinGrant(t.proposal)

ActionsCovered == \A a \in Recorded : ActionCovered(a)
CheckpointsCovered == \A key \in Created : CheckpointCovered(key)
CallsCovered == \A w \in Worker : worker[w] # Free => CallCovered(worker[w])

Covered == ActionsCovered /\ CheckpointsCovered /\ CallsCovered

(* What a call may assume of the state and of the step it takes.           *)
Sound == GatewayInv /\ LineageInv /\ Covered
Orderly == [DelegationNext]_delegation_vars /\ HistoryKept

-----------------------------------------------------------------------------
LEMMA CoverStays ==
  ASSUME Sound, Orderly, NEW p, WithinGrant(p)
  PROVE  WithinGrant(p)'
<1> SUFFICES ASSUME p.delegation_id # None
             PROVE  /\ p.delegation_id \in Issued'
                    /\ p.agent_id = grants'[p.delegation_id].delegatee_agent_id
                    /\ \A k \in Chain(p.delegation_id)' :
                         Allows(grants'[k].authority_envelope, p.operation)
  BY DEF WithinGrant, Allows
<1>1. PICK d : d = p.delegation_id
  OBVIOUS
<1>2. d \in Issued /\ Chain(d) \subseteq Issued
  BY <1>1, ChainClosed DEF WithinGrant
<1>3. Chain(d)' = Chain(d)
  BY <1>2, ChainStable DEF Sound, LineageInv, Orderly
<1>4. Issued \subseteq Issued' /\ \A k \in Issued : grants'[k] = grants[k]
  BY IssuedGrows DEF Sound, LineageInv, Orderly
<1> QED BY <1>1, <1>2, <1>3, <1>4 DEF WithinGrant

LEMMA ActionStays ==
  ASSUME Sound, Orderly, NEW a \in Recorded, actions'[a].delegation_id = actions[a].delegation_id,
         MayRun(a)' => MayRun(a) \/ WithinGrant(actions[a].proposal)
  PROVE  ActionCovered(a)'
<1>1. PICK p : p = actions[a].proposal
  OBVIOUS
<1>2. actions'[a].proposal = p
  BY <1>1 DEF Orderly, HistoryKept
<1>3. MayRun(a)' => WithinGrant(p)'
  BY <1>1, CoverStays DEF Sound, Covered, ActionsCovered, ActionCovered
<1>4. MayRun(a)' => WithinGrant(actions[a].proposal)'
  BY <1>2, <1>3 DEF WithinGrant, Allows
<1>5. actions[a].delegation_id \in {None, p.delegation_id}
  BY <1>1 DEF Sound, Covered, ActionsCovered, ActionCovered
<1> QED BY <1>2, <1>4, <1>5 DEF ActionCovered

LEMMA ActionsStay ==
  ASSUME Sound, Orderly, UNCHANGED actions
  PROVE  ActionsCovered'
<1> SUFFICES ASSUME NEW a \in Recorded' PROVE ActionCovered(a)'
  BY DEF ActionsCovered
<1>1. a \in Recorded /\ (MayRun(a)' => MayRun(a))
  BY DEF Recorded, MayRun
<1> QED BY <1>1, ActionStays

(* One action is rewritten, and what becomes of it is covered.             *)
LEMMA ActionsRewritten ==
  ASSUME Sound, Orderly, NEW a \in ActionId, NEW r, Rewritten(a, r),
         r.delegation_id \in {None, r.proposal.delegation_id},
         r.policy_result = "ALLOW" => WithinGrant(r.proposal)
  PROVE  ActionsCovered'
<1>1. /\ Recorded' = Recorded \cup {a} /\ actions'[a] = r
      /\ \A b \in ActionId \ {a} : actions'[b] = actions[b]
  BY RewrittenKeeps DEF Sound
<1>2. ActionCovered(a)'
  <2>1. r.policy_result = "ALLOW" => WithinGrant(r.proposal)'
    BY CoverStays
  <2>2. r.policy_result = "ALLOW" => WithinGrant(actions[a].proposal)'
    BY <1>1, <2>1 DEF WithinGrant, Allows
  <2> QED BY <1>1, <2>2 DEF ActionCovered, MayRun
<1>3. ASSUME NEW b \in Recorded \ {a} PROVE ActionCovered(b)'
  <2>1. actions'[b] = actions[b]
    BY <1>1 DEF Recorded
  <2> QED BY <2>1, ActionStays DEF MayRun
<1> QED BY <1>1, <1>2, <1>3 DEF ActionsCovered

LEMMA CheckpointsStay ==
  ASSUME Sound, Orderly,
         \A key \in Created' : LET a == trajectories'[key].pending IN
           \/ a = None
           \/ key \in Created /\ a = trajectories[key].pending
           \/ a \in Recorded /\ WithinGrant(actions[a].proposal)
  PROVE  CheckpointsCovered'
<1> SUFFICES ASSUME NEW key \in Created' PROVE CheckpointCovered(key)'
  BY DEF CheckpointsCovered
<1>1. PICK a : a = trajectories'[key].pending
  OBVIOUS
<1>2. CASE a = None
  BY <1>1, <1>2 DEF CheckpointCovered
<1>3. CASE a # None
  <2>1. a \in Recorded /\ WithinGrant(actions[a].proposal)
    BY <1>1, <1>3 DEF Sound, Covered, CheckpointsCovered, CheckpointCovered
  <2>2. PICK p : p = actions[a].proposal
    OBVIOUS
  <2>3. a \in Recorded' /\ actions'[a].proposal = p
    BY <2>1, <2>2 DEF Orderly, HistoryKept
  <2>4. WithinGrant(p)'
    BY <2>1, <2>2, CoverStays
  <2>5. actions'[trajectories'[key].pending].proposal = p /\ trajectories'[key].pending = a
    BY <1>1, <2>3
  <2>6. WithinGrant(actions[trajectories[key].pending].proposal)'
    BY <2>4, <2>5 DEF WithinGrant, Allows
  <2> QED BY <2>3, <2>5, <2>6 DEF CheckpointCovered
<1> QED BY <1>2, <1>3

LEMMA CheckpointsKept ==
  ASSUME Sound, Orderly, UNCHANGED trajectories
  PROVE  CheckpointsCovered'
BY CheckpointsStay DEF Created

LEMMA CheckpointReplaced ==
  ASSUME Sound, Orderly, NEW key \in Key, NEW t, Replace(key, t),
         \/ t.pending = None
         \/ key \in Created /\ t.pending = trajectories[key].pending
         \/ t.pending \in Recorded /\ WithinGrant(actions[t.pending].proposal)
  PROVE  CheckpointsCovered'
<1>1. trajectories \in [Key -> Trajectory \cup {NoTrajectory}]
  BY DEF Sound, GatewayInv, GatewayTypeOK, TrajectoryTypeOK
<1>2. trajectories'[key] = t /\ \A k \in Key \ {key} : trajectories'[k] = trajectories[k]
  BY <1>1 DEF Replace
<1>3. \A k \in Created' : k = key \/ (k \in Created /\ trajectories'[k] = trajectories[k])
  BY <1>2 DEF Created
<1> QED BY <1>2, <1>3, CheckpointsStay

LEMMA CallStays ==
  ASSUME Sound, Orderly, NEW t, CallCovered(t), t.action # None => t.action \in Recorded
  PROVE  CallCovered(t)'
<1>1. t.action # None => actions'[t.action].proposal = actions[t.action].proposal
  BY DEF Orderly, HistoryKept
<1>2. WithinGrant(t.proposal) => WithinGrant(t.proposal)'
  BY CoverStays
<1> QED BY <1>1, <1>2 DEF CallCovered

(* A call moves to t, and the others stay where they are.                  *)
LEMMA OneCallMoves ==
  ASSUME Sound, Orderly, NEW w \in Worker, NEW t, worker' = [worker EXCEPT ![w] = t],
         t # Free => CallCovered(t)', ActionsCovered', CheckpointsCovered'
  PROVE  Covered'
<1> SUFFICES ASSUME NEW v \in Worker, worker'[v] # Free PROVE CallCovered(worker[v])'
  BY DEF Covered, CallsCovered
<1>1. worker \in [Worker -> Task \cup {Free}]
  BY DEF Sound, GatewayInv, GatewayTypeOK
<1>2. PICK u : u = worker'[v]
  OBVIOUS
<1>3. CallCovered(u)'
  <2>1. CASE v = w
    BY <1>1, <1>2, <2>1
  <2>2. CASE v # w
    <3>1. u = worker[v] /\ u # Free
      BY <1>1, <1>2, <2>2
    <3>2. CallCovered(u) /\ (u.action # None => u.action \in Recorded)
      BY <3>1 DEF Sound, Covered, CallsCovered, GatewayInv, WorkersGrounded, Grounded, Placed
    <3> QED BY <3>2, CallStays
  <2> QED BY <2>1, <2>2
<1> QED BY <1>2, <1>3 DEF CallCovered, WithinGrant, Allows

LEMMA CallReturns ==
  ASSUME Sound, Orderly, NEW w \in Worker, Return(w), ActionsCovered', CheckpointsCovered'
  PROVE  Covered'
<1>1. PICK t : t = Free
  OBVIOUS
<1> QED BY <1>1, OneCallMoves DEF Return

LEMMA CallGoesTo ==
  ASSUME Sound, Orderly, NEW w \in Worker, worker[w] # Free, NEW x, GoTo(w, x),
         x = "pend" => worker[w].decision = "REQUIRE_APPROVAL",
         x \in {"read_contract", "reserve", "approve"} => WithinGrant(worker[w].proposal),
         ActionsCovered', CheckpointsCovered'
  PROVE  Covered'
<1>1. PICK s : s = worker[w]
  OBVIOUS
<1>2. /\ s \in Task /\ CallCovered(s)
      /\ s.action # None => s.action \in Recorded
  BY <1>1, Held DEF Sound, Covered, CallsCovered, Grounded, Placed
<1>3. PICK t : t = [s EXCEPT !.step = x]
  OBVIOUS
<1>4. /\ t.step = x /\ t.action = s.action /\ t.proposal = s.proposal
      /\ t.decision = s.decision
  BY <1>2, <1>3 DEF Task
<1>5. CallCovered(t)
  BY <1>1, <1>2, <1>4 DEF CallCovered
<1>6. CallCovered(t)'
  BY <1>2, <1>4, <1>5, CallStays
<1>7. worker' = [worker EXCEPT ![w] = t]
  BY <1>1, <1>3 DEF GoTo
<1> QED BY <1>6, <1>7, OneCallMoves

-----------------------------------------------------------------------------
(* The call under way, and its action.                                     *)
LEMMA CallHeld ==
  ASSUME Sound, NEW w \in Worker, worker[w] # Free
  PROVE  /\ worker[w] \in Task /\ CallCovered(worker[w]) /\ Grounded(worker[w])
         /\ worker[w].action # None => worker[w].action \in Recorded
BY Held DEF Sound, Covered, CallsCovered, Grounded, Placed

LEMMA CallAction ==
  ASSUME Sound, NEW w \in Worker, worker[w] # Free,
         worker[w].step \notin {"open", "validate"}
  PROVE  /\ worker[w].action \in ActionId /\ worker[w].action \in Recorded
         /\ worker[w].proposal = actions[worker[w].action].proposal
         /\ actions[worker[w].action] \in AgentAction
         /\ actions[worker[w].action].delegation_id
              \in {None, actions[worker[w].action].proposal.delegation_id}
<1>1. worker[w].action # None /\ worker[w].action \in Recorded
  BY CallHeld DEF Grounded
<1> QED BY <1>1, CallHeld DEF CallCovered, Recorded, Sound, Covered, ActionsCovered, ActionCovered,
           GatewayInv, GatewayTypeOK

(* A fresh call holds no decision yet.                                     *)
LEMMA CallBegins ==
  ASSUME Sound, Orderly, NEW w \in Worker, NEW t, worker' = [worker EXCEPT ![w] = t],
         t.decision = None, t.step # "pend", t.step \notin {"reserve", "approve"},
         t.step = "read_contract" => WithinGrant(t.proposal),
         t.action # None => t.action \in Recorded /\ t.proposal = actions[t.action].proposal,
         UNCHANGED <<trajectories, actions>>
  PROVE  Covered'
<1>1. CallCovered(t)
  BY GatewayAssumption DEF CallCovered, PolicyDecision
<1>2. CallCovered(t)'
  BY <1>1, CallStays
<1> QED BY <1>2, OneCallMoves, ActionsStay, CheckpointsKept

LEMMA BeginEvaluateCovered ==
  ASSUME Sound, Orderly, NEW w \in Worker, NEW p \in ActionProposals, BeginEvaluate(w, p)
  PROVE  Covered'
<1>1. PICK t : t = [step |-> "open", proposal |-> p, action |-> None,
                    intent |-> session_to_intent[p.session_id],
                    seen |-> intents'[session_to_intent[p.session_id]],
                    exceeded |-> FALSE, halted |-> FALSE, decision |-> None]
  OBVIOUS
<1>2. worker' = [worker EXCEPT ![w] = t] /\ UNCHANGED <<trajectories, actions>>
  BY <1>1 DEF BeginEvaluate
<1>3. t.decision = None /\ t.step = "open" /\ t.action = None
  BY <1>1
<1> QED BY <1>2, <1>3, CallBegins

LEMMA EvaluateUngovernedCovered ==
  ASSUME Sound, Orderly, NEW w \in Worker, NEW p \in ActionProposals, EvaluateUngoverned(w, p)
  PROVE  Covered'
<1>1. PICK a \in ActionId \ Recorded :
        actions' = [actions EXCEPT ![a] = NewAction(p, None, "DENY", "DENIED")]
  BY DEF EvaluateUngoverned
<1>2. PICK r : r = NewAction(p, None, "DENY", "DENIED")
  OBVIOUS
<1>3. r \in AgentAction /\ r.policy_result = "DENY" /\ r.delegation_id = None
  BY <1>2, GatewayAssumption DEF NewAction, AgentAction, PolicyDecision, ToolExecutionStatus
<1>4. Rewritten(a, r)
  BY <1>1, <1>2, <1>3 DEF Rewritten
<1>5. ActionsCovered' /\ CheckpointsCovered'
  BY <1>3, <1>4, ActionsRewritten, CheckpointsKept DEF EvaluateUngoverned
<1>6. PICK t : t = worker[w]
  OBVIOUS
<1>7. t = Free /\ worker' = [worker EXCEPT ![w] = t]
  BY <1>6 DEF EvaluateUngoverned, MayStart, Sound, GatewayInv, GatewayTypeOK
<1> QED BY <1>5, <1>7, OneCallMoves

(* The snapshot of the trajectory does not touch the decision.             *)
LEMMA ObservedCovered ==
  ASSUME Sound, Orderly, NEW w \in Worker, worker[w] # Free, NEW x \in {"validate", "decide"},
         NEW trajectory, worker' = [worker EXCEPT ![w] = Observed(worker[w], x, trajectory)],
         ActionsCovered', CheckpointsCovered'
  PROVE  Covered'
<1>1. PICK s : s = worker[w]
  OBVIOUS
<1>2. s \in Task /\ CallCovered(s) /\ (s.action # None => s.action \in Recorded)
  BY <1>1, CallHeld
<1>3. PICK t : t = Observed(s, x, trajectory)
  OBVIOUS
<1>4. t.step = x /\ t.action = s.action /\ t.proposal = s.proposal
  BY <1>2, <1>3, ObservedType
<1>5. t.decision = s.decision
  <2> DEFINE h == TrajectoryOf(s) \in stopped
             e == ~h /\ SplitExfiltration(trajectory)
  <2>1. t = [s EXCEPT !.step = x, !.halted = h, !.exceeded = e]
    BY <1>3 DEF Observed
  <2> HIDE DEF h, e
  <2> QED BY <1>2, <2>1 DEF Task
<1>6. CallCovered(t)
  BY <1>2, <1>4, <1>5 DEF CallCovered
<1>7. CallCovered(t)'
  BY <1>2, <1>4, <1>6, CallStays
<1> QED BY <1>1, <1>3, <1>7, OneCallMoves

LEMMA OpenTrajectoryCovered ==
  ASSUME Sound, Orderly, NEW w \in Worker, OpenTrajectory(w)
  PROVE  Covered'
<1>1. PICK s : s = worker[w]
  OBVIOUS
<1>2. PICK key : key = TrajectoryOf(s)
  OBVIOUS
<1>3. PICK current : current = GetOrCreate(key, s.seen)
  OBVIOUS
<1>4. worker[w] # Free /\ key \in Key
  BY <1>1, <1>2, Held DEF OpenTrajectory, At, Sound
<1>5. Replace(key, current)
  BY <1>1, <1>2, <1>3 DEF OpenTrajectory
<1>6. current.pending = None \/ (key \in Created /\ current.pending = trajectories[key].pending)
  BY <1>3, <1>4 DEF GetOrCreate, NewTrajectory, Created
<1>7. ActionsCovered' /\ CheckpointsCovered'
  BY <1>4, <1>5, <1>6, CheckpointReplaced, ActionsStay DEF OpenTrajectory
<1>8. CASE Return(w)
  BY <1>7, <1>8, CallReturns
<1>9. CASE worker' = [worker EXCEPT ![w] = Observed(worker[w], "validate", current)]
  BY <1>4, <1>7, <1>9, ObservedCovered
<1>10. \/ Return(w)
       \/ worker' = [worker EXCEPT ![w] = Observed(worker[w], "validate", current)]
  BY <1>1, <1>2, <1>3 DEF OpenTrajectory
<1> QED BY <1>8, <1>9, <1>10

LEMMA ValidateCovered ==
  ASSUME Sound, Orderly, NEW w \in Worker, Validate(w)
  PROVE  Covered'
<1>1. PICK s : s = worker[w]
  OBVIOUS
<1>2. s \in Task /\ CallCovered(s) /\ worker[w] # Free /\ s.step = "validate"
  BY <1>1, CallHeld DEF Validate, At
<1>3. CheckpointsCovered'
  BY CheckpointsKept DEF Validate
<1>4. CASE Return(w) /\ UNCHANGED actions
  BY <1>3, <1>4, ActionsStay, CallReturns
<1>5. ASSUME NEW a \in ActionId \ Recorded,
             actions' = [actions EXCEPT ![a] = NewAction(s.proposal, s.intent, None, "PROPOSED")],
             worker' = [worker EXCEPT
               ![w].action = a,
               ![w].step = IF s.proposal.sensitive_egress THEN "record_egress" ELSE "decide"]
      PROVE  Covered'
  <2>1. PICK r : r = NewAction(s.proposal, s.intent, None, "PROPOSED")
    OBVIOUS
  <2>2. /\ r \in AgentAction /\ r.policy_result = None /\ r.delegation_id = None
        /\ r.proposal = s.proposal
    BY <1>2, <2>1, GatewayAssumption, IntentServiceAssumption
    DEF NewAction, AgentAction, PolicyDecision, ToolExecutionStatus, Task
  <2>3. Rewritten(a, r)
    BY <1>5, <2>1, <2>2 DEF Rewritten
  <2>4. ActionsCovered' /\ actions'[a] = r
    BY <2>2, <2>3, ActionsRewritten, RewrittenKeeps, GatewayAssumption DEF Sound, PolicyDecision
  <2>5. PICK t : t = [s EXCEPT !.action = a,
                !.step = IF s.proposal.sensitive_egress THEN "record_egress" ELSE "decide"]
    OBVIOUS
  <2>6. /\ t.action = a /\ t.step \in {"record_egress", "decide"}
        /\ t.proposal = s.proposal /\ t.decision = s.decision
    BY <1>2, <2>5 DEF Task
  <2>7. t.decision \in {"ALLOW", "REQUIRE_APPROVAL"} => WithinGrant(t.proposal)'
    BY <1>2, <2>6, CoverStays DEF CallCovered
  <2>8. CallCovered(t)'
    BY <2>2, <2>4, <2>6, <2>7 DEF CallCovered
  <2>9. worker' = [worker EXCEPT ![w] = t]
    BY <1>1, <1>2, <1>5, <2>5 DEF Sound, GatewayInv, GatewayTypeOK
  <2> QED BY <1>3, <2>4, <2>8, <2>9, OneCallMoves
<1> QED BY <1>1, <1>4, <1>5 DEF Validate

(* A step that changes a trajectory but not its checkpoint.                *)
LEMMA CheckpointUntouched ==
  ASSUME Sound, Orderly, NEW key \in Created, NEW t, Replace(key, t),
         t.pending = trajectories[key].pending
  PROVE  CheckpointsCovered'
BY CheckpointReplaced DEF Created

LEMMA CountEgressCovered ==
  ASSUME Sound, Orderly, NEW w \in Worker, CountEgress(w)
  PROVE  Covered'
<1>1. PICK s : s = worker[w]
  OBVIOUS
<1>2. PICK key : key = TrajectoryOf(s)
  OBVIOUS
<1>3. worker[w] # Free /\ key \in Created /\ trajectories[key] \in Trajectory
  BY <1>1, <1>2, Working DEF CountEgress, At, Evaluating, Sound, Placed
<1>4. PICK t : t = [trajectories[key] EXCEPT !.egress = @ \cup {s.action}]
  OBVIOUS
<1>5. Replace(key, t) /\ t.pending = trajectories[key].pending
  BY <1>1, <1>2, <1>3, <1>4 DEF CountEgress, RecordEgress, Trajectory
<1> QED BY <1>3, <1>5, CheckpointUntouched, ActionsStay, CallGoesTo DEF CountEgress

LEMMA RefreshCovered ==
  ASSUME Sound, Orderly, NEW w \in Worker, Refresh(w)
  PROVE  Covered'
<1>1. ActionsCovered' /\ CheckpointsCovered'
  BY ActionsStay, CheckpointsKept DEF Refresh
<1>2. worker[w] # Free
  BY DEF Refresh, At
<1>3. worker' = [worker EXCEPT ![w] =
                   Observed(worker[w], "decide", trajectories[TrajectoryOf(worker[w])])]
  BY DEF Refresh
<1> QED BY <1>1, <1>2, <1>3, ObservedCovered

(* The decision itself: what the policy lets through is covered.           *)
LEMMA DecisionCovered ==
  ASSUME NEW t, Verdict(t) \in {"ALLOW", "REQUIRE_APPROVAL"}
  PROVE  WithinGrant(t.proposal)
<1>1. ActsFor(t)
  BY DEF Verdict, Authorized
<1> SUFFICES ASSUME t.proposal.delegation_id # None
             PROVE  /\ t.proposal.delegation_id \in Issued
                    /\ t.proposal.agent_id
                         = grants[t.proposal.delegation_id].delegatee_agent_id
                    /\ \A k \in Chain(t.proposal.delegation_id) :
                         Allows(grants[k].authority_envelope, t.proposal.operation)
  BY DEF WithinGrant
<1>2. PICK d : d = t.proposal.delegation_id
  OBVIOUS
<1>3. /\ d \in Issued /\ t.proposal.agent_id = grants[d].delegatee_agent_id
      /\ Allows(LiveEffectiveAuthority(d, t.seen), t.proposal.operation)
  BY <1>1, <1>2 DEF ActsFor, ResolvedGrant, CoveredByGrant
<1>4. ASSUME NEW k \in Chain(d)
      PROVE  Allows(grants[k].authority_envelope, t.proposal.operation)
  BY <1>3 DEF LiveEffectiveAuthority, RootEnvelope, Allows
<1> QED BY <1>2, <1>3, <1>4

LEMMA DecideCovered ==
  ASSUME Sound, Orderly, NEW w \in Worker, Decide(w)
  PROVE  Covered'
<1>1. PICK s : s = worker[w]
  OBVIOUS
<1>2. PICK a : a = s.action
  OBVIOUS
<1>3. /\ s \in Task /\ s # Free /\ s.step = "decide" /\ CallCovered(s)
      /\ a \in ActionId /\ a \in Recorded /\ actions[a] \in AgentAction
      /\ s.proposal = actions[a].proposal
  BY <1>1, <1>2, CallHeld, CallAction DEF Decide, At
<1>4. PICK d : d = IF ResolvedGrant(s) THEN s.proposal.delegation_id ELSE None
  OBVIOUS
<1>5. d \in DelegationId \cup {None} /\ d \in {None, s.proposal.delegation_id}
  BY <1>4 DEF ResolvedGrant, Issued
<1>6. PICK r : r = [actions[a] EXCEPT !.delegation_id = d]
  OBVIOUS
<1>7. /\ r \in AgentAction /\ r.proposal = actions[a].proposal
      /\ r.trajectory_intent = actions[a].trajectory_intent
      /\ r.policy_result = actions[a].policy_result /\ r.delegation_id = d
  BY <1>3, <1>5, <1>6 DEF AgentAction
<1>8. actions' = [actions EXCEPT ![a] = r]
  BY <1>1, <1>2, <1>4, <1>6 DEF Decide
<1>9. r.policy_result = "ALLOW" => WithinGrant(r.proposal)
  BY <1>3, <1>7 DEF Sound, Covered, ActionsCovered, ActionCovered, MayRun
<1>10. Rewritten(a, r)
  BY <1>7, <1>8 DEF Rewritten
<1>11. ActionsCovered' /\ actions'[a] = r
  BY <1>3, <1>5, <1>7, <1>9, <1>10, ActionsRewritten, RewrittenKeeps DEF Sound
<1>12. CheckpointsCovered'
  BY CheckpointsKept DEF Decide
<1>13. PICK v : v = Verdict(s)
  OBVIOUS
<1>14. PICK t : t = [s EXCEPT !.step = "record", !.decision = v]
  OBVIOUS
<1>15. t.step = "record" /\ t.decision = v /\ t.action = a /\ t.proposal = s.proposal
  BY <1>2, <1>3, <1>14 DEF Task
<1>16. v \in {"ALLOW", "REQUIRE_APPROVAL"} => WithinGrant(s.proposal)'
  BY <1>13, DecisionCovered, CoverStays
<1>17. CallCovered(t)'
  BY <1>3, <1>7, <1>11, <1>15, <1>16 DEF CallCovered
<1>18. worker' = [worker EXCEPT ![w] = t]
  BY <1>1, <1>3, <1>13, <1>14 DEF Decide, Sound, GatewayInv, GatewayTypeOK
<1> QED BY <1>11, <1>12, <1>17, <1>18, OneCallMoves

LEMMA RecordCovered ==
  ASSUME Sound, Orderly, NEW w \in Worker, Record(w)
  PROVE  Covered'
<1>1. PICK s : s = worker[w]
  OBVIOUS
<1>2. PICK key : key = TrajectoryOf(s)
  OBVIOUS
<1>3. worker[w] # Free /\ key \in Created /\ trajectories[key] \in Trajectory
  BY <1>1, <1>2, Working DEF Record, At, Evaluating, Sound, Placed
<1>4. PICK t : t = [trajectories[key] EXCEPT !.evaluated = Evaluated(trajectories[key], s.action),
                                             !.last = s.action]
  OBVIOUS
<1>5. Replace(key, t) /\ t.pending = trajectories[key].pending
  BY <1>1, <1>2, <1>3, <1>4 DEF Record, RecordEvaluation, Trajectory
<1>6. PICK x : x = AfterRecord(s)
  OBVIOUS
<1>7. x = "pend" => s.decision = "REQUIRE_APPROVAL"
  BY <1>6 DEF AfterRecord, AfterRecordByDecision
<1>8. x \notin {"read_contract", "reserve", "approve"}
  BY <1>6 DEF AfterRecord, AfterRecordByDecision
<1>9. GoTo(w, x)
  BY <1>1, <1>6 DEF Record
<1>10. ActionsCovered' /\ CheckpointsCovered'
  BY <1>3, <1>5, CheckpointUntouched, ActionsStay DEF Record
<1> QED BY <1>1, <1>3, <1>7, <1>8, <1>9, <1>10, CallGoesTo

(* The checkpoint that waits for a human is that of a covered proposal.    *)
LEMMA SetCheckpointCovered ==
  ASSUME Sound, Orderly, NEW w \in Worker, SetCheckpoint(w)
  PROVE  Covered'
<1>1. PICK s : s = worker[w]
  OBVIOUS
<1>2. PICK key : key = TrajectoryOf(s)
  OBVIOUS
<1>3. /\ worker[w] # Free /\ s.step = "pend"
      /\ key \in Created /\ key \in Key /\ trajectories[key] \in Trajectory
  BY <1>1, <1>2, Working DEF SetCheckpoint, At, Evaluating, Sound, Placed, Created
<1>4. s.action \in Recorded /\ WithinGrant(actions[s.action].proposal)
  BY <1>1, <1>3, CallHeld, CallAction DEF CallCovered
<1>5. ActionsCovered'
  BY ActionsStay DEF SetCheckpoint
<1>6. CASE SetPending(key, s.action) /\ GoTo(w, "finish")
  <2>1. PICK old : old = trajectories[key]
    OBVIOUS
  <2>2. PICK t : t = [old EXCEPT !.evaluated = Evaluated(old, s.action),
                                 !.last = s.action, !.pending = s.action]
    OBVIOUS
  <2>3. Replace(key, t) /\ t.pending = s.action
    BY <1>3, <1>6, <2>1, <2>2 DEF SetPending, Trajectory
  <2>4. CheckpointsCovered'
    BY <1>3, <1>4, <2>3, CheckpointReplaced
  <2> QED BY <1>3, <1>5, <1>6, <2>4, CallGoesTo
<1>7. CASE Return(w) /\ UNCHANGED trajectories
  BY <1>5, <1>7, CheckpointsKept, CallReturns
<1> QED BY <1>1, <1>2, <1>6, <1>7 DEF SetCheckpoint

LEMMA QuarantineCovered ==
  ASSUME Sound, Orderly, NEW w \in Worker, Quarantine(w)
  PROVE  Covered'
<1>1. worker[w] # Free
  BY DEF Quarantine, At
<1> QED BY <1>1, ActionsStay, CheckpointsKept, CallGoesTo DEF Quarantine

LEMMA DeniesLateCovered ==
  ASSUME Sound, Orderly, NEW w \in Worker, worker[w] # Free, DenyLate(w),
         UNCHANGED <<trajectories, actions>>
  PROVE  Covered'
<1>1. PICK s : s = worker[w]
  OBVIOUS
<1>2. s \in Task /\ CallCovered(s) /\ (s.action # None => s.action \in Recorded)
  BY <1>1, CallHeld
<1>3. PICK t : t = [s EXCEPT !.step = "finish", !.decision = "DENY"]
  OBVIOUS
<1>4. /\ t.step = "finish" /\ t.decision = "DENY"
      /\ t.action = s.action /\ t.proposal = s.proposal
  BY <1>2, <1>3 DEF Task
<1>5. CallCovered(t)
  BY <1>2, <1>4 DEF CallCovered
<1>6. CallCovered(t)'
  BY <1>2, <1>4, <1>5, CallStays
<1>7. worker' = [worker EXCEPT ![w] = t]
  BY <1>1, <1>3 DEF DenyLate, Sound, GatewayInv, GatewayTypeOK
<1> QED BY <1>6, <1>7, OneCallMoves, ActionsStay, CheckpointsKept

LEMMA ReservationCovered ==
  ASSUME Sound, Orderly, NEW w \in Worker, ChargeGrant(w) \/ ChargeIntent(w)
  PROVE  Covered'
<1>1. worker[w] # Free /\ UNCHANGED <<trajectories, actions>>
  BY DEF ChargeGrant, ChargeIntent, At
<1>2. GoTo(w, "charge_intent") \/ GoTo(w, "finish") \/ DenyLate(w)
  BY DEF ChargeGrant, ChargeIntent
<1> QED BY <1>1, <1>2, DeniesLateCovered, ActionsStay, CheckpointsKept, CallGoesTo

(* What Update writes, as a record.                                        *)
LEMMA UpdateCovered ==
  ASSUME Sound, Orderly, NEW a \in ActionId, a \in Recorded,
         NEW decision \in PolicyDecision \cup {None}, NEW x \in ToolExecutionStatus, NEW approved \in BOOLEAN,
         Update(a, decision, x, approved),
         decision = "ALLOW" => WithinGrant(actions[a].proposal)
  PROVE  ActionsCovered'
<1>1. actions[a] \in AgentAction
  BY DEF Sound, GatewayInv, GatewayTypeOK, Recorded
<1>2. PICK old : old = actions[a]
  OBVIOUS
<1>3. PICK r : r = [old EXCEPT !.policy_result = decision, !.execution_status = x,
                               !.approved = approved]
  OBVIOUS
<1>4. /\ r \in AgentAction /\ r.proposal = old.proposal /\ r.policy_result = decision
      /\ r.trajectory_intent = old.trajectory_intent /\ r.delegation_id = old.delegation_id
  BY <1>1, <1>2, <1>3 DEF AgentAction
<1>5. actions' = [actions EXCEPT ![a] = r]
  BY <1>2, <1>3 DEF Update
<1>6. Rewritten(a, r)
  BY <1>2, <1>4, <1>5 DEF Rewritten
<1>7. r.delegation_id \in {None, r.proposal.delegation_id}
  BY <1>2, <1>4 DEF Sound, Covered, ActionsCovered, ActionCovered
<1> QED BY <1>2, <1>4, <1>6, <1>7, ActionsRewritten

LEMMA RestartCovered ==
  ASSUME Sound, Orderly, NEW a \in ActionId, a \in Recorded, NEW x \in ToolExecutionStatus,
         SetExecutionStatus(a, x)
  PROVE  ActionsCovered'
<1>1. actions[a] \in AgentAction
  BY DEF Sound, GatewayInv, GatewayTypeOK, Recorded
<1>2. PICK old : old = actions[a]
  OBVIOUS
<1>3. PICK r : r = [old EXCEPT !.execution_status = x]
  OBVIOUS
<1>4. /\ r \in AgentAction /\ r.proposal = old.proposal /\ r.policy_result = old.policy_result
      /\ r.trajectory_intent = old.trajectory_intent /\ r.delegation_id = old.delegation_id
  BY <1>1, <1>2, <1>3 DEF AgentAction
<1>5. Rewritten(a, r)
  BY <1>2, <1>3, <1>4 DEF Rewritten, SetExecutionStatus
<1>6. /\ r.delegation_id \in {None, r.proposal.delegation_id}
      /\ r.policy_result = "ALLOW" => WithinGrant(r.proposal)
  BY <1>2, <1>4 DEF Sound, Covered, ActionsCovered, ActionCovered, MayRun
<1> QED BY <1>5, <1>6, ActionsRewritten

LEMMA FinishEvaluateCovered ==
  ASSUME Sound, Orderly, NEW w \in Worker, FinishEvaluate(w)
  PROVE  Covered'
<1>1. PICK s : s = worker[w]
  OBVIOUS
<1>2. /\ s \in Task /\ worker[w] # Free /\ s.action \in ActionId /\ s.action \in Recorded
      /\ s.proposal = actions[s.action].proposal /\ CallCovered(s)
  BY <1>1, CallHeld, CallAction DEF FinishEvaluate, At
<1>3. s.decision \in PolicyDecision \cup {None} /\ StatusOf(s.decision) \in ToolExecutionStatus
  BY <1>2 DEF Task, StatusOf, ToolExecutionStatus
<1>4. Update(s.action, s.decision, StatusOf(s.decision), FALSE) /\ Return(w)
  BY <1>1 DEF FinishEvaluate
<1>5. s.decision = "ALLOW" => WithinGrant(actions[s.action].proposal)
  BY <1>2 DEF CallCovered
<1>6. PICK a, d, x : a = s.action /\ d = s.decision /\ x = StatusOf(s.decision)
  OBVIOUS
<1>7. ActionsCovered'
  BY <1>2, <1>3, <1>4, <1>5, <1>6, UpdateCovered
<1> QED BY <1>4, <1>7, CheckpointsKept, CallReturns DEF FinishEvaluate

-----------------------------------------------------------------------------
(* A human's answer acts on the proposal of the checkpoint.                *)
LEMMA OpenCheckpointCovered ==
  ASSUME Sound, Orderly, NEW w \in Worker, NEW a \in ActionId, NEW approved \in BOOLEAN,
         OpenCheckpoint(w, a, approved)
  PROVE  Covered'
<1>1. PICK x : x = IF approved /\ KeyOf(a) \notin stopped THEN "read_contract" ELSE "refuse"
  OBVIOUS
<1>2. PICK t : t = [step |-> x, proposal |-> actions[a].proposal, action |-> a,
                    intent |-> actions[a].trajectory_intent, seen |-> NoContract,
                    exceeded |-> FALSE, halted |-> FALSE, decision |-> None]
  OBVIOUS
<1>3. worker' = [worker EXCEPT ![w] = t] /\ UNCHANGED <<trajectories, actions>>
  BY <1>1, <1>2 DEF OpenCheckpoint
<1>4. /\ t.step \in {"read_contract", "refuse"} /\ t.decision = None
      /\ t.action = a /\ t.proposal = actions[a].proposal
  BY <1>1, <1>2
<1>5. a \in Recorded /\ WithinGrant(actions[a].proposal)
  BY TrajectoryAssumption
     DEF OpenCheckpoint, Sound, Covered, CheckpointsCovered, CheckpointCovered
<1> QED BY <1>3, <1>4, <1>5, CallBegins

LEMMA BeginExecuteCovered ==
  ASSUME Sound, Orderly, NEW w \in Worker, NEW a \in ActionId, BeginExecute(w, a)
  PROVE  Covered'
<1>1. PICK t : t = [step |-> "start", proposal |-> actions[a].proposal, action |-> a,
                    intent |-> actions[a].trajectory_intent, seen |-> NoContract,
                    exceeded |-> FALSE, halted |-> FALSE, decision |-> None]
  OBVIOUS
<1>2. /\ worker' = [worker EXCEPT ![w] = t] /\ UNCHANGED <<trajectories, actions>>
      /\ a \in Recorded
  BY <1>1 DEF BeginExecute
<1>3. /\ t.step = "start" /\ t.decision = None
      /\ t.action = a /\ t.proposal = actions[a].proposal
  BY <1>1
<1> QED BY <1>2, <1>3, CallBegins

LEMMA ReadContractCovered ==
  ASSUME Sound, Orderly, NEW w \in Worker, ReadContract(w)
  PROVE  Covered'
<1>1. PICK s : s = worker[w]
  OBVIOUS
<1>2. /\ s \in Task /\ worker[w] # Free /\ s.step = "read_contract"
      /\ CallCovered(s) /\ (s.action # None => s.action \in Recorded)
  BY <1>1, CallHeld DEF ReadContract, At
<1>3. PICK i, c : /\ i = session_to_intent[s.proposal.session_id]
                  /\ c = intents'[session_to_intent[s.proposal.session_id]]
  OBVIOUS
<1>4. PICK x \in {"reserve", "refuse"} :
        worker' = [worker EXCEPT ![w].intent = i, ![w].seen = c, ![w].step = x]
  BY <1>1, <1>3 DEF ReadContract
<1>5. PICK t : t = [s EXCEPT !.intent = i, !.seen = c, !.step = x]
  OBVIOUS
<1>6. /\ t.step = x /\ t.action = s.action /\ t.proposal = s.proposal
      /\ t.decision = s.decision
  BY <1>2, <1>5 DEF Task
<1>7. CallCovered(t)
  BY <1>2, <1>4, <1>6 DEF CallCovered
<1>8. CallCovered(t)'
  BY <1>2, <1>6, <1>7, CallStays
<1>9. worker' = [worker EXCEPT ![w] = t]
  BY <1>1, <1>4, <1>5 DEF Sound, GatewayInv, GatewayTypeOK
<1> QED BY <1>8, <1>9, OneCallMoves, ActionsStay, CheckpointsKept DEF ReadContract

LEMMA ReserveForApprovalCovered ==
  ASSUME Sound, Orderly, NEW w \in Worker, ReserveForApproval(w)
  PROVE  Covered'
<1>1. /\ worker[w] # Free /\ UNCHANGED <<trajectories, actions>>
      /\ WithinGrant(worker[w].proposal)
  BY CallHeld DEF ReserveForApproval, At, CallCovered
<1>2. GoTo(w, "approve") \/ GoTo(w, "refuse")
  BY DEF ReserveForApproval
<1> QED BY <1>1, <1>2, ActionsStay, CheckpointsKept, CallGoesTo

LEMMA ClearPendingCovered ==
  ASSUME Sound, Orderly, NEW a, Placed(a), ClearPending(KeyOf(a), a)
  PROVE  CheckpointsCovered'
<1>1. PICK key : key = KeyOf(a)
  OBVIOUS
<1>2. key \in Key /\ key \in Created /\ trajectories[key] \in Trajectory
  BY <1>1, PlacedTypes DEF Placed, Sound
<1>3. PICK t : t = [trajectories[key] EXCEPT !.pending = IF @ = a THEN None ELSE @]
  OBVIOUS
<1>4. t.pending = None \/ t.pending = trajectories[key].pending
  BY <1>2, <1>3 DEF Trajectory
<1>5. Replace(key, t)
  BY <1>1, <1>3 DEF ClearPending
<1> QED BY <1>2, <1>4, <1>5, CheckpointReplaced

LEMMA RefuseCovered ==
  ASSUME Sound, Orderly, NEW w \in Worker, Refuse(w)
  PROVE  Covered'
<1>1. PICK a : a = worker[w].action
  OBVIOUS
<1>2. a \in ActionId /\ a \in Recorded /\ Placed(a)
  BY <1>1, CallAction, Resolving DEF Refuse, At, Sound
<1>3. ClearPending(KeyOf(a), a) /\ Update(a, "DENY", "DENIED", FALSE) /\ Return(w)
  BY <1>1 DEF Refuse
<1>4. ActionsCovered'
  BY <1>2, <1>3, UpdateCovered DEF PolicyDecision, ToolExecutionStatus
<1> QED BY <1>2, <1>3, <1>4, ClearPendingCovered, CallReturns

LEMMA ApproveCovered ==
  ASSUME Sound, Orderly, NEW w \in Worker, Approve(w)
  PROVE  Covered'
<1>1. PICK a : a = worker[w].action
  OBVIOUS
<1>2. /\ a \in ActionId /\ a \in Recorded /\ Placed(a) /\ worker[w] # Free
      /\ WithinGrant(actions[a].proposal)
  BY <1>1, CallHeld, CallAction, Resolving DEF Approve, At, Sound, CallCovered
<1>3. ClearPending(KeyOf(a), a) /\ Update(a, "ALLOW", "AUTHORIZED", TRUE) /\ GoTo(w, "gate")
  BY <1>1 DEF Approve
<1>4. ActionsCovered'
  BY <1>2, <1>3, UpdateCovered DEF PolicyDecision, ToolExecutionStatus
<1> QED BY <1>2, <1>3, <1>4, ClearPendingCovered, CallGoesTo

LEMMA GateCovered ==
  ASSUME Sound, Orderly, NEW w \in Worker, Gate(w) \/ AssertionFails(w)
  PROVE  Covered'
<1>1. worker[w] # Free /\ UNCHANGED <<trajectories, actions>>
  BY DEF Gate, AssertionFails, At
<1>2. GoTo(w, "start") \/ Return(w)
  BY DEF Gate, AssertionFails
<1> QED BY <1>1, <1>2, ActionsStay, CheckpointsKept, CallGoesTo, CallReturns

LEMMA StartCovered ==
  ASSUME Sound, Orderly, NEW w \in Worker, Start(w)
  PROVE  Covered'
<1>1. PICK a : a = worker[w].action
  OBVIOUS
<1>2. a \in ActionId /\ a \in Recorded /\ worker[w] # Free
  BY <1>1, CallAction DEF Start, At
<1>3. ActionsCovered'
  BY <1>1, <1>2, RestartCovered DEF Start, ToolExecutionStatus
<1> QED BY <1>2, <1>3, CheckpointsKept, CallGoesTo DEF Start

LEMMA RunToolCovered ==
  ASSUME Sound, Orderly, NEW w \in Worker, RunTool(w)
  PROVE  Covered'
<1>1. PICK a : a = worker[w].action
  OBVIOUS
<1>2. a \in ActionId /\ a \in Recorded /\ Placed(a) /\ worker[w] # Free
  BY <1>1, CallAction, Resolving DEF RunTool, At, Sound
<1>3. PICK key : key = KeyOf(a)
  OBVIOUS
<1>4. key \in Created /\ trajectories[key] \in Trajectory
  BY <1>2, <1>3, PlacedTypes DEF Placed, Sound
<1>5. SetExecutionStatus(a, "COMPLETED") \/ SetExecutionStatus(a, "FAILED")
  BY <1>1 DEF RunTool
<1>6. ActionsCovered'
  BY <1>2, <1>5, RestartCovered DEF ToolExecutionStatus
<1>7. RecordExecution(key, a) \/ UNCHANGED trajectories
  BY <1>1, <1>3 DEF RunTool
<1>8. PICK t : t = [trajectories[key] EXCEPT !.executed = @ \cup {a}]
  OBVIOUS
<1>9. t.pending = trajectories[key].pending
  BY <1>4, <1>8 DEF Trajectory
<1>10. CheckpointsCovered'
  BY <1>4, <1>7, <1>8, <1>9, CheckpointUntouched, CheckpointsKept DEF RecordExecution
<1> QED BY <1>6, <1>10, CallReturns DEF RunTool

-----------------------------------------------------------------------------
LEMMA WorkerCovered ==
  ASSUME Sound, Orderly, NEW w \in Worker, NewCall(w) \/ WorkerStep(w)
  PROVE  Covered'
<1>1. CASE NewCall(w)
  BY <1>1, BeginEvaluateCovered, EvaluateUngovernedCovered, OpenCheckpointCovered,
     BeginExecuteCovered DEF NewCall
<1>2. CASE WorkerStep(w)
  BY <1>2, OpenTrajectoryCovered, ValidateCovered, CountEgressCovered, RefreshCovered,
     DecideCovered, RecordCovered, SetCheckpointCovered, QuarantineCovered, ReservationCovered,
     FinishEvaluateCovered, ReadContractCovered, ReserveForApprovalCovered, RefuseCovered,
     ApproveCovered, GateCovered, StartCovered, RunToolCovered
  DEF WorkerStep
<1> QED BY <1>1, <1>2

(* The other services move while the calls of the gateway are under way.   *)
LEMMA AsideCovered ==
  ASSUME Sound, [DelegationNext]_delegation_vars, UNCHANGED <<trajectories, actions, worker>>
  PROVE  Covered'
<1>1. Orderly
  BY DEF Orderly, HistoryKept, Created, Recorded
<1>2. ActionsCovered' /\ CheckpointsCovered'
  BY <1>1, ActionsStay, CheckpointsKept
<1>3. CallsCovered'
  <2> SUFFICES ASSUME NEW w \in Worker, worker'[w] # Free PROVE CallCovered(worker[w])'
    BY DEF CallsCovered
  <2>1. PICK t : t = worker[w]
    OBVIOUS
  <2>2. t # Free /\ CallCovered(t) /\ (t.action # None => t.action \in Recorded)
    BY <2>1, CallHeld
  <2>3. CallCovered(t)' /\ worker'[w] = t
    BY <1>1, <2>1, <2>2, CallStays
  <2> QED BY <2>3 DEF CallCovered, WithinGrant, Allows
<1> QED BY <1>2, <1>3 DEF Covered

LEMMA CoveredStep ==
  ASSUME Sound, [GatewayNext]_gateway_vars
  PROVE  Covered'
<1>1. [DelegationNext]_delegation_vars
  BY GatewayStep DEF Sound
<1>2. CASE ControlPlane \/ UNCHANGED gateway_vars
  BY <1>1, <1>2, AsideCovered DEF ControlPlane, gateway_vars
<1>3. ASSUME NEW w \in Worker, NewCall(w) \/ WorkerStep(w) PROVE Covered'
  <2>1. PICK t : StepOK(w, t)
    BY <1>3, WorkerStepOK DEF Sound
  <2>2. Orderly
    BY <2>1 DEF StepOK, Orderly
  <2> QED BY <1>3, <2>2, WorkerCovered
<1> QED BY <1>2, <1>3 DEF GatewayNext

LEMMA CoveredStart == GatewayInit => Covered
BY GatewayAssumption, TrajectoryAssumption
   DEF GatewayInit, TrajectoryInit, Covered, ActionsCovered, CheckpointsCovered, CallsCovered,
       Recorded, Created

LEMMA CoveredInvariant == GatewaySpec => []Covered
<1>1. GatewayInv /\ LineageInv /\ Covered /\ [GatewayNext]_gateway_vars => Covered'
  BY CoveredStep DEF Sound
<1> QED BY <1>1, CoveredStart, GatewayInvariant, GatewayUsesDelegation, LineageInvariant, PTL
        DEF GatewaySpec

(* Whatever waits, races or revocations lie between the decision and the   *)
(* execution, an action on behalf of a grant is done by its delegatee and  *)
(* within every grant of the chain, however long it is                     *)
(* (build_delegated_action_context).                                       *)
THEOREM DelegatedWithinGrantSafe == GatewaySpec => []DelegatedWithinGrant
<1>1. Covered => DelegatedWithinGrant
  <2> SUFFICES ASSUME Covered, NEW d \in Issued, NEW a \in ActingUnder(d)
               PROVE  /\ Allows(grants[d].authority_envelope, actions[a].proposal.operation)
                      /\ actions[a].proposal.agent_id
                           = grants[actions[a].delegation_id].delegatee_agent_id
    BY DEF DelegatedWithinGrant
  <2>1. /\ actions[a].delegation_id = actions[a].proposal.delegation_id
        /\ actions[a].proposal.delegation_id # None
        /\ WithinGrant(actions[a].proposal)
        /\ d \in Chain(actions[a].delegation_id)
    BY DEF ActingUnder, Covered, ActionsCovered, ActionCovered
  <2> QED BY <2>1 DEF WithinGrant
<1> QED BY <1>1, CoveredInvariant, PTL
=============================================================================
