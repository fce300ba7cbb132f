----------------------- MODULE AgentGatewayQuotaProofs -----------------------
(***************************************************************************)
(* Every action that may run was paid for.  A call pays in one critical    *)
(* section and records the decision in a later one, and calls interleave;  *)
(* so what is counted is the actions that may run together with those a    *)
(* call has paid for and not yet recorded.  One payment adds at most one   *)
(* action to them and one execution to the contract, or to every grant of  *)
(* the chain the action is charged to.                                     *)
(***************************************************************************)
EXTENDS AgentGatewayProofs

(* The steps before the decision, and those of answers and executions.     *)
Undecided == {"open", "validate", "record_egress", "refresh", "decide",
              "read_contract", "reserve", "approve", "refuse", "gate", "start", "run"}

(* What the decision of a call and its step say of each other: an allowed  *)
(* action does not exceed the egress limit, so it is never quarantined,    *)
(* and it comes to its end through the reservations only.                  *)
Honest(t) ==
  /\ t.step \in Undecided => t.decision = None
  /\ t.decision = "ALLOW" => ~t.exceeded
  /\ t.step \in {"pend", "quarantine"} => t.decision # "ALLOW"
  /\ t.step \in {"charge_grant", "charge_intent"} => t.decision = "ALLOW"

CallsHonest == \A w \in Worker : worker[w] # Free => Honest(worker[w])

(* An action before its decision is known to the call that judges it only. *)
Judged(t) == t # Free /\ t.step \in {"record_egress", "refresh", "decide"}

Private(w, a) ==
  /\ actions[a].policy_result = None
  /\ \A v \in Worker \ {w} : worker[v] # Free => worker[v].action # a
  /\ \A key \in Created : trajectories[key].pending # a

ProposalsPrivate == \A w \in Worker : Judged(worker[w]) => Private(w, worker[w].action)

(* A call that paid the contract, and one that paid the grants.            *)
PaidCall(t) == /\ t # Free
               /\ t.step = "approve" \/ (t.step = "finish" /\ t.decision = "ALLOW")
ChargedCall(t) == /\ t # Free
                  /\ t.step = "charge_intent" \/ (t.step = "finish" /\ t.decision = "ALLOW")

Paid == {a \in Recorded : MayRun(a) \/ \E w \in Worker : /\ PaidCall(worker[w])
                                                        /\ worker[w].action = a}

ChargedTo(d) ==
  {a \in Recorded :
     /\ actions[a].delegation_id # None /\ d \in Chain(actions[a].delegation_id)
     /\ \/ MayRun(a) /\ ~actions[a].approved
        \/ \E w \in Worker : ChargedCall(worker[w]) /\ worker[w].action = a}

-----------------------------------------------------------------------------
(* What a step of a call, from s to t, does to the account.                *)
PendingKept(s) ==
  \A key \in Created' :
    \/ trajectories'[key].pending = None
    \/ key \in Created /\ trajectories'[key].pending = trajectories[key].pending
    \/ s # Free /\ s.step = "pend" /\ trajectories'[key].pending = s.action

ActionsAccounted(s) ==
  /\ \E a : Recorded' \subseteq Recorded \cup {a}
  /\ \A a \in Recorded' \ Recorded : ~MayRun(a)' 
  /\ \A a \in Recorded : 
       /\ MayRun(a)' => MayRun(a) \/ (PaidCall(s) /\ s.action = a)
       /\ MayRun(a)' /\ ~actions'[a].approved =>
            \/ MayRun(a) /\ ~actions[a].approved
            \/ ChargedCall(s) /\ s.action = a
       /\ \/ actions'[a].delegation_id = actions[a].delegation_id
          \/ Judged(s) /\ s.action = a
       /\ \/ actions'[a].policy_result = actions[a].policy_result
          \/ s # Free /\ ~Judged(s) /\ s.action = a

CallAccounted(s, t) ==
  /\ t # Free => Honest(t)
  /\ PaidCall(t) => \/ PaidCall(s) /\ t.action = s.action
                    \/ \E i \in IntentId : ReserveToolExecution(i)
  /\ ChargedCall(t) =>
       /\ s # Free /\ ~Judged(s) /\ t.action = s.action
       /\ \/ ChargedCall(s)
          \/ actions[s.action].delegation_id = None
          \/ ReserveActionDispatch(actions[s.action].delegation_id)
  /\ Judged(t) => \/ Judged(s) /\ t.action = s.action
                  \/ t.action \notin Recorded /\ actions'[t.action].policy_result = None
  /\ t # Free /\ t.action # None =>
       \/ s # Free /\ t.action = s.action
       \/ t.action \notin Recorded
       \/ MayRun(t.action)
       \/ \E key \in Created : trajectories[key].pending = t.action

Accounted(w, t) ==
  /\ worker' = [worker EXCEPT ![w] = t]
  /\ PendingKept(worker[w]) /\ ActionsAccounted(worker[w]) /\ CallAccounted(worker[w], t)

-----------------------------------------------------------------------------
LEMMA ActionsStillAccounted ==
  ASSUME UNCHANGED actions, NEW s
  PROVE  ActionsAccounted(s)
BY DEF ActionsAccounted, Recorded, MayRun

LEMMA PendingStill ==
  ASSUME UNCHANGED trajectories, NEW s
  PROVE  PendingKept(s)
BY DEF PendingKept, Created

(* One trajectory is replaced.                                             *)
LEMMA PendingReplaced ==
  ASSUME Sound, NEW key \in Key, NEW t, Replace(key, t), NEW s,
         \/ t.pending = None
         \/ key \in Created /\ t.pending = trajectories[key].pending
         \/ s # Free /\ s.step = "pend" /\ t.pending = s.action
  PROVE  PendingKept(s)
<1>1. trajectories \in [Key -> Trajectory \cup {NoTrajectory}]
  BY DEF Sound, GatewayInv, GatewayTypeOK, TrajectoryTypeOK
<1>2. trajectories'[key] = t /\ \A k \in Key \ {key} : trajectories'[k] = trajectories[k]
  BY <1>1 DEF Replace
<1>3. \A k \in Created' : k = key \/ (k \in Created /\ trajectories'[k] = trajectories[k])
  BY <1>2 DEF Created
<1> QED BY <1>2, <1>3 DEF PendingKept

(* A call returns.                                                         *)
LEMMA ReturnAccounted ==
  ASSUME NEW w \in Worker, Return(w), PendingKept(worker[w]), ActionsAccounted(worker[w])
  PROVE  \E t : Accounted(w, t)
<1>1. PICK t : t = Free
  OBVIOUS
<1>2. CallAccounted(worker[w], t)
  BY <1>1 DEF CallAccounted, PaidCall, ChargedCall, Judged
<1> QED BY <1>1, <1>2 DEF Accounted, Return

(* A call goes on with its action.                                         *)
LEMMA GoesOnAccounted ==
  ASSUME NEW w \in Worker, worker[w] # Free, NEW t, worker' = [worker EXCEPT ![w] = t],
         PendingKept(worker[w]), ActionsAccounted(worker[w]),
         t.action = worker[w].action, Honest(t),
         PaidCall(t) => \/ PaidCall(worker[w])
                        \/ \E i \in IntentId : ReserveToolExecution(i),
         ChargedCall(t) =>
           /\ ~Judged(worker[w])
           /\ \/ ChargedCall(worker[w])
              \/ actions[worker[w].action].delegation_id = None
              \/ ReserveActionDispatch(actions[worker[w].action].delegation_id),
         Judged(t) => Judged(worker[w])
  PROVE  Accounted(w, t)
BY DEF Accounted, CallAccounted

LEMMA GoToAccounted ==
  ASSUME Sound, CallsHonest, NEW w \in Worker, worker[w] # Free, NEW x, GoTo(w, x),
         PendingKept(worker[w]), ActionsAccounted(worker[w]),
         x \in Undecided => worker[w].decision = None,
         x \in {"pend", "quarantine"} => worker[w].decision # "ALLOW",
         x \in {"charge_grant", "charge_intent"} => worker[w].decision = "ALLOW",
         x = "approve" \/ (x = "finish" /\ worker[w].decision = "ALLOW") =>
           \E i \in IntentId : ReserveToolExecution(i),
         x = "finish" /\ worker[w].decision = "ALLOW" => worker[w].step = "charge_intent",
         x = "charge_intent" =>
           \/ actions[worker[w].action].delegation_id = None
           \/ ReserveActionDispatch(actions[worker[w].action].delegation_id),
         x \in {"record_egress", "refresh", "decide"} => worker[w].step = "record_egress"
  PROVE  \E t : Accounted(w, t)
<1>1. PICK s : s = worker[w]
  OBVIOUS
<1>2. s \in Task /\ Honest(s)
  BY <1>1, CallHeld DEF CallsHonest
<1>3. PICK t : t = [s EXCEPT !.step = x]
  OBVIOUS
<1>4. /\ t.step = x /\ t.action = s.action /\ t.decision = s.decision
      /\ t.exceeded = s.exceeded
  BY <1>2, <1>3 DEF Task
<1>5. worker' = [worker EXCEPT ![w] = t]
  BY <1>1, <1>3 DEF GoTo
<1>6. Honest(t)
  BY <1>1, <1>2, <1>4 DEF Honest
<1>7. PaidCall(t) => \E i \in IntentId : ReserveToolExecution(i)
  BY <1>1, <1>4 DEF PaidCall
<1>8. ChargedCall(t) => /\ ~Judged(s)
                        /\ \/ ChargedCall(s)
                           \/ actions[s.action].delegation_id = None
                           \/ ReserveActionDispatch(actions[s.action].delegation_id)
  <2>1. ChargedCall(t) => t.decision = "ALLOW"
    BY <1>6 DEF ChargedCall, Honest
  <2>2. s.decision = "ALLOW" => ~Judged(s)
    BY <1>2, GatewayAssumption DEF Honest, Judged, Undecided, PolicyDecision
  <2> QED BY <1>1, <1>4, <2>1, <2>2 DEF ChargedCall
<1>9. Judged(t) => Judged(s)
  BY <1>1, <1>4 DEF Judged
<1> QED BY <1>1, <1>4, <1>5, <1>6, <1>7, <1>8, <1>9, GoesOnAccounted

-----------------------------------------------------------------------------
(* One lemma for each step of a call.                                      *)
LEMMA BeginAccounted ==
  ASSUME NEW w \in Worker, worker[w] = Free, NEW t, worker' = [worker EXCEPT ![w] = t],
         t.decision = None, t.step \in {"open", "read_contract", "refuse", "start"},
         UNCHANGED <<trajectories, actions>>,
         t.action # None => \/ MayRun(t.action)
                            \/ \E key \in Created : trajectories[key].pending = t.action
  PROVE  Accounted(w, t)
<1>1. Honest(t)
  BY GatewayAssumption DEF Honest, PolicyDecision
<1> QED BY <1>1, ActionsStillAccounted, PendingStill
        DEF Accounted, CallAccounted, PaidCall, ChargedCall, Judged

LEMMA BeginEvaluateAccounted ==
  ASSUME NEW w \in Worker, NEW p \in ActionProposals, BeginEvaluate(w, p)
  PROVE  \E t : Accounted(w, t)
<1>1. PICK t : t = [step |-> "open", proposal |-> p, action |-> None,
                    intent |-> session_to_intent[p.session_id],
                    seen |-> intents'[session_to_intent[p.session_id]],
                    exceeded |-> FALSE, halted |-> FALSE, decision |-> None]
  OBVIOUS
<1>2. /\ worker' = [worker EXCEPT ![w] = t] /\ UNCHANGED <<trajectories, actions>>
      /\ worker[w] = Free
  BY <1>1 DEF BeginEvaluate, MayStart
<1>3. t.decision = None /\ t.step = "open" /\ t.action = None
  BY <1>1
<1> QED BY <1>2, <1>3, BeginAccounted

LEMMA OpenCheckpointAccounted ==
  ASSUME NEW w \in Worker, NEW a \in ActionId, NEW approved \in BOOLEAN,
         OpenCheckpoint(w, a, approved)
  PROVE  \E t : Accounted(w, t)
<1>1. PICK x : x = IF approved /\ KeyOf(a) \notin stopped THEN "read_contract" ELSE "refuse"
  OBVIOUS
<1>2. PICK t : t = [step |-> x, proposal |-> actions[a].proposal, action |-> a,
                    intent |-> actions[a].trajectory_intent, seen |-> NoContract,
                    exceeded |-> FALSE, halted |-> FALSE, decision |-> None]
  OBVIOUS
<1>3. /\ worker' = [worker EXCEPT ![w] = t] /\ UNCHANGED <<trajectories, actions>>
      /\ worker[w] = Free /\ KeyOf(a) \in Created /\ trajectories[KeyOf(a)].pending = a
  BY <1>1, <1>2 DEF OpenCheckpoint, MayStart
<1>4. t.step \in {"read_contract", "refuse"} /\ t.decision = None /\ t.action = a
  BY <1>1, <1>2
<1> QED BY <1>3, <1>4, BeginAccounted

LEMMA BeginExecuteAccounted ==
  ASSUME NEW w \in Worker, NEW a \in ActionId, BeginExecute(w, a)
  PROVE  \E t : Accounted(w, t)
<1>1. PICK t : t = [step |-> "start", proposal |-> actions[a].proposal, action |-> a,
                    intent |-> actions[a].trajectory_intent, seen |-> NoContract,
                    exceeded |-> FALSE, halted |-> FALSE, decision |-> None]
  OBVIOUS
<1>2. /\ worker' = [worker EXCEPT ![w] = t] /\ UNCHANGED <<trajectories, actions>>
      /\ worker[w] = Free /\ MayRun(a)
  BY <1>1 DEF BeginExecute, MayStart
<1>3. t.step = "start" /\ t.decision = None /\ t.action = a
  BY <1>1
<1> QED BY <1>2, <1>3, BeginAccounted

(* The record of one action is written.                                    *)
LEMMA RewrittenAccounted ==
  ASSUME Sound, NEW a \in ActionId, NEW r, Rewritten(a, r), NEW s,
         a \notin Recorded => r.policy_result # "ALLOW",
         a \in Recorded =>
           /\ r.policy_result = "ALLOW" =>
                MayRun(a) \/ (PaidCall(s) /\ s.action = a)
           /\ r.policy_result = "ALLOW" /\ ~r.approved =>
                \/ MayRun(a) /\ ~actions[a].approved
                \/ ChargedCall(s) /\ s.action = a
           /\ r.delegation_id = actions[a].delegation_id \/ (Judged(s) /\ s.action = a)
           /\ \/ r.policy_result = actions[a].policy_result
              \/ s # Free /\ ~Judged(s) /\ s.action = a
  PROVE  ActionsAccounted(s)
<1>1. /\ Recorded' = Recorded \cup {a} /\ actions'[a] = r
      /\ \A b \in ActionId \ {a} : actions'[b] = actions[b]
  BY RewrittenKeeps DEF Sound
<1>2. \A b \in Recorded : b # a => actions'[b] = actions[b]
  BY <1>1 DEF Recorded
<1> QED BY <1>1, <1>2 DEF ActionsAccounted, MayRun

LEMMA EvaluateUngovernedAccounted ==
  ASSUME Sound, NEW w \in Worker, NEW p \in ActionProposals, EvaluateUngoverned(w, p)
  PROVE  \E t : Accounted(w, t)
<1>1. PICK a \in ActionId \ Recorded :
        actions' = [actions EXCEPT ![a] = NewAction(p, None, "DENY", "DENIED")]
  BY DEF EvaluateUngoverned
<1>2. PICK r : r = NewAction(p, None, "DENY", "DENIED")
  OBVIOUS
<1>3. r \in AgentAction /\ r.policy_result = "DENY"
  BY <1>2, GatewayAssumption DEF NewAction, AgentAction, PolicyDecision, ToolExecutionStatus
<1>4. Rewritten(a, r)
  BY <1>1, <1>2, <1>3 DEF Rewritten
<1>5. PICK t : t = worker[w]
  OBVIOUS
<1>6. t = Free /\ worker' = [worker EXCEPT ![w] = t]
  BY <1>5 DEF EvaluateUngoverned, MayStart, Sound, GatewayInv, GatewayTypeOK
<1>7. ActionsAccounted(t)
  BY <1>3, <1>4, RewrittenAccounted
<1>8. PendingKept(t)
  BY PendingStill DEF EvaluateUngoverned
<1> QED BY <1>5, <1>6, <1>7, <1>8 DEF Accounted, CallAccounted, PaidCall, ChargedCall, Judged

(* The snapshot of the trajectory is taken before there is a decision.     *)
LEMMA ObservedAccounted ==
  ASSUME Sound, CallsHonest, NEW w \in Worker, worker[w] # Free,
         NEW x \in {"validate", "decide"}, worker[w].step \in {"open", "refresh"},
         x = "decide" => worker[w].step = "refresh",
         NEW trajectory, worker' = [worker EXCEPT ![w] = Observed(worker[w], x, trajectory)],
         PendingKept(worker[w]), ActionsAccounted(worker[w])
  PROVE  \E t : Accounted(w, t)
<1>1. PICK s : s = worker[w]
  OBVIOUS
<1>2. s \in Task /\ s.decision = None
  BY <1>1, CallHeld DEF CallsHonest, Honest, Undecided
<1>3. PICK t : t = Observed(s, x, trajectory)
  OBVIOUS
<1>4. t.step = x /\ t.action = s.action
  BY <1>2, <1>3, ObservedType
<1>5. t.decision = s.decision
  <2> DEFINE h == TrajectoryOf(s) \in stopped
             e == ~h /\ SplitExfiltration(trajectory)
  <2>1. t = [s EXCEPT !.step = x, !.halted = h, !.exceeded = e]
    BY <1>3 DEF Observed
  <2> HIDE DEF h, e
  <2> QED BY <1>2, <2>1 DEF Task
<1>6. Honest(t)
  BY <1>2, <1>4, <1>5, GatewayAssumption DEF Honest, PolicyDecision
<1>7. ~PaidCall(t) /\ ~ChargedCall(t) /\ (Judged(t) => Judged(s))
  BY <1>1, <1>4 DEF PaidCall, ChargedCall, Judged
<1> QED BY <1>1, <1>3, <1>4, <1>6, <1>7, GoesOnAccounted

LEMMA OpenTrajectoryAccounted ==
  ASSUME Sound, CallsHonest, NEW w \in Worker, OpenTrajectory(w)
  PROVE  \E t : Accounted(w, t)
<1>1. PICK s : s = worker[w]
  OBVIOUS
<1>2. PICK key : key = TrajectoryOf(s)
  OBVIOUS
<1>3. PICK current : current = GetOrCreate(key, s.seen)
  OBVIOUS
<1>4. worker[w] # Free /\ s.step = "open" /\ key \in Key
  BY <1>1, <1>2, Held DEF OpenTrajectory, At, Sound
<1>5. Replace(key, current)
  BY <1>1, <1>2, <1>3 DEF OpenTrajectory
<1>6. current.pending = None \/ (key \in Created /\ current.pending = trajectories[key].pending)
  BY <1>3, <1>4 DEF GetOrCreate, NewTrajectory, Created
<1>7. ActionsAccounted(s) /\ PendingKept(s)
  BY <1>4, <1>5, <1>6, PendingReplaced, ActionsStillAccounted DEF OpenTrajectory
<1>8. CASE Return(w)
  BY <1>1, <1>7, <1>8, ReturnAccounted
<1>9. CASE worker' = [worker EXCEPT ![w] = Observed(worker[w], "validate", current)]
  BY <1>1, <1>4, <1>7, <1>9, ObservedAccounted
<1>10. \/ Return(w)
       \/ worker' = [worker EXCEPT ![w] = Observed(worker[w], "validate", current)]
  BY <1>1, <1>2, <1>3 DEF OpenTrajectory
<1> QED BY <1>8, <1>9, <1>10

LEMMA ValidateAccounted ==
  ASSUME Sound, CallsHonest, NEW w \in Worker, Validate(w)
  PROVE  \E t : Accounted(w, t)
<1>1. PICK s : s = worker[w]
  OBVIOUS
<1>2. s \in Task /\ Honest(s) /\ worker[w] # Free /\ s.step = "validate" /\ s.decision = None
  BY <1>1, CallHeld DEF Validate, At, CallsHonest, Honest, Undecided
<1>3. PendingKept(s)
  BY PendingStill DEF Validate
<1>4. CASE Return(w) /\ UNCHANGED actions
  BY <1>1, <1>3, <1>4, ActionsStillAccounted, ReturnAccounted
<1>5. ASSUME NEW a \in ActionId \ Recorded,
             actions' = [actions EXCEPT ![a] = NewAction(s.proposal, s.intent, None, "PROPOSED")],
             worker' = [worker EXCEPT
               ![w].action = a,
               ![w].step = IF s.proposal.sensitive_egress THEN "record_egress" ELSE "decide"]
      PROVE  \E t : Accounted(w, t)
  <2>1. PICK r : r = NewAction(s.proposal, s.intent, None, "PROPOSED")
    OBVIOUS
  <2>2. r \in AgentAction /\ r.policy_result = None
    BY <1>2, <2>1, GatewayAssumption, IntentServiceAssumption
    DEF NewAction, AgentAction, PolicyDecision, ToolExecutionStatus, Task
  <2>3. Rewritten(a, r)
    BY <1>5, <2>1, <2>2 DEF Rewritten
  <2>4. ActionsAccounted(s) /\ actions'[a] = r
    BY <2>2, <2>3, RewrittenAccounted, RewrittenKeeps, GatewayAssumption DEF Sound, PolicyDecision
  <2>5. PICK t : t = [s EXCEPT !.action = a,
                !.step = IF s.proposal.sensitive_egress THEN "record_egress" ELSE "decide"]
    OBVIOUS
  <2>6. /\ t.action = a /\ t.step \in {"record_egress", "decide"} /\ t.decision = None
    BY <1>2, <2>5 DEF Task
  <2>7. Honest(t) /\ ~PaidCall(t) /\ ~ChargedCall(t)
    BY <2>6, GatewayAssumption DEF Honest, PolicyDecision, PaidCall, ChargedCall
  <2>8. CallAccounted(s, t)
    BY <1>5, <2>2, <2>4, <2>6, <2>7 DEF CallAccounted
  <2>9. worker' = [worker EXCEPT ![w] = t]
    BY <1>1, <1>2, <1>5, <2>5 DEF Sound, GatewayInv, GatewayTypeOK
  <2> QED BY <1>1, <1>3, <2>4, <2>8, <2>9 DEF Accounted
<1> QED BY <1>1, <1>4, <1>5 DEF Validate

LEMMA CountEgressAccounted ==
  ASSUME Sound, CallsHonest, NEW w \in Worker, CountEgress(w)
  PROVE  \E t : Accounted(w, t)
<1>1. PICK s : s = worker[w]
  OBVIOUS
<1>2. PICK key : key = TrajectoryOf(s)
  OBVIOUS
<1>3. /\ worker[w] # Free /\ s.step = "record_egress" /\ s.decision = None
      /\ key \in Created /\ key \in Key /\ trajectories[key] \in Trajectory
  BY <1>1, <1>2, Working DEF CountEgress, At, Evaluating, Sound, Placed, CallsHonest, Honest,
     Undecided, Created
<1>4. PICK t : t = [trajectories[key] EXCEPT !.egress = @ \cup {s.action}]
  OBVIOUS
<1>5. Replace(key, t) /\ t.pending = trajectories[key].pending
  BY <1>1, <1>2, <1>3, <1>4 DEF CountEgress, RecordEgress, Trajectory
<1>6. PendingKept(s) /\ ActionsAccounted(s)
  BY <1>3, <1>5, PendingReplaced, ActionsStillAccounted DEF CountEgress
<1> QED BY <1>1, <1>3, <1>6, GoToAccounted DEF CountEgress

LEMMA RefreshAccounted ==
  ASSUME Sound, CallsHonest, NEW w \in Worker, Refresh(w)
  PROVE  \E t : Accounted(w, t)
<1>1. PendingKept(worker[w]) /\ ActionsAccounted(worker[w])
  BY PendingStill, ActionsStillAccounted DEF Refresh
<1>2. worker[w] # Free /\ worker[w].step = "refresh"
  BY DEF Refresh, At
<1>3. worker' = [worker EXCEPT ![w] =
                   Observed(worker[w], "decide", trajectories[TrajectoryOf(worker[w])])]
  BY DEF Refresh
<1> QED BY <1>1, <1>2, <1>3, ObservedAccounted

(* What is allowed does not exceed the limit, whatever was analysed.       *)
LEMMA AllowedNotExceeded ==
  ASSUME NEW t, t.exceeded \in BOOLEAN, Verdict(t) = "ALLOW"
  PROVE  ~t.exceeded
BY DEF Verdict, Authorized, Contained, Exceeds

LEMMA DecideAccounted ==
  ASSUME Sound, CallsHonest, NEW w \in Worker, Decide(w)
  PROVE  \E t : Accounted(w, t)
<1>1. PICK s : s = worker[w]
  OBVIOUS
<1>2. PICK a : a = s.action
  OBVIOUS
<1>3. /\ s \in Task /\ s # Free /\ s.step = "decide" /\ Judged(s)
      /\ a \in ActionId /\ a \in Recorded /\ actions[a] \in AgentAction
  BY <1>1, <1>2, CallHeld, CallAction DEF Decide, At, Judged
<1>4. PICK d : d = IF ResolvedGrant(s) THEN s.proposal.delegation_id ELSE None
  OBVIOUS
<1>5. d \in DelegationId \cup {None}
  BY <1>4 DEF ResolvedGrant, Issued
<1>6. PICK r : r = [actions[a] EXCEPT !.delegation_id = d]
  OBVIOUS
<1>7. /\ r \in AgentAction /\ r.proposal = actions[a].proposal
      /\ r.trajectory_intent = actions[a].trajectory_intent
      /\ r.policy_result = actions[a].policy_result
      /\ r.approved = actions[a].approved
  BY <1>3, <1>5, <1>6 DEF AgentAction
<1>8. Rewritten(a, r)
  BY <1>1, <1>2, <1>4, <1>6, <1>7 DEF Decide, Rewritten
<1>9. ActionsAccounted(s)
  BY <1>2, <1>3, <1>7, <1>8, RewrittenAccounted DEF MayRun
<1>10. PendingKept(s)
  BY PendingStill DEF Decide
<1>11. PICK v : v = Verdict(s)
  OBVIOUS
<1>12. PICK t : t = [s EXCEPT !.step = "record", !.decision = v]
  OBVIOUS
<1>13. t.step = "record" /\ t.decision = v /\ t.action = a /\ t.exceeded = s.exceeded
  BY <1>2, <1>3, <1>12 DEF Task
<1>14. s.exceeded \in BOOLEAN
  BY <1>3 DEF Task
<1>15. Honest(t)
  BY <1>11, <1>13, <1>14, AllowedNotExceeded DEF Honest, Undecided
<1>16. ~PaidCall(t) /\ ~ChargedCall(t) /\ ~Judged(t)
  BY <1>13 DEF PaidCall, ChargedCall, Judged
<1>17. worker' = [worker EXCEPT ![w] = t]
  BY <1>1, <1>3, <1>11, <1>12 DEF Decide, Sound, GatewayInv, GatewayTypeOK
<1> QED BY <1>1, <1>2, <1>3, <1>9, <1>10, <1>13, <1>15, <1>16, <1>17, GoesOnAccounted

LEMMA RecordAccounted ==
  ASSUME Sound, CallsHonest, NEW w \in Worker, Record(w)
  PROVE  \E t : Accounted(w, t)
<1>1. PICK s : s = worker[w]
  OBVIOUS
<1>2. PICK key : key = TrajectoryOf(s)
  OBVIOUS
<1>3. /\ worker[w] # Free /\ s.step = "record" /\ Honest(s)
      /\ key \in Created /\ key \in Key /\ trajectories[key] \in Trajectory
  BY <1>1, <1>2, Working DEF Record, At, Evaluating, Sound, Placed, CallsHonest, Created
<1>4. PICK t : t = [trajectories[key] EXCEPT !.evaluated = Evaluated(trajectories[key], s.action),
                                             !.last = s.action]
  OBVIOUS
<1>5. Replace(key, t) /\ t.pending = trajectories[key].pending
  BY <1>1, <1>2, <1>3, <1>4 DEF Record, RecordEvaluation, Trajectory
<1>6. PendingKept(s) /\ ActionsAccounted(s)
  BY <1>3, <1>5, PendingReplaced, ActionsStillAccounted DEF Record
<1>7. PICK x : x = AfterRecord(s)
  OBVIOUS
<1>8. /\ x \in {"quarantine", "pend", "charge_grant", "charge_intent", "finish"}
      /\ x = "pend" => s.decision = "REQUIRE_APPROVAL"
      /\ x = "quarantine" => s.exceeded \/ s.decision = "QUARANTINE"
      /\ x \in {"charge_grant", "charge_intent"} => s.decision = "ALLOW"
      /\ x = "charge_intent" => actions[s.action].delegation_id = None
      /\ x = "finish" => s.decision # "ALLOW"
  BY <1>7 DEF AfterRecord, AfterRecordByDecision, Exceeds
<1>9. GoTo(w, x)
  BY <1>1, <1>7 DEF Record
<1>10. x \in {"pend", "quarantine"} => s.decision # "ALLOW"
  BY <1>3, <1>8 DEF Honest
<1> QED BY <1>1, <1>3, <1>6, <1>8, <1>9, <1>10, GoToAccounted DEF Undecided

LEMMA SetCheckpointAccounted ==
  ASSUME Sound, CallsHonest, NEW w \in Worker, SetCheckpoint(w)
  PROVE  \E t : Accounted(w, t)
<1>1. PICK s : s = worker[w]
  OBVIOUS
<1>2. PICK key : key = TrajectoryOf(s)
  OBVIOUS
<1>3. /\ worker[w] # Free /\ s # Free /\ s.step = "pend" /\ s.decision # "ALLOW"
      /\ key \in Key /\ trajectories[key] \in Trajectory
  BY <1>1, <1>2, Working DEF SetCheckpoint, At, Evaluating, Sound, Placed, CallsHonest, Honest,
     Created
<1>4. ActionsAccounted(s)
  BY ActionsStillAccounted DEF SetCheckpoint
<1>5. CASE SetPending(key, s.action) /\ GoTo(w, "finish")
  <2>1. PICK old : old = trajectories[key]
    OBVIOUS
  <2>2. PICK t : t = [old EXCEPT !.evaluated = Evaluated(old, s.action),
                                 !.last = s.action, !.pending = s.action]
    OBVIOUS
  <2>3. Replace(key, t) /\ t.pending = s.action
    BY <1>3, <1>5, <2>1, <2>2 DEF SetPending, Trajectory
  <2>4. PendingKept(s)
    BY <1>3, <2>3, PendingReplaced
  <2> QED BY <1>1, <1>3, <1>4, <1>5, <2>4, GoToAccounted DEF Undecided
<1>6. CASE Return(w) /\ UNCHANGED trajectories
  BY <1>1, <1>4, <1>6, PendingStill, ReturnAccounted
<1> QED BY <1>1, <1>2, <1>5, <1>6 DEF SetCheckpoint

LEMMA QuarantineAccounted ==
  ASSUME Sound, CallsHonest, NEW w \in Worker, Quarantine(w)
  PROVE  \E t : Accounted(w, t)
<1>1. /\ worker[w] # Free /\ worker[w].decision # "ALLOW"
      /\ UNCHANGED <<trajectories, actions>> /\ GoTo(w, "finish")
  BY DEF Quarantine, At, CallsHonest, Honest
<1>2. PendingKept(worker[w]) /\ ActionsAccounted(worker[w])
  BY <1>1, PendingStill, ActionsStillAccounted
<1> QED BY <1>1, <1>2, GoToAccounted DEF Undecided

LEMMA DeniesLateAccounted ==
  ASSUME Sound, NEW w \in Worker, worker[w] # Free, DenyLate(w),
         UNCHANGED <<trajectories, actions>>
  PROVE  \E t : Accounted(w, t)
<1>1. PICK s : s = worker[w]
  OBVIOUS
<1>2. s \in Task
  BY <1>1, CallHeld
<1>3. PICK t : t = [s EXCEPT !.step = "finish", !.decision = "DENY"]
  OBVIOUS
<1>4. t.step = "finish" /\ t.decision = "DENY" /\ t.action = s.action
  BY <1>2, <1>3 DEF Task
<1>5. worker' = [worker EXCEPT ![w] = t]
  BY <1>1, <1>3 DEF DenyLate, Sound, GatewayInv, GatewayTypeOK
<1>6. Honest(t) /\ ~PaidCall(t) /\ ~ChargedCall(t) /\ ~Judged(t)
  BY <1>4 DEF Honest, Undecided, PaidCall, ChargedCall, Judged
<1> QED BY <1>1, <1>4, <1>5, <1>6, PendingStill, ActionsStillAccounted, GoesOnAccounted

LEMMA ChargeGrantAccounted ==
  ASSUME Sound, CallsHonest, NEW w \in Worker, ChargeGrant(w)
  PROVE  \E t : Accounted(w, t)
<1>1. /\ worker[w] # Free /\ worker[w].decision = "ALLOW"
      /\ UNCHANGED <<trajectories, actions>>
  BY DEF ChargeGrant, At, CallsHonest, Honest
<1>2. PendingKept(worker[w]) /\ ActionsAccounted(worker[w])
  BY <1>1, PendingStill, ActionsStillAccounted
<1>3. CASE /\ ReserveActionDispatch(actions[worker[w].action].delegation_id)
           /\ GoTo(w, "charge_intent")
  BY <1>1, <1>2, <1>3, GoToAccounted DEF Undecided
<1>4. CASE DenyLate(w)
  BY <1>1, <1>4, DeniesLateAccounted
<1> QED BY <1>3, <1>4 DEF ChargeGrant

LEMMA ChargeIntentAccounted ==
  ASSUME Sound, CallsHonest, NEW w \in Worker, ChargeIntent(w)
  PROVE  \E t : Accounted(w, t)
<1>1. /\ worker[w] # Free /\ worker[w].step = "charge_intent" /\ worker[w].decision = "ALLOW"
      /\ UNCHANGED <<trajectories, actions>> /\ worker[w].intent \in IntentId
  BY Held DEF ChargeIntent, At, CallsHonest, Honest, Sound
<1>2. PendingKept(worker[w]) /\ ActionsAccounted(worker[w])
  BY <1>1, PendingStill, ActionsStillAccounted
<1>3. CASE ReserveToolExecution(worker[w].intent) /\ GoTo(w, "finish")
  <2>1. \E i \in IntentId : ReserveToolExecution(i)
    BY <1>1, <1>3
  <2> QED BY <1>1, <1>2, <1>3, <2>1, GoToAccounted DEF Undecided
<1>4. CASE DenyLate(w)
  BY <1>1, <1>4, DeniesLateAccounted
<1> QED BY <1>3, <1>4 DEF ChargeIntent

LEMMA UpdateAccounted ==
  ASSUME Sound, NEW w \in Worker, worker[w] # Free, NEW a, a = worker[w].action,
         a \in ActionId, a \in Recorded, ~Judged(worker[w]),
         NEW decision \in PolicyDecision \cup {None}, NEW x \in ToolExecutionStatus,
         NEW approved \in BOOLEAN, Update(a, decision, x, approved),
         decision = "ALLOW" => /\ PaidCall(worker[w])
                               /\ approved \/ ChargedCall(worker[w])
  PROVE  ActionsAccounted(worker[w])
<1>1. PICK old : old = actions[a]
  OBVIOUS
<1>2. old \in AgentAction
  BY <1>1 DEF Sound, GatewayInv, GatewayTypeOK, Recorded
<1>3. PICK r : r = [old EXCEPT !.policy_result = decision, !.execution_status = x,
                               !.approved = approved]
  OBVIOUS
<1>4. /\ r \in AgentAction /\ r.proposal = old.proposal /\ r.policy_result = decision
      /\ r.trajectory_intent = old.trajectory_intent /\ r.delegation_id = old.delegation_id
      /\ r.approved = approved
  BY <1>2, <1>3 DEF AgentAction
<1>5. Rewritten(a, r)
  BY <1>1, <1>3, <1>4 DEF Rewritten, Update
<1> QED BY <1>1, <1>4, <1>5, RewrittenAccounted

LEMMA RestartAccounted ==
  ASSUME Sound, NEW a \in ActionId, a \in Recorded, NEW x \in ToolExecutionStatus,
         SetExecutionStatus(a, x), NEW s
  PROVE  ActionsAccounted(s)
<1>1. PICK old : old = actions[a]
  OBVIOUS
<1>2. old \in AgentAction
  BY <1>1 DEF Sound, GatewayInv, GatewayTypeOK, Recorded
<1>3. PICK r : r = [old EXCEPT !.execution_status = x]
  OBVIOUS
<1>4. /\ r \in AgentAction /\ r.proposal = old.proposal /\ r.policy_result = old.policy_result
      /\ r.trajectory_intent = old.trajectory_intent /\ r.delegation_id = old.delegation_id
      /\ r.approved = old.approved
  BY <1>2, <1>3 DEF AgentAction
<1>5. Rewritten(a, r)
  BY <1>1, <1>3, <1>4 DEF Rewritten, SetExecutionStatus
<1> QED BY <1>1, <1>4, <1>5, RewrittenAccounted DEF MayRun

LEMMA FinishEvaluateAccounted ==
  ASSUME Sound, CallsHonest, NEW w \in Worker, FinishEvaluate(w)
  PROVE  \E t : Accounted(w, t)
<1>1. PICK s : s = worker[w]
  OBVIOUS
<1>2. /\ s \in Task /\ worker[w] # Free /\ s.action \in ActionId /\ s.action \in Recorded
      /\ s.step = "finish"
  BY <1>1, CallHeld, CallAction DEF FinishEvaluate, At
<1>3. s.decision \in PolicyDecision \cup {None} /\ StatusOf(s.decision) \in ToolExecutionStatus
  BY <1>2 DEF Task, StatusOf, ToolExecutionStatus
<1>4. Update(s.action, s.decision, StatusOf(s.decision), FALSE) /\ Return(w)
  BY <1>1 DEF FinishEvaluate
<1>5. PICK a, d, x : a = s.action /\ d = s.decision /\ x = StatusOf(s.decision)
  OBVIOUS
<1>6. ~Judged(s) /\ (d = "ALLOW" => PaidCall(s) /\ ChargedCall(s))
  BY <1>1, <1>2, <1>5 DEF Judged, PaidCall, ChargedCall
<1>7. ActionsAccounted(s)
  BY <1>1, <1>2, <1>3, <1>4, <1>5, <1>6, UpdateAccounted
<1> QED BY <1>1, <1>4, <1>7, PendingStill, ReturnAccounted DEF FinishEvaluate

LEMMA ReadContractAccounted ==
  ASSUME Sound, CallsHonest, NEW w \in Worker, ReadContract(w)
  PROVE  \E t : Accounted(w, t)
<1>1. PICK s : s = worker[w]
  OBVIOUS
<1>2. s \in Task /\ worker[w] # Free /\ s.step = "read_contract" /\ Honest(s)
  BY <1>1, CallHeld DEF ReadContract, At, CallsHonest
<1>3. PICK i, c : /\ i = session_to_intent[s.proposal.session_id]
                  /\ c = intents'[session_to_intent[s.proposal.session_id]]
  OBVIOUS
<1>4. PICK x \in {"reserve", "refuse"} :
        worker' = [worker EXCEPT ![w].intent = i, ![w].seen = c, ![w].step = x]
  BY <1>1, <1>3 DEF ReadContract
<1>5. PICK t : t = [s EXCEPT !.intent = i, !.seen = c, !.step = x]
  OBVIOUS
<1>6. /\ t.step = x /\ t.action = s.action /\ t.decision = s.decision
  BY <1>2, <1>5 DEF Task
<1>7. Honest(t) /\ ~PaidCall(t) /\ ~ChargedCall(t) /\ ~Judged(t)
  BY <1>2, <1>4, <1>6, GatewayAssumption
  DEF Honest, Undecided, PolicyDecision, PaidCall, ChargedCall, Judged
<1>8. worker' = [worker EXCEPT ![w] = t]
  BY <1>1, <1>4, <1>5 DEF Sound, GatewayInv, GatewayTypeOK
<1>9. PendingKept(s) /\ ActionsAccounted(s)
  BY PendingStill, ActionsStillAccounted DEF ReadContract
<1> QED BY <1>1, <1>2, <1>6, <1>7, <1>8, <1>9, GoesOnAccounted

LEMMA ReserveForApprovalAccounted ==
  ASSUME Sound, CallsHonest, NEW w \in Worker, ReserveForApproval(w)
  PROVE  \E t : Accounted(w, t)
<1>1. /\ worker[w] # Free /\ worker[w].decision = None /\ worker[w].intent \in IntentId
      /\ UNCHANGED <<trajectories, actions>>
  BY Held DEF ReserveForApproval, At, CallsHonest, Honest, Undecided, Sound
<1>2. PendingKept(worker[w]) /\ ActionsAccounted(worker[w])
  BY <1>1, PendingStill, ActionsStillAccounted
<1>3. CASE ReserveToolExecution(worker[w].intent) /\ GoTo(w, "approve")
  <2>1. \E i \in IntentId : ReserveToolExecution(i)
    BY <1>1, <1>3
  <2> QED BY <1>1, <1>2, <1>3, <2>1, GoToAccounted
<1>4. CASE GoTo(w, "refuse")
  BY <1>1, <1>2, <1>4, GoToAccounted
<1> QED BY <1>3, <1>4 DEF ReserveForApproval

LEMMA ClearPendingAccounted ==
  ASSUME Sound, NEW a, Placed(a), ClearPending(KeyOf(a), a), NEW s
  PROVE  PendingKept(s)
<1>1. PICK key : key = KeyOf(a)
  OBVIOUS
<1>2. key \in Key /\ key \in Created /\ trajectories[key] \in Trajectory
  BY <1>1, PlacedTypes DEF Placed, Sound
<1>3. PICK t : t = [trajectories[key] EXCEPT !.pending = IF @ = a THEN None ELSE @]
  OBVIOUS
<1>4. t.pending = None \/ t.pending = trajectories[key].pending
  BY <1>2, <1>3 DEF Trajectory
<1>5. Replace(key, t)
  BY <1>1, <1>3 DEF ClearPending
<1> QED BY <1>2, <1>4, <1>5, PendingReplaced

LEMMA RefuseAccounted ==
  ASSUME Sound, CallsHonest, NEW w \in Worker, Refuse(w)
  PROVE  \E t : Accounted(w, t)
<1>1. PICK a : a = worker[w].action
  OBVIOUS
<1>2. /\ a \in ActionId /\ a \in Recorded /\ Placed(a) /\ worker[w] # Free
      /\ ~Judged(worker[w])
  BY <1>1, CallAction, Resolving DEF Refuse, At, Sound, Judged
<1>3. ClearPending(KeyOf(a), a) /\ Update(a, "DENY", "DENIED", FALSE) /\ Return(w)
  BY <1>1 DEF Refuse
<1>4. ActionsAccounted(worker[w])
  BY <1>1, <1>2, <1>3, UpdateAccounted DEF PolicyDecision, ToolExecutionStatus
<1> QED BY <1>2, <1>3, <1>4, ClearPendingAccounted, ReturnAccounted

LEMMA ApproveAccounted ==
  ASSUME Sound, CallsHonest, NEW w \in Worker, Approve(w)
  PROVE  \E t : Accounted(w, t)
<1>1. PICK a : a = worker[w].action
  OBVIOUS
<1>2. /\ a \in ActionId /\ a \in Recorded /\ Placed(a) /\ worker[w] # Free
      /\ ~Judged(worker[w]) /\ PaidCall(worker[w]) /\ worker[w].decision = None
  BY <1>1, CallAction, Resolving
  DEF Approve, At, Sound, Judged, PaidCall, CallsHonest, Honest, Undecided
<1>3. ClearPending(KeyOf(a), a) /\ Update(a, "ALLOW", "AUTHORIZED", TRUE) /\ GoTo(w, "gate")
  BY <1>1 DEF Approve
<1>4. ActionsAccounted(worker[w])
  BY <1>1, <1>2, <1>3, UpdateAccounted DEF PolicyDecision, ToolExecutionStatus
<1> QED BY <1>2, <1>3, <1>4, ClearPendingAccounted, GoToAccounted

LEMMA GateAccounted ==
  ASSUME Sound, CallsHonest, NEW w \in Worker, Gate(w) \/ AssertionFails(w)
  PROVE  \E t : Accounted(w, t)
<1>1. /\ worker[w] # Free /\ worker[w].decision = None
      /\ UNCHANGED <<trajectories, actions>>
  BY DEF Gate, AssertionFails, At, CallsHonest, Honest, Undecided
<1>2. PendingKept(worker[w]) /\ ActionsAccounted(worker[w])
  BY <1>1, PendingStill, ActionsStillAccounted
<1>3. GoTo(w, "start") \/ Return(w)
  BY DEF Gate, AssertionFails
<1> QED BY <1>1, <1>2, <1>3, GoToAccounted, ReturnAccounted

LEMMA StartAccounted ==
  ASSUME Sound, CallsHonest, NEW w \in Worker, Start(w)
  PROVE  \E t : Accounted(w, t)
<1>1. PICK a : a = worker[w].action
  OBVIOUS
<1>2. a \in ActionId /\ a \in Recorded /\ worker[w] # Free /\ worker[w].decision = None
  BY <1>1, CallAction DEF Start, At, CallsHonest, Honest, Undecided
<1>3. ActionsAccounted(worker[w])
  BY <1>1, <1>2, RestartAccounted DEF Start, ToolExecutionStatus
<1> QED BY <1>2, <1>3, PendingStill, GoToAccounted DEF Start

LEMMA RunToolAccounted ==
  ASSUME Sound, CallsHonest, NEW w \in Worker, RunTool(w)
  PROVE  \E t : Accounted(w, t)
<1>1. PICK a : a = worker[w].action
  OBVIOUS
<1>2. a \in ActionId /\ a \in Recorded /\ Placed(a) /\ worker[w] # Free
  BY <1>1, CallAction, Resolving DEF RunTool, At, Sound
<1>3. PICK key : key = KeyOf(a)
  OBVIOUS
<1>4. key \in Created /\ key \in Key /\ trajectories[key] \in Trajectory
  BY <1>2, <1>3, PlacedTypes DEF Placed, Sound
<1>5. SetExecutionStatus(a, "COMPLETED") \/ SetExecutionStatus(a, "FAILED")
  BY <1>1 DEF RunTool
<1>6. ActionsAccounted(worker[w])
  BY <1>2, <1>5, RestartAccounted DEF ToolExecutionStatus
<1>7. RecordExecution(key, a) \/ UNCHANGED trajectories
  BY <1>1, <1>3 DEF RunTool
<1>8. PICK t : t = [trajectories[key] EXCEPT !.executed = @ \cup {a}]
  OBVIOUS
<1>9. t.pending = trajectories[key].pending
  BY <1>4, <1>8 DEF Trajectory
<1>10. PendingKept(worker[w])
  BY <1>4, <1>7, <1>8, <1>9, PendingReplaced, PendingStill DEF RecordExecution
<1> QED BY <1>6, <1>10, ReturnAccounted DEF RunTool

LEMMA WorkerAccounted ==
  ASSUME Sound, CallsHonest, NEW w \in Worker, NewCall(w) \/ WorkerStep(w)
  PROVE  \E t : Accounted(w, t)
<1>1. CASE NewCall(w)
  BY <1>1, BeginEvaluateAccounted, EvaluateUngovernedAccounted, OpenCheckpointAccounted,
     BeginExecuteAccounted DEF NewCall
<1>2. CASE WorkerStep(w)
  BY <1>2, OpenTrajectoryAccounted, ValidateAccounted, CountEgressAccounted, RefreshAccounted,
     DecideAccounted, RecordAccounted, SetCheckpointAccounted, QuarantineAccounted,
     ChargeGrantAccounted, ChargeIntentAccounted, FinishEvaluateAccounted,
     ReadContractAccounted, ReserveForApprovalAccounted, RefuseAccounted, ApproveAccounted,
     GateAccounted, StartAccounted, RunToolAccounted
  DEF WorkerStep
<1> QED BY <1>1, <1>2

-----------------------------------------------------------------------------
(* What the counting rests on, of every call under way.                    *)
Traceable == CallsHonest /\ ProposalsPrivate

LEMMA OthersStand ==
  ASSUME Sound, NEW w \in Worker, NEW t, worker' = [worker EXCEPT ![w] = t]
  PROVE  worker'[w] = t /\ \A v \in Worker \ {w} : worker'[v] = worker[v]
BY DEF Sound, GatewayInv, GatewayTypeOK

LEMMA HeldRecorded ==
  ASSUME GatewayInv, NEW w \in Worker, worker[w] # Free, worker[w].action # None
  PROVE  worker[w].action \in Recorded
BY DEF GatewayInv, WorkersGrounded, Grounded, Placed

LEMMA JudgedRecorded ==
  ASSUME GatewayInv, NEW w \in Worker, Judged(worker[w])
  PROVE  worker[w] # Free /\ worker[w].action \in Recorded /\ worker[w].action # None
BY DEF GatewayInv, WorkersGrounded, Grounded, Placed, Judged

LEMMA PrivacyStays ==
  ASSUME Sound, GatewayInv', ProposalsPrivate, NEW w \in Worker, NEW t, Accounted(w, t)
  PROVE  ProposalsPrivate'
<1> SUFFICES ASSUME NEW v \in Worker, Judged(worker'[v]), NEW a, a = worker'[v].action
             PROVE  /\ actions'[a].policy_result = None
                    /\ \A u \in Worker \ {v} : worker'[u] # Free => worker'[u].action # a
                    /\ \A key \in Created' : trajectories'[key].pending # a
  BY DEF ProposalsPrivate, Private, Judged
<1>1. worker'[w] = t /\ \A u \in Worker \ {w} : worker'[u] = worker[u]
  BY OthersStand DEF Accounted
<1>2. a # None
  BY DEF GatewayInv, WorkersGrounded, Grounded, Judged
<1>3. PICK s : s = worker[w]
  OBVIOUS
<1>4. PendingKept(s) /\ ActionsAccounted(s) /\ CallAccounted(s, t)
  BY <1>3 DEF Accounted
<1>5. \A u \in Worker : worker[u] # Free => worker[u].action \in Recorded \cup {None}
  BY HeldRecorded DEF Sound
<1>6. \A key \in Created : trajectories[key].pending \in Recorded \cup {None}
  BY DEF Sound, Covered, CheckpointsCovered, CheckpointCovered
<1>7. CASE v = w /\ a \notin Recorded
  <2>1. actions'[a].policy_result = None
    <3>1. Judged(s) => s.action \in Recorded
      BY <1>3, JudgedRecorded DEF Sound
    <3> QED BY <1>1, <1>4, <1>7, <3>1 DEF CallAccounted
  <2>2. \A u \in Worker \ {v} : worker'[u] # Free => worker'[u].action # a
    BY <1>1, <1>2, <1>5, <1>7
  <2>3. \A key \in Created' : trajectories'[key].pending # a
    BY <1>2, <1>3, <1>4, <1>5, <1>6, <1>7 DEF PendingKept
  <2> QED BY <2>1, <2>2, <2>3
<1>8. CASE v = w /\ a \in Recorded
  <2>1. Judged(s) /\ a = s.action
    BY <1>1, <1>4, <1>8 DEF CallAccounted
  <2>2. Private(w, a)
    BY <1>3, <2>1 DEF ProposalsPrivate
  <2>3. actions'[a].policy_result = None
    BY <1>4, <1>8, <2>1, <2>2 DEF ActionsAccounted, Private
  <2>4. \A u \in Worker \ {v} : worker'[u] # Free => worker'[u].action # a
    BY <1>1, <1>8, <2>2 DEF Private
  <2>5. \A key \in Created' : trajectories'[key].pending # a
    BY <1>2, <1>4, <2>1, <2>2 DEF PendingKept, Private, Judged
  <2> QED BY <2>3, <2>4, <2>5
<1>9. CASE v # w
  <2>1. worker'[v] = worker[v] /\ Judged(worker[v]) /\ a = worker[v].action
    BY <1>1, <1>9
  <2>2. a \in Recorded /\ Private(v, a)
    BY <2>1, JudgedRecorded DEF ProposalsPrivate, Sound
  <2>3. s # Free => s.action # a
    BY <1>3, <1>9, <2>2 DEF Private
  <2>4. actions'[a].policy_result = None
    BY <1>4, <2>2, <2>3 DEF ActionsAccounted, Private
  <2>5. t # Free => t.action # a
    BY <1>2, <1>4, <2>2, <2>3, GatewayAssumption
    DEF CallAccounted, Private, MayRun, PolicyDecision
  <2>6. \A u \in Worker \ {v} : worker'[u] # Free => worker'[u].action # a
    BY <1>1, <2>2, <2>5 DEF Private
  <2>7. \A key \in Created' : trajectories'[key].pending # a
    BY <1>2, <1>4, <2>2, <2>3 DEF PendingKept, Private
  <2> QED BY <2>4, <2>6, <2>7
<1> QED BY <1>7, <1>8, <1>9

LEMMA HonestyStays ==
  ASSUME Sound, CallsHonest, NEW w \in Worker, NEW t, Accounted(w, t)
  PROVE  CallsHonest'
<1>1. worker'[w] = t /\ \A u \in Worker \ {w} : worker'[u] = worker[u]
  BY OthersStand DEF Accounted
<1>2. t # Free => Honest(t)
  BY DEF Accounted, CallAccounted
<1> QED BY <1>1, <1>2 DEF CallsHonest, Honest

LEMMA TraceableStep ==
  ASSUME Sound, Traceable, [GatewayNext]_gateway_vars
  PROVE  Traceable'
<1>1. GatewayInv'
  BY GatewayStep DEF Sound
<1>2. CASE ControlPlane \/ UNCHANGED gateway_vars
  <2>1. UNCHANGED <<trajectories, actions, worker>>
    BY <1>2 DEF ControlPlane, gateway_vars
  <2> QED BY <2>1 DEF Traceable, CallsHonest, Honest, ProposalsPrivate, Private, Judged, Created
<1>3. ASSUME NEW w \in Worker, NewCall(w) \/ WorkerStep(w) PROVE Traceable'
  <2>1. PICK t : Accounted(w, t)
    BY <1>3, WorkerAccounted DEF Traceable
  <2> QED BY <1>1, <2>1, PrivacyStays, HonestyStays DEF Traceable
<1> QED BY <1>2, <1>3 DEF GatewayNext

LEMMA TraceableStart == GatewayInit => Traceable
BY DEF GatewayInit, Traceable, CallsHonest, ProposalsPrivate, Judged

LEMMA SoundInvariant == GatewaySpec => [](Sound /\ Traceable)
<1>1. Sound /\ Traceable /\ [GatewayNext]_gateway_vars => Traceable'
  BY TraceableStep
<1>2. GatewayInv /\ LineageInv /\ Covered => Sound
  BY DEF Sound
<1>3. GatewaySpec => []Sound
  BY <1>2, CoveredInvariant, GatewayInvariant, GatewayUsesDelegation, LineageInvariant, PTL
<1> QED BY <1>1, <1>3, TraceableStart, PTL DEF GatewaySpec

-----------------------------------------------------------------------------
(* The executions reserved so far, over the contracts that exist.          *)
Contracts == {i \in IntentId : Exists(i)}
Executions == [i \in IntentId |-> Used(i)]

FiniteSoFar == IsFiniteSet(Recorded) /\ IsFiniteSet(Contracts)

LEMMA ReservedIsSum == Reserved = SumOf(Executions, Contracts)
BY DEF Reserved, SumOf, Executions, Contracts

LEMMA ReservedIsSumNext == Reserved' = SumOf(Executions', Contracts')
<1>1. (Reserved = SumOf(Executions, Contracts))'
  BY ReservedIsSum, PTL
<1> QED BY <1>1

LEMMA ExecutionsCounted ==
  ASSUME IntentTypeOK
  PROVE  Naturals(Executions, IntentId)
BY DEF IntentTypeOK, Naturals, Executions, Used, Exists, Contract

(* A contract is created with nothing executed.                            *)
LEMMA ReservedAfterCreate ==
  ASSUME IntentTypeOK, IsFiniteSet(Contracts), NEW i \in IntentId, NEW req \in CreateRequests,
         CreateIntent(i, req)
  PROVE  IsFiniteSet(Contracts') /\ Reserved' = Reserved
<1>1. PICK c : c = FromCreate(req)
  OBVIOUS
<1>2. c \in Contract /\ c.tool_calls_count = 0
  BY <1>1, FromCreateType, IntentServiceAssumption DEF FromCreate
<1>3. intents' = [intents EXCEPT ![i] = c] /\ i \notin Contracts
  BY <1>1 DEF CreateIntent, Contracts
<1>4. intents'[i] = c /\ \A j \in IntentId \ {i} : intents'[j] = intents[j]
  BY <1>3 DEF IntentTypeOK
<1>5. Contracts' = Contracts \cup {i}
  BY <1>2, <1>4, IntentServiceAssumption DEF Contracts, Exists
<1>6. Executions'[i] = 0 /\ \A j \in Contracts : Executions'[j] = Executions[j]
  BY <1>2, <1>3, <1>4, IntentServiceAssumption DEF Executions, Used, Exists, Contracts
<1>7. Naturals(Executions', Contracts)
  BY <1>6, ExecutionsCounted DEF Naturals, Contracts
<1>8. SumOf(Executions', Contracts \cup {i}) = 0 + SumOf(Executions', Contracts)
  BY <1>3, <1>6, <1>7, SumOfInsert
<1>9. SumOf(Executions', Contracts) = SumOf(Executions, Contracts)
  BY <1>6, SumOfEqual
<1>10. SumOf(Executions, Contracts) \in Nat
  BY ExecutionsCounted, SumOfNaturals DEF Naturals, Contracts
<1>11. Reserved' = SumOf(Executions', Contracts')
  BY ReservedIsSumNext
<1> QED BY <1>5, <1>8, <1>9, <1>10, <1>11, ReservedIsSum, FS_AddElement

LEMMA ReservedAfterReservation ==
  ASSUME IntentTypeOK, IsFiniteSet(Contracts), NEW i \in IntentId, ReserveToolExecution(i)
  PROVE  Contracts' = Contracts /\ Reserved' = Reserved + 1
<1>1. intents[i] \in Contract /\ i \in Contracts
  BY DEF ReserveToolExecution, Live, Exists, IntentTypeOK, Contracts
<1>2. PICK c : c = [intents[i] EXCEPT !.tool_calls_count = @ + 1]
  OBVIOUS
<1>3. c \in Contract /\ c.tool_calls_count = intents[i].tool_calls_count + 1
  BY <1>1, <1>2 DEF Contract
<1>4. intents'[i] = c /\ \A j \in IntentId \ {i} : intents'[j] = intents[j]
  BY <1>2 DEF ReserveToolExecution, IntentTypeOK
<1>5. Contracts' = Contracts
  BY <1>1, <1>3, <1>4, IntentServiceAssumption DEF Contracts, Exists
<1>6. /\ Executions'[i] = Executions[i] + 1
      /\ \A j \in Contracts \ {i} : Executions'[j] = Executions[j]
  BY <1>1, <1>3, <1>4, IntentServiceAssumption DEF Executions, Used, Exists, Contracts
<1>7. Naturals(Executions, Contracts)
  BY ExecutionsCounted DEF Naturals, Contracts
<1>8. SumOf(Executions', Contracts) = SumOf(Executions, Contracts) + 1
  BY <1>1, <1>6, <1>7, SumOfStep
<1>9. Reserved' = SumOf(Executions', Contracts')
  BY ReservedIsSumNext
<1> QED BY <1>5, <1>8, <1>9, ReservedIsSum

(* Reads, revocations, narrowing and time leave every count alone.         *)
CountsKept ==
  \A i \in IntentId : /\ Exists(i)' <=> Exists(i)
                      /\ Exists(i) => intents'[i].tool_calls_count = intents[i].tool_calls_count

LEMMA RewrittenContractKeepsCounts ==
  ASSUME IntentTypeOK, NEW i \in IntentId, NEW c \in Contract, Exists(i),
         intents' = [intents EXCEPT ![i] = c],
         c.tool_calls_count = intents[i].tool_calls_count
  PROVE  CountsKept
<1>1. intents'[i] = c /\ \A j \in IntentId \ {i} : intents'[j] = intents[j]
  BY DEF IntentTypeOK
<1> QED BY <1>1, IntentServiceAssumption DEF CountsKept, Exists

LEMMA ReadKeepsCounts ==
  ASSUME IntentTypeOK, NEW i \in IntentId, GetIntent(i)
  PROVE  CountsKept
<1>1. PICK c : c = Refreshed(intents[i], now)
  OBVIOUS
<1>2. intents[i] \in Contract
  BY DEF GetIntent, Exists, IntentTypeOK
<1>3. c \in Contract /\ c.tool_calls_count = intents[i].tool_calls_count
  <2>1. now \in Nat
    BY IntentServiceAssumption DEF IntentTypeOK
  <2> QED BY <1>1, <1>2, <2>1, RefreshedType DEF Refreshed, Contract
<1> QED BY <1>1, <1>3, RewrittenContractKeepsCounts DEF GetIntent

LEMMA RevokeKeepsCounts ==
  ASSUME IntentTypeOK, NEW i \in IntentId, RevokeIntent(i)
  PROVE  CountsKept
<1>1. PICK c : c = [intents[i] EXCEPT !.status = "REVOKED"]
  OBVIOUS
<1>2. intents[i] \in Contract /\ Exists(i)
  BY DEF RevokeIntent, Exists, IntentTypeOK
<1>3. c \in Contract /\ c.tool_calls_count = intents[i].tool_calls_count
  BY <1>1, <1>2 DEF Contract, IntentStatus
<1>4. intents' = [intents EXCEPT ![i] = c]
  BY <1>1 DEF RevokeIntent, IntentTypeOK
<1> QED BY <1>2, <1>3, <1>4, RewrittenContractKeepsCounts

LEMMA NarrowKeepsCounts ==
  ASSUME IntentTypeOK, NEW i \in IntentId, NEW n \in NarrowRequests, NarrowIntent(i, n)
  PROVE  CountsKept
<1>1. PICK c : c = [intents[i] EXCEPT !.scope = NarrowedScope(@, n)]
  OBVIOUS
<1>2. intents[i] \in Contract /\ Exists(i)
  BY DEF NarrowIntent, Live, Exists, IntentTypeOK
<1>3. c.tool_calls_count = intents[i].tool_calls_count
  BY <1>1, <1>2 DEF Contract
<1>4. intents' = [intents EXCEPT ![i] = c]
  BY <1>1 DEF NarrowIntent, IntentTypeOK
<1>5. NarrowedScope(intents[i].scope, n) \in Scope
  BY <1>2, NarrowedScopeType, IntentServiceAssumption DEF Contract
<1>6. c \in Contract
  BY <1>1, <1>2, <1>5 DEF Contract
<1> QED BY <1>2, <1>3, <1>4, <1>6, RewrittenContractKeepsCounts

LEMMA ReservedWhenKept ==
  ASSUME IntentTypeOK, IsFiniteSet(Contracts), CountsKept
  PROVE  Contracts' = Contracts /\ Reserved' = Reserved
<1>1. Contracts' = Contracts
  BY DEF CountsKept, Contracts
<1>2. \A j \in Contracts : Executions'[j] = Executions[j]
  BY DEF CountsKept, Contracts, Executions, Used
<1>3. Reserved' = SumOf(Executions', Contracts')
  BY ReservedIsSumNext
<1> QED BY <1>1, <1>2, <1>3, SumOfEqual, ReservedIsSum

LEMMA ReservedGrows ==
  ASSUME IntentTypeOK, IsFiniteSet(Contracts), [IntentNext]_intent_vars
  PROVE  /\ IsFiniteSet(Contracts')
         /\ Reserved \in Nat /\ Reserved' \in Nat /\ Reserved <= Reserved'
         /\ Reserved' \in {Reserved, Reserved + 1}
         /\ (\E i \in IntentId : ReserveToolExecution(i)) => Reserved' = Reserved + 1
<1>1. Reserved \in Nat
  BY ReservedIsSum, ExecutionsCounted, SumOfNaturals DEF Naturals, Contracts
<1>2. CASE \E i \in IntentId : ReserveToolExecution(i)
  BY <1>1, <1>2, ReservedAfterReservation
<1>3. CASE ~\E i \in IntentId : ReserveToolExecution(i)
  <2>1. CASE \E i \in IntentId, req \in CreateRequests : CreateIntent(i, req)
    BY <1>1, <1>3, <2>1, ReservedAfterCreate
  <2>2. ASSUME CountsKept
        PROVE  IsFiniteSet(Contracts') /\ Reserved' = Reserved
    BY <2>2, ReservedWhenKept
  <2>3. CASE \E i \in IntentId : GetIntent(i)
    BY <1>1, <1>3, <2>2, <2>3, ReadKeepsCounts
  <2>4. CASE \E s \in Session : GetIntentForSession(s)
    <3>1. \E i \in IntentId : GetIntent(i)
      BY <2>4 DEF GetIntentForSession, IntentTypeOK
    <3> QED BY <1>1, <1>3, <2>2, <3>1, ReadKeepsCounts
  <2>5. CASE \E i \in IntentId : RevokeIntent(i)
    BY <1>1, <1>3, <2>2, <2>5, RevokeKeepsCounts
  <2>6. CASE \E i \in IntentId, n \in NarrowRequests : NarrowIntent(i, n)
    BY <1>1, <1>3, <2>2, <2>6, NarrowKeepsCounts
  <2>7. CASE Tick \/ UNCHANGED intent_vars
    <3>1. CountsKept
      BY <2>7 DEF Tick, intent_vars, CountsKept, Exists
    <3> QED BY <1>1, <1>3, <2>2, <3>1
  <2> QED BY <1>3, <2>1, <2>3, <2>4, <2>5, <2>6, <2>7 DEF IntentNext
<1> QED BY <1>2, <1>3

-----------------------------------------------------------------------------
(* One payment for one more action.                                        *)
PaidFor == Cardinality(Paid) <= Reserved

LEMMA PaidGrows ==
  ASSUME Sound, NEW w \in Worker, NEW t, Accounted(w, t)
  PROVE  \/ Paid' \subseteq Paid
         \/ /\ Paid' \subseteq Paid \cup {t.action}
            /\ \E i \in IntentId : ReserveToolExecution(i)
<1>1. worker'[w] = t /\ \A v \in Worker \ {w} : worker'[v] = worker[v]
  BY OthersStand DEF Accounted
<1>2. PICK s : s = worker[w]
  OBVIOUS
<1>3. ActionsAccounted(s) /\ CallAccounted(s, t)
  BY <1>2 DEF Accounted
<1>4. \A v \in Worker : PaidCall(worker[v]) /\ worker[v].action # None
                          => worker[v].action \in Paid
  BY HeldRecorded DEF PaidCall, Paid, Sound
<1>5. ASSUME NEW b \in Paid', b \notin Paid
      PROVE  PaidCall(t) /\ b = t.action /\ ~(PaidCall(s) /\ t.action = s.action)
  <2>1. b \in Recorded' /\ b # None
    BY TrajectoryAssumption DEF Paid, Recorded
  <2>2. ~MayRun(b)'
    BY <1>2, <1>3, <1>4, <1>5, <2>1 DEF ActionsAccounted, Paid
  <2>3. PICK v \in Worker : PaidCall(worker'[v]) /\ worker'[v].action = b
    BY <2>2 DEF Paid, PaidCall
  <2>4. v = w
    BY <1>1, <1>4, <1>5, <2>1, <2>3
  <2> QED BY <1>1, <1>2, <1>4, <1>5, <2>1, <2>3, <2>4
<1>6. CASE PaidCall(t) => PaidCall(s) /\ t.action = s.action
  BY <1>5, <1>6
<1>7. CASE PaidCall(t) /\ ~(PaidCall(s) /\ t.action = s.action)
  BY <1>3, <1>5, <1>7 DEF CallAccounted
<1> QED BY <1>6, <1>7

LEMMA PaidForStep ==
  ASSUME Sound, Traceable, FiniteSoFar, PaidFor, [GatewayNext]_gateway_vars
  PROVE  FiniteSoFar' /\ PaidFor'
<1>1. [IntentNext]_intent_vars /\ IntentTypeOK
  BY GatewayStep, TableStep DEF Sound, GatewayInv, GatewayTypeOK, DelegationTypeOK
<1>2. /\ IsFiniteSet(Contracts')
      /\ Reserved \in Nat /\ Reserved' \in Nat /\ Reserved <= Reserved'
      /\ (\E i \in IntentId : ReserveToolExecution(i)) => Reserved' = Reserved + 1
  BY <1>1, ReservedGrows DEF FiniteSoFar
<1>3. IsFiniteSet(Paid) /\ Cardinality(Paid) \in Nat
  <2>1. Paid \subseteq Recorded
    BY DEF Paid
  <2> QED BY <2>1, FS_Subset, FS_CardinalityType DEF FiniteSoFar
<1>4. CASE ControlPlane \/ UNCHANGED gateway_vars
  <2>1. UNCHANGED <<actions, worker>>
    BY <1>4 DEF ControlPlane, gateway_vars
  <2>2. Recorded' = Recorded /\ Paid' = Paid
    BY <2>1 DEF Recorded, Paid, MayRun, PaidCall
  <2> QED BY <1>2, <1>3, <2>2 DEF FiniteSoFar, PaidFor
<1>5. ASSUME NEW w \in Worker, NewCall(w) \/ WorkerStep(w)
      PROVE  FiniteSoFar' /\ PaidFor'
  <2>1. PICK t : Accounted(w, t)
    BY <1>5, WorkerAccounted DEF Traceable
  <2>2. IsFiniteSet(Recorded')
    <3>1. PICK a : Recorded' \subseteq Recorded \cup {a}
      BY <2>1 DEF Accounted, ActionsAccounted
    <3> QED BY <3>1, FS_AddElement, FS_Subset DEF FiniteSoFar
  <2>3. CASE Paid' \subseteq Paid
    <3>1. IsFiniteSet(Paid') /\ Cardinality(Paid') <= Cardinality(Paid)
      BY <1>3, <2>3, FS_Subset
    <3> QED BY <1>2, <1>3, <2>2, <3>1, FS_CardinalityType DEF FiniteSoFar, PaidFor
  <2>4. CASE /\ Paid' \subseteq Paid \cup {t.action}
             /\ \E i \in IntentId : ReserveToolExecution(i)
    <3>1. /\ IsFiniteSet(Paid \cup {t.action})
          /\ Cardinality(Paid \cup {t.action}) \in {Cardinality(Paid), Cardinality(Paid) + 1}
      BY <1>3, FS_AddElement
    <3>2. IsFiniteSet(Paid') /\ Cardinality(Paid') <= Cardinality(Paid \cup {t.action})
      BY <2>4, <3>1, FS_Subset
    <3>3. Cardinality(Paid') \in Nat
      BY <3>2, FS_CardinalityType
    <3> QED BY <1>2, <1>3, <2>2, <2>4, <3>1, <3>2, <3>3 DEF FiniteSoFar, PaidFor
  <2> QED BY <2>1, <2>3, <2>4, PaidGrows
<1> QED BY <1>4, <1>5 DEF GatewayNext

LEMMA PaidForStart == GatewayInit => FiniteSoFar /\ PaidFor
<1> SUFFICES ASSUME GatewayInit PROVE FiniteSoFar /\ PaidFor
  OBVIOUS
<1>1. Recorded = {} /\ Contracts = {}
  BY DEF GatewayInit, DelegationInit, IntentInit, Recorded, Contracts, Exists
<1>2. Paid = {}
  BY <1>1 DEF Paid
<1>3. Reserved = 0
  BY <1>1, ReservedIsSum, SumOfEmpty
<1> QED BY <1>1, <1>2, <1>3, FS_EmptySet DEF FiniteSoFar, PaidFor

LEMMA PaidForInvariant == GatewaySpec => [](Sound /\ Traceable /\ FiniteSoFar /\ PaidFor)
<1>1. Sound /\ Traceable /\ FiniteSoFar /\ PaidFor /\ [GatewayNext]_gateway_vars
        => FiniteSoFar' /\ PaidFor'
  BY PaidForStep
<1> QED BY <1>1, PaidForStart, SoundInvariant, PTL DEF GatewaySpec

(* Every action that may run has an execution reserved for it, by the      *)
(* decision or by the approval, however many calls race for the last ones  *)
(* and whatever they do between the payment and the record.                *)
THEOREM QuotaCoversActionsSafe == GatewaySpec => []QuotaCoversActions
<1>1. Sound /\ FiniteSoFar /\ PaidFor => QuotaCoversActions
  <2> SUFFICES ASSUME Sound, FiniteSoFar, PaidFor PROVE QuotaCoversActions
    OBVIOUS
  <2>1. Paid \subseteq Recorded /\ {a \in Recorded : MayRun(a)} \subseteq Paid
    BY DEF Paid
  <2>2. IsFiniteSet(Paid) /\ Cardinality(Paid) \in Nat
    BY <2>1, FS_Subset, FS_CardinalityType DEF FiniteSoFar
  <2>3. /\ IsFiniteSet({a \in Recorded : MayRun(a)})
        /\ Cardinality({a \in Recorded : MayRun(a)}) <= Cardinality(Paid)
    BY <2>1, <2>2, FS_Subset
  <2>4. Cardinality({a \in Recorded : MayRun(a)}) \in Nat
    BY <2>3, FS_CardinalityType
  <2>5. Reserved \in Nat
    <3>1. Naturals(Executions, Contracts)
      BY ExecutionsCounted
      DEF Sound, GatewayInv, GatewayTypeOK, DelegationTypeOK, Naturals, Contracts
    <3> QED BY <3>1, ReservedIsSum, SumOfNaturals DEF FiniteSoFar
  <2> QED BY <2>2, <2>3, <2>4, <2>5 DEF PaidFor, QuotaCoversActions
<1> QED BY <1>1, PaidForInvariant, PTL

-----------------------------------------------------------------------------
(* Every grant of the chain pays for one more action.                      *)
ChargedFor == \A d \in Issued : Cardinality(ChargedTo(d)) <= executed[d]

Draws(a) == \/ MayRun(a)
            \/ \E w \in Worker : ChargedCall(worker[w]) /\ worker[w].action = a

LEMMA DrawnGrantIssued ==
  ASSUME Sound, CallsHonest, NEW a \in Recorded, actions[a].delegation_id # None, Draws(a)
  PROVE  actions[a].delegation_id \in Issued
<1>1. ActionCovered(a)
  BY DEF Sound, Covered, ActionsCovered
<1>2. WithinGrant(actions[a].proposal)
  <2>1. CASE MayRun(a)
    BY <1>1, <2>1 DEF ActionCovered
  <2>2. ASSUME NEW w \in Worker, ChargedCall(worker[w]), worker[w].action = a
        PROVE  WithinGrant(actions[a].proposal)
    <3>1. PICK t : t = worker[w]
      OBVIOUS
    <3>2. t # Free /\ Honest(t) /\ CallCovered(t) /\ a # None
      BY <2>2, <3>1, CallHeld, TrajectoryAssumption DEF ChargedCall, CallsHonest, Recorded
    <3>3. t.decision = "ALLOW"
      BY <2>2, <3>1, <3>2 DEF ChargedCall, Honest
    <3> QED BY <2>2, <3>1, <3>2, <3>3 DEF CallCovered
  <2> QED BY <2>1, <2>2 DEF Draws
<1> QED BY <1>1, <1>2 DEF ActionCovered, WithinGrant

(* An action that draws on a grant after a step of a call, did before or   *)
(* is charged to it by that very step.                                     *)
LEMMA DrawnBefore ==
  ASSUME Sound, Traceable, NEW w \in Worker, NEW t, Accounted(w, t),
         NEW d, NEW a \in ChargedTo(d)'
  PROVE  /\ a \in Recorded /\ actions'[a].delegation_id = actions[a].delegation_id
         /\ actions[a].delegation_id # None
         /\ \/ MayRun(a) /\ ~actions[a].approved
            \/ \E v \in Worker : ChargedCall(worker[v]) /\ worker[v].action = a
            \/ /\ worker[w] # Free /\ a = worker[w].action
               /\ ReserveActionDispatch(actions[a].delegation_id)
<1>1. worker'[w] = t /\ \A v \in Worker \ {w} : worker'[v] = worker[v]
  BY OthersStand DEF Accounted
<1>2. PICK s : s = worker[w]
  OBVIOUS
<1>3. ActionsAccounted(s) /\ CallAccounted(s, t)
  BY <1>2 DEF Accounted
<1>4. a \in Recorded' /\ a # None /\ actions'[a].delegation_id # None
  BY TrajectoryAssumption DEF ChargedTo, Recorded
<1>5. \A v \in Worker : worker[v] # Free /\ worker[v].action = a => a \in Recorded
  BY <1>4, HeldRecorded DEF Sound
<1>6. Judged(s) /\ s.action = a => Private(w, a)
  BY <1>2 DEF Traceable, ProposalsPrivate
<1>7. ASSUME a \in Recorded, ~(Judged(s) /\ s.action = a)
      PROVE  /\ actions'[a].delegation_id = actions[a].delegation_id
             /\ actions[a].delegation_id # None
  BY <1>3, <1>4, <1>7 DEF ActionsAccounted
<1>8. CASE MayRun(a)' /\ ~actions'[a].approved
  <2>1. a \in Recorded
    BY <1>3, <1>4, <1>8 DEF ActionsAccounted
  <2>2. \/ MayRun(a) /\ ~actions[a].approved
        \/ ChargedCall(s) /\ s.action = a
    BY <1>3, <1>8, <2>1 DEF ActionsAccounted
  <2>3. ~(Judged(s) /\ s.action = a)
    BY <1>6, <2>2, GatewayAssumption DEF Private, MayRun, PolicyDecision, ChargedCall, Judged
  <2> QED BY <1>2, <1>7, <2>1, <2>2, <2>3
<1>9. ASSUME NEW v \in Worker \ {w}, ChargedCall(worker'[v]), worker'[v].action = a
      PROVE  /\ a \in Recorded /\ ~(Judged(s) /\ s.action = a)
             /\ ChargedCall(worker[v]) /\ worker[v].action = a
  BY <1>1, <1>5, <1>6, <1>9 DEF ChargedCall, Private
<1>10. CASE ChargedCall(t) /\ t.action = a
  <2>1. s # Free /\ ~Judged(s) /\ s.action = a /\ a \in Recorded
    BY <1>2, <1>3, <1>5, <1>10 DEF CallAccounted
  <2>2. \/ ChargedCall(s)
        \/ actions[a].delegation_id = None
        \/ ReserveActionDispatch(actions[a].delegation_id)
    BY <1>3, <1>10, <2>1 DEF CallAccounted
  <2> QED BY <1>2, <1>7, <2>1, <2>2
<1>11. \/ MayRun(a)' /\ ~actions'[a].approved
       \/ \E v \in Worker : ChargedCall(worker'[v]) /\ worker'[v].action = a
  BY DEF ChargedTo, ChargedCall
<1> QED BY <1>1, <1>7, <1>8, <1>9, <1>10, <1>11

LEMMA ChargedGrows ==
  ASSUME Sound, Traceable, [DelegationNext]_delegation_vars,
         NEW w \in Worker, NEW t, Accounted(w, t), NEW d \in Issued'
  PROVE  \/ ChargedTo(d)' = {}
         \/ d \in Issued /\ ChargedTo(d)' \subseteq ChargedTo(d)
         \/ /\ d \in Issued /\ \E a : ChargedTo(d)' \subseteq ChargedTo(d) \cup {a}
            /\ executed'[d] = executed[d] + 1
<1>1. ASSUME NEW a \in ChargedTo(d)'
      PROVE  LET e == actions[a].delegation_id
             IN  /\ a \in Recorded /\ e # None /\ e \in Issued /\ d \in Chain(e)
                 /\ \/ MayRun(a) /\ ~actions[a].approved
                    \/ \E v \in Worker : ChargedCall(worker[v]) /\ worker[v].action = a
                    \/ a = worker[w].action /\ ReserveActionDispatch(e)
  <2>1. PICK e : e = actions[a].delegation_id
    OBVIOUS
  <2>2. /\ a \in Recorded /\ actions'[a].delegation_id = e /\ e # None
        /\ \/ MayRun(a) /\ ~actions[a].approved
           \/ \E v \in Worker : ChargedCall(worker[v]) /\ worker[v].action = a
           \/ a = worker[w].action /\ ReserveActionDispatch(e)
    BY <2>1, DrawnBefore
  <2>3. e \in Issued
    BY <2>1, <2>2, DrawnGrantIssued DEF Traceable, Draws, ReserveActionDispatch
  <2>4. d \in Chain(e)'
    BY <2>2 DEF ChargedTo
  <2>5. Chain(e)' = Chain(e)
    BY <2>3, ChainStable DEF Sound, LineageInv
  <2> QED BY <2>1, <2>2, <2>3, <2>4, <2>5
<1>2. \A a \in ChargedTo(d)' : d \in Issued
  BY <1>1, ChainClosed
<1>3. CASE ChargedTo(d)' \subseteq ChargedTo(d)
  BY <1>2, <1>3
<1>4. ASSUME NEW a \in ChargedTo(d)', a \notin ChargedTo(d)
      PROVE  a = worker[w].action /\ executed'[d] = executed[d] + 1
  <2>1. PICK e : e = actions[a].delegation_id
    OBVIOUS
  <2>2. a = worker[w].action /\ ReserveActionDispatch(e) /\ d \in Chain(e)
    BY <1>1, <1>4, <2>1 DEF ChargedTo
  <2>3. d \in DelegationId
    BY DEF Issued
  <2> QED BY <2>2, <2>3 DEF ReserveActionDispatch, Charged
<1> QED BY <1>2, <1>3, <1>4

LEMMA ChargedAside ==
  ASSUME Sound, CallsHonest, [DelegationNext]_delegation_vars, UNCHANGED <<actions, worker>>,
         NEW d \in Issued'
  PROVE  ChargedTo(d)' = {} \/ (d \in Issued /\ ChargedTo(d)' \subseteq ChargedTo(d))
<1>1. ASSUME NEW a \in ChargedTo(d)' PROVE d \in Issued /\ a \in ChargedTo(d)
  <2>1. PICK e : e = actions[a].delegation_id
    OBVIOUS
  <2>2. /\ a \in Recorded /\ e # None /\ d \in Chain(e)'
        /\ \/ MayRun(a) /\ ~actions[a].approved
           \/ \E v \in Worker : ChargedCall(worker[v]) /\ worker[v].action = a
    BY <2>1 DEF ChargedTo, Recorded, MayRun, ChargedCall
  <2>3. e \in Issued
    BY <2>1, <2>2, DrawnGrantIssued DEF Draws
  <2>4. Chain(e)' = Chain(e) /\ Chain(e) \subseteq Issued
    BY <2>3, ChainStable, ChainClosed DEF Sound, LineageInv
  <2> QED BY <2>1, <2>2, <2>4 DEF ChargedTo
<1> QED BY <1>1

LEMMA ChargedForStep ==
  ASSUME Sound, Traceable, FiniteSoFar, ChargedFor, [GatewayNext]_gateway_vars
  PROVE  ChargedFor'
<1>1. [DelegationNext]_delegation_vars /\ DelegationTypeOK
  BY GatewayStep DEF Sound, GatewayInv, GatewayTypeOK
<1> SUFFICES ASSUME NEW d \in Issued' PROVE Cardinality(ChargedTo(d)') <= executed'[d]
  BY DEF ChargedFor
<1>2. executed[d] \in Nat /\ executed'[d] \in Nat /\ executed[d] <= executed'[d]
  BY <1>1, ExecutedGrows DEF Issued
<1>3. IsFiniteSet(ChargedTo(d)) /\ Cardinality(ChargedTo(d)) \in Nat
  <2>1. ChargedTo(d) \subseteq Recorded
    BY DEF ChargedTo
  <2> QED BY <2>1, FS_Subset, FS_CardinalityType DEF FiniteSoFar
<1>4. CASE ChargedTo(d)' = {}
  BY <1>2, <1>4, FS_EmptySet
<1>5. CASE d \in Issued /\ ChargedTo(d)' \subseteq ChargedTo(d)
  <2>1. IsFiniteSet(ChargedTo(d)') /\ Cardinality(ChargedTo(d)') <= Cardinality(ChargedTo(d))
    BY <1>3, <1>5, FS_Subset
  <2> QED BY <1>2, <1>3, <1>5, <2>1, FS_CardinalityType DEF ChargedFor
<1>6. CASE /\ d \in Issued /\ \E a : ChargedTo(d)' \subseteq ChargedTo(d) \cup {a}
           /\ executed'[d] = executed[d] + 1
  <2>1. PICK a : ChargedTo(d)' \subseteq ChargedTo(d) \cup {a}
    BY <1>6
  <2>2. /\ IsFiniteSet(ChargedTo(d) \cup {a})
        /\ Cardinality(ChargedTo(d) \cup {a}) \in
             {Cardinality(ChargedTo(d)), Cardinality(ChargedTo(d)) + 1}
    BY <1>3, FS_AddElement
  <2>3. /\ IsFiniteSet(ChargedTo(d)')
        /\ Cardinality(ChargedTo(d)') <= Cardinality(ChargedTo(d) \cup {a})
    BY <2>1, <2>2, FS_Subset
  <2>4. Cardinality(ChargedTo(d)') \in Nat
    BY <2>3, FS_CardinalityType
  <2> QED BY <1>2, <1>3, <1>6, <2>2, <2>3, <2>4 DEF ChargedFor
<1>7. CASE ControlPlane \/ UNCHANGED gateway_vars
  <2>1. UNCHANGED <<actions, worker>>
    BY <1>7 DEF ControlPlane, gateway_vars
  <2> QED BY <1>1, <1>4, <1>5, <2>1, ChargedAside DEF Traceable
<1>8. ASSUME NEW w \in Worker, NewCall(w) \/ WorkerStep(w)
      PROVE  Cardinality(ChargedTo(d)') <= executed'[d]
  <2>1. PICK t : Accounted(w, t)
    BY <1>8, WorkerAccounted DEF Traceable
  <2> QED BY <1>1, <1>4, <1>5, <1>6, <2>1, ChargedGrows
<1> QED BY <1>7, <1>8 DEF GatewayNext

(* Every grant of the chain an action was decided under has a slot spent   *)
(* on it, unless a human allowed the action: under any interleaving, no    *)
(* grant is made to cover more actions than it counted                     *)
(* (reserve_action_dispatch).                                              *)
THEOREM GrantsCoverActionsSafe == GatewaySpec => []GrantsCoverActions
<1>1. GatewayInit => ChargedFor
  BY DEF GatewayInit, DelegationInit, ChargedFor, Issued
<1>2. Sound /\ Traceable /\ FiniteSoFar /\ ChargedFor /\ [GatewayNext]_gateway_vars
        => ChargedFor'
  BY ChargedForStep
<1>3. Sound /\ FiniteSoFar /\ ChargedFor => GrantsCoverActions
  <2> SUFFICES ASSUME Sound, FiniteSoFar, ChargedFor, NEW d \in Issued
               PROVE  Cardinality({a \in ActingUnder(d) : ~actions[a].approved}) <= executed[d]
    BY DEF GrantsCoverActions
  <2>1. {a \in ActingUnder(d) : ~actions[a].approved} \subseteq ChargedTo(d)
    BY DEF ActingUnder, ChargedTo
  <2>2. ChargedTo(d) \subseteq Recorded
    BY DEF ChargedTo
  <2>3. IsFiniteSet(ChargedTo(d)) /\ Cardinality(ChargedTo(d)) \in Nat
    BY <2>2, FS_Subset, FS_CardinalityType DEF FiniteSoFar
  <2>4. /\ IsFiniteSet({a \in ActingUnder(d) : ~actions[a].approved})
        /\ Cardinality({a \in ActingUnder(d) : ~actions[a].approved})
             <= Cardinality(ChargedTo(d))
    BY <2>1, <2>3, FS_Subset
  <2>5. Cardinality({a \in ActingUnder(d) : ~actions[a].approved}) \in Nat
    BY <2>4, FS_CardinalityType
  <2>6. executed[d] \in Nat
    BY DEF Sound, GatewayInv, GatewayTypeOK, DelegationTypeOK, Issued
  <2> QED BY <2>3, <2>4, <2>5, <2>6 DEF ChargedFor
<1> QED BY <1>1, <1>2, <1>3, PaidForInvariant, PTL DEF GatewaySpec
=============================================================================
