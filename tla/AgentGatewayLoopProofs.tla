------------------------ MODULE AgentGatewayLoopProofs ------------------------
(***************************************************************************)
(* Behind the event loop a call runs to its end before the next one        *)
(* starts, so what it checked in one critical section still holds when it  *)
(* acts on it in a later one: trajectories are lines, checkpoints are kept *)
(* and answered once, a quarantine contains, an approval is checked        *)
(* against what the contract says, and the gateway implements the abstract *)
(* gate.  (From threads all of this fails.)                                *)
(***************************************************************************)
EXTENDS AgentGatewayQuotaProofs

(* One call at a time: the event loop runs every call to its end, and a    *)
(* delegation call holds the lock only while none is under way.            *)
Serial ==
  /\ \A v, w \in Worker : worker[v] # Free /\ worker[w] # Free => v = w
  /\ holder # Idle => Idling

Judging == {"record_egress", "refresh", "decide", "record"}
Answering == {"read_contract", "reserve", "approve", "refuse"}

Decided == {"record", "pend", "quarantine", "charge_grant", "charge_intent", "finish"}

SuspendedBy(t) == t.step = "finish" /\ t.decision = "REQUIRE_APPROVAL"

(* The action of the call is the next of the line, or by now the last.     *)
CallLined(t) ==
  LET key == TrajectoryOf(t)
      e   == trajectories[key].evaluated
  IN  /\ t.step \in Judging => /\ t.proposal.parent_action_id = trajectories[key].last
                               /\ \A n \in DOMAIN e : e[n] # t.action
      /\ t.step = "pend" => /\ trajectories[key].last = t.action
                            /\ \E n \in DOMAIN e : e[n] = t.action

(* No call is at work on a trajectory that waits, but the one that made it *)
(* wait and the one that brings the answer.                                *)
CallSuspends(t) ==
  /\ t.step \in Evaluating \cup {"validate"} =>
       SuspendedBy(t) \/ trajectories[TrajectoryOf(t)].pending = None
  /\ SuspendedBy(t) => /\ trajectories[TrajectoryOf(t)].pending = t.action
                       /\ trajectories[TrajectoryOf(t)].last = t.action
  /\ t.step \in Evaluating => actions[t.action].policy_result = None
  /\ t.step \in Decided => t.decision # None
  /\ t.decision = "REQUIRE_APPROVAL" => ~t.exceeded /\ t.step \in {"record", "pend", "finish"}
  /\ t.step = "pend" => t.decision = "REQUIRE_APPROVAL"
  /\ t.step \in Answering => trajectories[KeyOf(t.action)].pending = t.action
  /\ t.step \in {"gate", "start", "run"} => MayRun(t.action)

(* What a call found of the quarantine still holds.                        *)
CallContained(t) ==
  /\ t.step \in {"validate", "record_egress", "refresh", "decide"} /\ ~t.halted =>
       TrajectoryOf(t) \notin stopped
  /\ t.decision = "ALLOW" => TrajectoryOf(t) \notin stopped
  /\ t.step \in {"read_contract", "reserve", "approve"} => KeyOf(t.action) \notin stopped

(* What an approval found of the contract still holds.                     *)
ApprovedStill(a) ==
  LET op == actions[a].proposal.operation
      i  == session_to_intent[actions[a].proposal.session_id]
      c  == intents[i]
  IN  /\ i # None /\ c.status = "ACTIVE"
      /\ op.tool \in c.scope.allowed_tools \ c.scope.denied_tools
      /\ UnlessEmpty(c.scope.allowed_resources, op.resource)
      /\ Allows(trajectories[KeyOf(a)].effective_authority, op)
CallRevalidated(t) == t.step \in {"reserve", "approve"} => ApprovedStill(t.action)

InLoop(t) == CallLined(t) /\ CallSuspends(t) /\ CallContained(t) /\ CallRevalidated(t)
CallsInLoop == \A w \in Worker : worker[w] # Free => InLoop(worker[w])

(* Of the actions and trajectories on record.                              *)
Line(key) ==
  LET e == trajectories[key].evaluated
  IN  /\ \A n \in DOMAIN e : e[n] \in Recorded
      /\ trajectories[key].last = IF e = <<>> THEN None ELSE e[Len(e)]
      /\ \A n \in DOMAIN e : actions[e[n]].proposal.parent_action_id =
                                IF n = 1 THEN None ELSE e[n - 1]

StatusFits(r) ==
  /\ r.execution_status = "PENDING_APPROVAL" <=> r.policy_result = "REQUIRE_APPROVAL"
  /\ r.execution_status = "PROPOSED" <=> r.policy_result = None

Remembered(a) ==
  actions[a].execution_status = "PENDING_APPROVAL" =>
    Placed(a) /\ trajectories[KeyOf(a)].pending = a

Checkpointed(key) ==
  LET a == trajectories[key].pending
  IN  a # None =>
        /\ a \in Recorded /\ KeyOf(a) = key /\ a = trajectories[key].last
        /\ \/ actions[a].execution_status = "PENDING_APPROVAL"
           \/ \E w \in Worker : /\ worker[w] # Free /\ SuspendedBy(worker[w])
                                /\ worker[w].action = a

Lines == \A key \in Created : Line(key)
Statuses == \A a \in Recorded : StatusFits(actions[a])
Checkpoints == /\ \A a \in Recorded : Remembered(a)
               /\ \A key \in Created : Checkpointed(key)

LoopInv == Serial /\ CallsInLoop /\ Lines /\ Statuses /\ Checkpoints

(* A call finds itself alone, and moves to t.                              *)
Alone(w) == \A v \in Worker \ {w} : worker[v] = Free

Moves(w, t) ==
  /\ worker' = [worker EXCEPT ![w] = t] /\ holder' = holder
  /\ t # Free => InLoop(t)'
  /\ Lines' /\ Statuses' /\ Checkpoints'

-----------------------------------------------------------------------------
(* A step that leaves lines and checkpoints as they are: it may open a     *)
(* trajectory, record an action, or run one that is allowed.               *)
LinesStill ==
  \A key \in Created' :
    IF key \in Created
      THEN /\ trajectories'[key].evaluated = trajectories[key].evaluated
           /\ trajectories'[key].last = trajectories[key].last
           /\ trajectories'[key].pending = trajectories[key].pending
           /\ trajectories'[key].effective_authority = trajectories[key].effective_authority
      ELSE /\ trajectories'[key].evaluated = <<>>
           /\ trajectories'[key].last = None /\ trajectories'[key].pending = None

StatusesStill ==
  /\ \A a \in Recorded :
       /\ actions'[a].policy_result = actions[a].policy_result
       /\ \/ actions'[a].execution_status = actions[a].execution_status
          \/ MayRun(a) /\ actions'[a].execution_status \notin {"PROPOSED", "PENDING_APPROVAL"}
  /\ \A a \in Recorded' \ Recorded :
       StatusFits(actions'[a]) /\ actions'[a].execution_status # "PENDING_APPROVAL"

LEMMA LinesStay ==
  ASSUME Lines, HistoryKept, LinesStill
  PROVE  Lines'
<1> SUFFICES ASSUME NEW key \in Created' PROVE Line(key)'
  BY DEF Lines
<1>1. CASE key \in Created
  <2>1. PICK e : e = trajectories[key].evaluated
    OBVIOUS
  <2>2. /\ trajectories'[key].evaluated = e /\ trajectories'[key].last = trajectories[key].last
    BY <1>1, <2>1 DEF LinesStill
  <2>3. \A n \in DOMAIN e : e[n] \in Recorded /\ e[n] \in Recorded'
                            /\ actions'[e[n]].proposal = actions[e[n]].proposal
    BY <1>1, <2>1 DEF Lines, Line, HistoryKept
  <2> QED BY <1>1, <2>1, <2>2, <2>3 DEF Lines, Line
<1>2. CASE key \notin Created
  BY <1>2 DEF LinesStill, Line
<1> QED BY <1>1, <1>2

LEMMA StatusesStay ==
  ASSUME Statuses, StatusesStill
  PROVE  Statuses'
<1> SUFFICES ASSUME NEW a \in Recorded' PROVE StatusFits(actions'[a])
  BY DEF Statuses, StatusFits
<1>1. CASE a \in Recorded
  BY <1>1, GatewayAssumption DEF Statuses, StatusFits, StatusesStill, MayRun, PolicyDecision
<1>2. CASE a \notin Recorded
  BY <1>2 DEF StatusesStill
<1> QED BY <1>1, <1>2

LEMMA PendingStays ==
  ASSUME LoopInv, HistoryKept, LinesStill, StatusesStill,
         NEW w \in Worker, Alone(w), worker[w] # Free => ~SuspendedBy(worker[w])
  PROVE  Checkpoints'
<1>1. ASSUME NEW a \in Recorded', actions'[a].execution_status = "PENDING_APPROVAL"
      PROVE  Placed(a)' /\ trajectories'[KeyOf(a)'].pending = a
  <2>1. a \in Recorded /\ actions[a].execution_status = "PENDING_APPROVAL"
    BY <1>1 DEF StatusesStill
  <2>2. Placed(a) /\ trajectories[KeyOf(a)].pending = a
    BY <2>1 DEF LoopInv, Checkpoints, Remembered
  <2>3. Placed(a)' /\ KeyOf(a)' = KeyOf(a)
    BY <2>2, PlacedStays
  <2> QED BY <2>2, <2>3 DEF LinesStill, Placed
<1>2. ASSUME NEW key \in Created', NEW a, a = trajectories'[key].pending, a # None
      PROVE  /\ a \in Recorded' /\ KeyOf(a)' = key /\ a = trajectories'[key].last
             /\ actions'[a].execution_status = "PENDING_APPROVAL"
  <2>1. key \in Created /\ a = trajectories[key].pending
    BY <1>2 DEF LinesStill
  <2>2. /\ a \in Recorded /\ KeyOf(a) = key /\ a = trajectories[key].last
        /\ actions[a].execution_status = "PENDING_APPROVAL"
    BY <1>2, <2>1 DEF LoopInv, Checkpoints, Checkpointed, Alone
  <2>3. a \in Recorded' /\ KeyOf(a)' = key /\ a = trajectories'[key].last
    BY <1>2, <2>1, <2>2 DEF HistoryKept, KeyOf, LinesStill
  <2>4. ~MayRun(a)
    BY <2>2 DEF LoopInv, Statuses, StatusFits, MayRun
  <2> QED BY <2>2, <2>3, <2>4 DEF StatusesStill
<1> QED BY <1>1, <1>2 DEF Checkpoints, Remembered, Checkpointed

LEMMA StillInLoop ==
  ASSUME LoopInv, HistoryKept, LinesStill, StatusesStill,
         NEW w \in Worker, Alone(w), worker[w] # Free => ~SuspendedBy(worker[w]),
         NEW t, worker' = [worker EXCEPT ![w] = t], holder' = holder,
         t # Free => InLoop(t)'
  PROVE  Moves(w, t)
BY LinesStay, StatusesStay, PendingStays DEF LoopInv, Moves

(* Such a step leaves what a call relies on as it was.                     *)
AuthorityKept ==
  /\ UNCHANGED session_to_intent
  /\ \A i \in IntentId : /\ intents'[i].status = intents[i].status
                         /\ intents'[i].scope = intents[i].scope

LEMMA InLoopStays ==
  ASSUME Sound, HistoryKept, LinesStill, StatusesStill,
         NEW s \in Task, Grounded(s), Honest(s), InLoop(s),
         UNCHANGED stopped \/ s.step = "quarantine",
         s.step \in {"reserve", "approve"} => AuthorityKept
  PROVE  InLoop(s)'
<1>1. s.step \in Evaluating \cup {"validate"} => TrajectoryOf(s) \in Created
  BY DEF Grounded, Evaluating, Placed
<1>2. s.step \in Evaluating \cup Answering \cup {"gate", "start", "run"} =>
        /\ s.action \in Recorded /\ Placed(s.action)
        /\ KeyOf(s.action) \in Created /\ KeyOf(s.action)' = KeyOf(s.action)
        /\ actions'[s.action].proposal = actions[s.action].proposal
  <2> SUFFICES ASSUME s.step \in Evaluating \cup Answering \cup {"gate", "start", "run"}
               PROVE  /\ s.action \in Recorded /\ Placed(s.action)
                      /\ KeyOf(s.action) \in Created /\ KeyOf(s.action)' = KeyOf(s.action)
                      /\ actions'[s.action].proposal = actions[s.action].proposal
    OBVIOUS
  <2>1. Placed(s.action)
    BY DEF Grounded, Evaluating, Answering
  <2> QED BY <2>1, PlacedStays DEF Placed, HistoryKept
<1>3. Created \subseteq Created'
  BY DEF HistoryKept
<1>4. CallLined(s)'
  BY <1>1, <1>3 DEF InLoop, CallLined, LinesStill, Judging, Evaluating, TrajectoryOf
<1>5. CallSuspends(s)'
  <2>1. s.step \in Evaluating \cup {"validate"} =>
          /\ trajectories'[TrajectoryOf(s)].pending = trajectories[TrajectoryOf(s)].pending
          /\ trajectories'[TrajectoryOf(s)].last = trajectories[TrajectoryOf(s)].last
    BY <1>1, <1>3 DEF LinesStill
  <2>2. s.step \in Answering =>
          trajectories'[KeyOf(s.action)].pending = trajectories[KeyOf(s.action)].pending
    BY <1>2, <1>3 DEF LinesStill
  <2>3. s.step \in Evaluating \cup {"gate", "start", "run"} =>
          actions'[s.action].policy_result = actions[s.action].policy_result
    BY <1>2 DEF StatusesStill
  <2>4. SuspendedBy(s) => s.step \in Evaluating
    BY DEF SuspendedBy, Evaluating
  <2> QED BY <1>2, <2>1, <2>2, <2>3, <2>4
          DEF InLoop, CallSuspends, SuspendedBy, TrajectoryOf, MayRun
<1>6. CallContained(s)'
  <2>1. s.step = "quarantine" => s.decision # "ALLOW"
    BY DEF Honest
  <2> QED BY <1>2, <2>1 DEF InLoop, CallContained, TrajectoryOf, Answering
<1>7. CallRevalidated(s)'
  <2> SUFFICES ASSUME s.step \in {"reserve", "approve"} PROVE ApprovedStill(s.action)'
    BY DEF CallRevalidated
  <2>1. ApprovedStill(s.action)
    BY DEF InLoop, CallRevalidated
  <2>2. trajectories'[KeyOf(s.action)].effective_authority
          = trajectories[KeyOf(s.action)].effective_authority
    BY <1>2, <1>3 DEF LinesStill, Answering
  <2>3. session_to_intent[actions[s.action].proposal.session_id] \in IntentId
    <3>1. actions[s.action].proposal.session_id \in Session
      BY <1>2, PlacedTypes DEF Sound, ActionProposal, Answering
    <3> QED BY <2>1, <3>1
            DEF ApprovedStill, Sound, GatewayInv, GatewayTypeOK, DelegationTypeOK, IntentTypeOK
  <2> QED BY <1>2, <2>1, <2>2, <2>3 DEF ApprovedStill, Answering, Allows, AuthorityKept
<1> QED BY <1>4, <1>5, <1>6, <1>7 DEF InLoop

-----------------------------------------------------------------------------
LEMMA LinesUntouched ==
  ASSUME UNCHANGED trajectories
  PROVE  LinesStill
BY DEF LinesStill, Created

LEMMA LinesReplaced ==
  ASSUME Sound, NEW key \in Key, NEW t, Replace(key, t),
         IF key \in Created
           THEN /\ t.evaluated = trajectories[key].evaluated /\ t.last = trajectories[key].last
                /\ t.pending = trajectories[key].pending
                /\ t.effective_authority = trajectories[key].effective_authority
           ELSE t.evaluated = <<>> /\ t.last = None /\ t.pending = None
  PROVE  LinesStill
<1>1. trajectories \in [Key -> Trajectory \cup {NoTrajectory}]
  BY DEF Sound, GatewayInv, GatewayTypeOK, TrajectoryTypeOK
<1>2. trajectories'[key] = t /\ \A k \in Key \ {key} : trajectories'[k] = trajectories[k]
  BY <1>1 DEF Replace
<1>3. \A k \in Created' : k = key \/ (k \in Created /\ trajectories'[k] = trajectories[k])
  BY <1>2 DEF Created
<1> QED BY <1>2, <1>3 DEF LinesStill

LEMMA StatusesUntouched ==
  ASSUME UNCHANGED actions
  PROVE  StatusesStill
BY DEF StatusesStill, Recorded

LEMMA StatusesRewritten ==
  ASSUME Sound, NEW a \in ActionId, NEW r, Rewritten(a, r),
         IF a \in Recorded
           THEN /\ r.policy_result = actions[a].policy_result
                /\ \/ r.execution_status = actions[a].execution_status
                   \/ /\ MayRun(a)
                      /\ r.execution_status \notin {"PROPOSED", "PENDING_APPROVAL"}
           ELSE StatusFits(r) /\ r.execution_status # "PENDING_APPROVAL"
  PROVE  StatusesStill
<1>1. /\ Recorded' = Recorded \cup {a} /\ actions'[a] = r
      /\ \A b \in ActionId \ {a} : actions'[b] = actions[b]
  BY RewrittenKeeps DEF Sound
<1>2. \A b \in Recorded : b # a => actions'[b] = actions[b]
  BY <1>1 DEF Recorded
<1> QED BY <1>1, <1>2 DEF StatusesStill

(* A call returns, or goes on to a step that relies on nothing new.        *)
LEMMA ReturnsInLoop ==
  ASSUME LoopInv, HistoryKept, LinesStill, StatusesStill,
         NEW w \in Worker, Alone(w), worker[w] # Free => ~SuspendedBy(worker[w]),
         holder' = holder, Return(w)
  PROVE  \E t : Moves(w, t)
<1>1. PICK t : t = Free
  OBVIOUS
<1> QED BY <1>1, StillInLoop DEF Return

NextSteps ==
  {<<"record_egress", "refresh">>, <<"quarantine", "finish">>,
   <<"charge_grant", "charge_intent">>, <<"charge_intent", "finish">>,
   <<"reserve", "approve">>, <<"reserve", "refuse">>,
   <<"gate", "start">>, <<"start", "run">>}

LEMMA MovesOn ==
  ASSUME Sound, CallsHonest, LoopInv, HistoryKept, LinesStill, StatusesStill,
         NEW w \in Worker, Alone(w), worker[w] # Free, holder' = holder,
         NEW x, <<worker[w].step, x>> \in NextSteps, GoTo(w, x),
         UNCHANGED stopped \/ worker[w].step = "quarantine",
         worker[w].step \in {"reserve", "approve"} => AuthorityKept
  PROVE  \E t : Moves(w, t)
<1>1. PICK s : s = worker[w]
  OBVIOUS
<1>2. s \in Task /\ Grounded(s) /\ Honest(s) /\ InLoop(s) /\ <<s.step, x>> \in NextSteps
  BY <1>1, CallHeld DEF CallsHonest, LoopInv, CallsInLoop
<1>3. InLoop(s)'
  BY <1>1, <1>2, InLoopStays
<1>4. PICK t : t = [s EXCEPT !.step = x]
  OBVIOUS
<1>5. /\ t.step = x /\ t.action = s.action /\ t.proposal = s.proposal /\ t.intent = s.intent
      /\ t.decision = s.decision /\ t.exceeded = s.exceeded /\ t.halted = s.halted
      /\ worker' = [worker EXCEPT ![w] = t]
  BY <1>1, <1>2, <1>4 DEF Task, GoTo
<1>6. s.decision # "REQUIRE_APPROVAL" /\ ~SuspendedBy(s) /\ ~SuspendedBy(t)
  BY <1>2, <1>5 DEF InLoop, CallSuspends, NextSteps, SuspendedBy
<1>7. CallLined(t)'
  BY <1>2, <1>3, <1>5 DEF InLoop, CallLined, NextSteps, Judging, TrajectoryOf
<1>8. CallSuspends(t)'
  <2>1. x = "charge_intent" => s.step \in Decided
    BY <1>2 DEF NextSteps, Decided
  <2>2. TrajectoryOf(t) = TrajectoryOf(s)
    BY <1>5 DEF TrajectoryOf
  <2> QED BY <1>2, <1>3, <1>5, <1>6, <2>2
          DEF InLoop, CallSuspends, NextSteps, SuspendedBy, Evaluating, Answering, Decided,
              TrajectoryOf, MayRun
<1>9. CallContained(t)'
  BY <1>2, <1>3, <1>5 DEF InLoop, CallContained, NextSteps, TrajectoryOf
<1>10. CallRevalidated(t)'
  BY <1>2, <1>3, <1>5 DEF InLoop, CallRevalidated, NextSteps, ApprovedStill, Allows
<1>11. InLoop(t)'
  BY <1>7, <1>8, <1>9, <1>10 DEF InLoop
<1> QED BY <1>1, <1>5, <1>6, <1>11, StillInLoop

-----------------------------------------------------------------------------
(* One lemma for each step of a call: those that leave lines and           *)
(* checkpoints as they are.                                                *)
LEMMA BeginEvaluateInLoop ==
  ASSUME LoopInv, HistoryKept, NEW w \in Worker, Alone(w),
         NEW p \in ActionProposals, BeginEvaluate(w, p)
  PROVE  \E t : Moves(w, t)
<1>1. PICK t : t = [step |-> "open", proposal |-> p, action |-> None,
                    intent |-> session_to_intent[p.session_id],
                    seen |-> intents'[session_to_intent[p.session_id]],
                    exceeded |-> FALSE, halted |-> FALSE, decision |-> None]
  OBVIOUS
<1>2. /\ worker' = [worker EXCEPT ![w] = t] /\ UNCHANGED <<trajectories, actions, holder>>
      /\ worker[w] = Free
  BY <1>1 DEF BeginEvaluate, MayStart
<1>3. t.decision = None /\ t.step = "open"
  BY <1>1
<1>4. InLoop(t)'
  BY <1>3, GatewayAssumption
  DEF InLoop, CallLined, CallSuspends, CallContained, CallRevalidated, SuspendedBy, Judging,
      Evaluating, Answering, Decided, PolicyDecision
<1> QED BY <1>2, <1>4, LinesUntouched, StatusesUntouched, StillInLoop

LEMMA EvaluateUngovernedInLoop ==
  ASSUME Sound, LoopInv, HistoryKept, NEW w \in Worker, Alone(w),
         NEW p \in ActionProposals, EvaluateUngoverned(w, p)
  PROVE  \E t : Moves(w, t)
<1>1. PICK a \in ActionId \ Recorded :
        actions' = [actions EXCEPT ![a] = NewAction(p, None, "DENY", "DENIED")]
  BY DEF EvaluateUngoverned
<1>2. PICK r : r = NewAction(p, None, "DENY", "DENIED")
  OBVIOUS
<1>3. /\ r \in AgentAction /\ r.policy_result = "DENY" /\ r.execution_status = "DENIED"
  BY <1>2, GatewayAssumption DEF NewAction, AgentAction, PolicyDecision, ToolExecutionStatus
<1>4. StatusFits(r)
  BY <1>3, GatewayAssumption DEF StatusFits, PolicyDecision
<1>5. Rewritten(a, r)
  BY <1>1, <1>2, <1>3 DEF Rewritten
<1>6. StatusesStill
  BY <1>3, <1>4, <1>5, StatusesRewritten
<1>7. PICK t : t = worker[w]
  OBVIOUS
<1>8. t = Free /\ worker' = [worker EXCEPT ![w] = t] /\ UNCHANGED <<trajectories, holder>>
  BY <1>7 DEF EvaluateUngoverned, MayStart, delegation_vars, Sound, GatewayInv, GatewayTypeOK
<1> QED BY <1>6, <1>7, <1>8, LinesUntouched, StillInLoop

LEMMA ObservedHalted ==
  ASSUME NEW t \in Task, NEW x, NEW trajectory
  PROVE  /\ ~Observed(t, x, trajectory).halted => TrajectoryOf(t) \notin stopped
         /\ Observed(t, x, trajectory).decision = t.decision
BY DEF Observed, Task

LEMMA OpenTrajectoryInLoop ==
  ASSUME Sound, CallsHonest, LoopInv, HistoryKept, NEW w \in Worker, Alone(w), OpenTrajectory(w)
  PROVE  \E t : Moves(w, t)
<1>1. PICK s : s = worker[w]
  OBVIOUS
<1>2. PICK key : key = TrajectoryOf(s)
  OBVIOUS
<1>3. PICK current : current = GetOrCreate(key, s.seen)
  OBVIOUS
<1>4. /\ s \in Task /\ s # Free /\ s.step = "open" /\ Honest(s) /\ Grounded(s) /\ key \in Key
  BY <1>1, <1>2, Held DEF OpenTrajectory, At, Sound, CallsHonest
<1>5. s.decision = None /\ ~SuspendedBy(s)
  BY <1>4 DEF Honest, Undecided, SuspendedBy
<1>6. current \in Trajectory
  BY <1>3, <1>4, GetOrCreateType DEF Grounded, Sound
<1>7. Replace(key, current) /\ UNCHANGED <<actions, holder, stopped>>
  BY <1>1, <1>2, <1>3 DEF OpenTrajectory, delegation_vars
<1>8. LinesStill /\ StatusesStill
  <2>1. CASE key \in Created
    BY <1>3, <1>4, <1>7, <2>1, LinesReplaced, StatusesUntouched DEF GetOrCreate, Created
  <2>2. CASE key \notin Created
    <3>1. current.evaluated = <<>> /\ current.last = None /\ current.pending = None
      BY <1>3, <1>4, <2>2 DEF GetOrCreate, Created, NewTrajectory
    <3> QED BY <1>4, <1>7, <2>2, <3>1, LinesReplaced, StatusesUntouched
  <2> QED BY <2>1, <2>2
<1>9. CASE Waiting(current)
  <2>1. Return(w)
    BY <1>1, <1>2, <1>3, <1>9 DEF OpenTrajectory
  <2> QED BY <1>1, <1>5, <1>7, <1>8, <2>1, ReturnsInLoop
<1>10. CASE ~Waiting(current)
  <2>1. PICK t : t = Observed(s, "validate", current)
    OBVIOUS
  <2>2. worker' = [worker EXCEPT ![w] = t]
    BY <1>1, <1>2, <1>3, <1>10, <2>1 DEF OpenTrajectory
  <2>3. /\ t.step = "validate" /\ TrajectoryOf(t) = key /\ t.decision = None
        /\ ~t.halted => key \notin stopped
    BY <1>2, <1>4, <1>5, <2>1, ObservedType, ObservedHalted DEF TrajectoryOf
  <2>4. trajectories'[key].pending = None
    BY <1>4, <1>7, <1>10 DEF Replace, Waiting, Sound, GatewayInv, GatewayTypeOK, TrajectoryTypeOK
  <2>5. InLoop(t)'
    BY <1>7, <2>3, <2>4, GatewayAssumption
    DEF InLoop, CallLined, CallSuspends, CallContained, CallRevalidated, SuspendedBy, Judging,
        Evaluating, Answering, Decided, PolicyDecision, TrajectoryOf
  <2> QED BY <1>1, <1>5, <1>7, <1>8, <2>2, <2>5, StillInLoop
<1> QED BY <1>9, <1>10

LEMMA ValidateInLoop ==
  ASSUME Sound, CallsHonest, LoopInv, HistoryKept, NEW w \in Worker, Alone(w), Validate(w)
  PROVE  \E t : Moves(w, t)
<1>1. PICK s : s = worker[w]
  OBVIOUS
<1>2. PICK key : key = TrajectoryOf(s)
  OBVIOUS
<1>3. /\ s \in Task /\ s # Free /\ s.step = "validate" /\ Honest(s) /\ key \in Created
      /\ InLoop(s)
  BY <1>1, <1>2, CallHeld DEF Validate, At, CallsHonest, Grounded, LoopInv, CallsInLoop
<1>4. s.decision = None /\ ~SuspendedBy(s)
  BY <1>3 DEF Honest, Undecided, SuspendedBy
<1>5. UNCHANGED <<trajectories, holder, stopped>>
  BY DEF Validate, delegation_vars
<1>6. CASE Return(w) /\ UNCHANGED actions
  BY <1>1, <1>4, <1>5, <1>6, LinesUntouched, StatusesUntouched, ReturnsInLoop
<1>7. ASSUME NEW a \in ActionId \ Recorded,
             IsContinuation(key, trajectories[key], s.proposal.parent_action_id),
             actions' = [actions EXCEPT ![a] = NewAction(s.proposal, s.intent, None, "PROPOSED")],
             worker' = [worker EXCEPT
               ![w].action = a,
               ![w].step = IF s.proposal.sensitive_egress THEN "record_egress" ELSE "decide"]
      PROVE  \E t : Moves(w, t)
  <2>1. PICK r : r = NewAction(s.proposal, s.intent, None, "PROPOSED")
    OBVIOUS
  <2>2. /\ r \in AgentAction /\ r.policy_result = None /\ r.execution_status = "PROPOSED"
    BY <1>3, <2>1, GatewayAssumption, IntentServiceAssumption
    DEF NewAction, AgentAction, PolicyDecision, ToolExecutionStatus, Task
  <2>3. StatusFits(r)
    BY <2>2, GatewayAssumption DEF StatusFits, PolicyDecision
  <2>4. Rewritten(a, r)
    BY <1>7, <2>1, <2>2 DEF Rewritten
  <2>5. StatusesStill
    BY <2>2, <2>3, <2>4, StatusesRewritten
  <2>6. actions'[a] = r
    BY <2>4, RewrittenKeeps DEF Sound
  <2>7. PICK x \in {"record_egress", "decide"} :
          x = IF s.proposal.sensitive_egress THEN "record_egress" ELSE "decide"
    OBVIOUS
  <2>8. PICK t : t = [s EXCEPT !.action = a, !.step = x]
    OBVIOUS
  <2>9. /\ t.step = x /\ t.action = a /\ t.proposal = s.proposal /\ t.decision = None
        /\ TrajectoryOf(t) = key
    BY <1>2, <1>3, <1>4, <2>8 DEF Task, TrajectoryOf
  <2>10. worker' = [worker EXCEPT ![w] = t]
    BY <1>1, <1>3, <1>7, <2>7, <2>8 DEF Sound, GatewayInv, GatewayTypeOK
  <2>11. PICK e : e = trajectories[key].evaluated
    OBVIOUS
  <2>12. \A n \in DOMAIN e : e[n] # a
    BY <1>3, <1>7, <2>11 DEF LoopInv, Lines, Line
  <2>13. CallLined(t)'
    BY <1>5, <1>7, <2>7, <2>9, <2>11, <2>12
    DEF CallLined, Judging, IsContinuation, TrajectoryOf
  <2>14. CallSuspends(t)'
    BY <1>2, <1>3, <1>5, <2>2, <2>6, <2>7, <2>9, GatewayAssumption
    DEF InLoop, CallSuspends, SuspendedBy, Evaluating, Answering, Decided, PolicyDecision,
        TrajectoryOf
  <2>15. CallContained(t)' /\ CallRevalidated(t)'
    BY <1>5, <1>7, <2>7, <2>9, GatewayAssumption
    DEF CallContained, CallRevalidated, IsContinuation, PolicyDecision, TrajectoryOf
  <2>16. InLoop(t)'
    BY <2>13, <2>14, <2>15 DEF InLoop
  <2> QED BY <1>1, <1>4, <1>5, <2>5, <2>10, <2>16, LinesUntouched, StillInLoop
<1> QED BY <1>1, <1>2, <1>6, <1>7 DEF Validate

LEMMA CountEgressInLoop ==
  ASSUME Sound, CallsHonest, LoopInv, HistoryKept, NEW w \in Worker, Alone(w), CountEgress(w)
  PROVE  \E t : Moves(w, t)
<1>1. PICK s : s = worker[w]
  OBVIOUS
<1>2. PICK key : key = TrajectoryOf(s)
  OBVIOUS
<1>3. /\ worker[w] # Free /\ s.step = "record_egress" /\ GoTo(w, "refresh")
      /\ key \in Created /\ key \in Key /\ trajectories[key] \in Trajectory
      /\ UNCHANGED <<actions, holder, stopped>>
  BY <1>1, <1>2, Working
  DEF CountEgress, At, Evaluating, Sound, Placed, Created, delegation_vars
<1>4. PICK t : t = [trajectories[key] EXCEPT !.egress = @ \cup {s.action}]
  OBVIOUS
<1>5. /\ Replace(key, t) /\ t.evaluated = trajectories[key].evaluated
      /\ t.last = trajectories[key].last /\ t.pending = trajectories[key].pending
      /\ t.effective_authority = trajectories[key].effective_authority
  BY <1>1, <1>2, <1>3, <1>4 DEF CountEgress, RecordEgress, Trajectory
<1>6. LinesStill /\ StatusesStill
  BY <1>3, <1>5, LinesReplaced, StatusesUntouched
<1> QED BY <1>1, <1>3, <1>6, MovesOn DEF NextSteps

LEMMA RefreshInLoop ==
  ASSUME Sound, CallsHonest, LoopInv, HistoryKept, NEW w \in Worker, Alone(w), Refresh(w)
  PROVE  \E t : Moves(w, t)
<1>1. PICK s : s = worker[w]
  OBVIOUS
<1>2. PICK key : key = TrajectoryOf(s)
  OBVIOUS
<1>3. /\ s \in Task /\ s # Free /\ s.step = "refresh" /\ Honest(s) /\ Grounded(s) /\ InLoop(s)
      /\ UNCHANGED <<trajectories, actions, holder, stopped>>
  BY <1>1, CallHeld DEF Refresh, At, CallsHonest, LoopInv, CallsInLoop, delegation_vars
<1>4. s.decision = None /\ ~SuspendedBy(s)
  BY <1>3 DEF Honest, Undecided, SuspendedBy
<1>5. LinesStill /\ StatusesStill
  BY <1>3, LinesUntouched, StatusesUntouched
<1>6. InLoop(s)'
  BY <1>3, <1>5, InLoopStays
<1>7. PICK t : t = Observed(s, "decide", trajectories[key])
  OBVIOUS
<1>8. worker' = [worker EXCEPT ![w] = t]
  BY <1>1, <1>2, <1>3, <1>7 DEF Refresh, Sound, GatewayInv, GatewayTypeOK
<1>9. /\ t.step = "decide" /\ t.action = s.action /\ t.proposal = s.proposal
      /\ t.intent = s.intent /\ t.decision = None
      /\ ~t.halted => key \notin stopped
  BY <1>2, <1>3, <1>4, <1>7, ObservedType, ObservedHalted
<1>10. CallLined(t)'
  BY <1>3, <1>6, <1>9 DEF InLoop, CallLined, Judging, TrajectoryOf
<1>11. CallSuspends(t)'
  BY <1>3, <1>4, <1>6, <1>9, GatewayAssumption
  DEF InLoop, CallSuspends, SuspendedBy, Evaluating, Answering, Decided, PolicyDecision,
      TrajectoryOf
<1>12. CallContained(t)' /\ CallRevalidated(t)'
  BY <1>2, <1>3, <1>9, GatewayAssumption
  DEF CallContained, CallRevalidated, PolicyDecision, TrajectoryOf
<1>13. InLoop(t)'
  BY <1>10, <1>11, <1>12 DEF InLoop
<1> QED BY <1>1, <1>3, <1>4, <1>5, <1>8, <1>13, StillInLoop

(* An action that is allowed or suspended was not seen quarantined, and    *)
(* one that is suspended does not exceed the egress limit.                 *)
LEMMA VerdictContained ==
  ASSUME NEW t, t.exceeded \in BOOLEAN, t.halted \in BOOLEAN
  PROVE  /\ Verdict(t) = "ALLOW" => ~t.halted
         /\ Verdict(t) = "REQUIRE_APPROVAL" => ~t.exceeded
BY DEF Verdict, Authorized, Contained, Exceeds

LEMMA DecideInLoop ==
  ASSUME Sound, CallsHonest, LoopInv, HistoryKept, NEW w \in Worker, Alone(w), Decide(w)
  PROVE  \E t : Moves(w, t)
<1>1. PICK s : s = worker[w]
  OBVIOUS
<1>2. PICK a : a = s.action
  OBVIOUS
<1>3. /\ s \in Task /\ s # Free /\ s.step = "decide" /\ Honest(s) /\ Grounded(s) /\ InLoop(s)
      /\ a \in ActionId /\ a \in Recorded /\ actions[a] \in AgentAction
      /\ UNCHANGED <<trajectories, holder, stopped>>
  BY <1>1, <1>2, CallHeld, CallAction
  DEF Decide, At, CallsHonest, LoopInv, CallsInLoop, delegation_vars
<1>4. s.decision = None /\ ~SuspendedBy(s) /\ s.exceeded \in BOOLEAN /\ s.halted \in BOOLEAN
  BY <1>3 DEF Honest, Undecided, SuspendedBy, Task
<1>5. PICK d : d = IF ResolvedGrant(s) THEN s.proposal.delegation_id ELSE None
  OBVIOUS
<1>6. d \in DelegationId \cup {None}
  BY <1>5 DEF ResolvedGrant, Issued
<1>7. PICK r : r = [actions[a] EXCEPT !.delegation_id = d]
  OBVIOUS
<1>8. /\ r \in AgentAction /\ r.proposal = actions[a].proposal
      /\ r.trajectory_intent = actions[a].trajectory_intent
      /\ r.policy_result = actions[a].policy_result
      /\ r.execution_status = actions[a].execution_status
  BY <1>3, <1>6, <1>7 DEF AgentAction
<1>9. Rewritten(a, r)
  BY <1>1, <1>2, <1>5, <1>7, <1>8 DEF Decide, Rewritten
<1>10. LinesStill /\ StatusesStill
  BY <1>3, <1>8, <1>9, LinesUntouched, StatusesRewritten
<1>11. InLoop(s)'
  BY <1>3, <1>10, InLoopStays
<1>12. PICK v : v = Verdict(s)
  OBVIOUS
<1>13. /\ v = "ALLOW" => ~s.halted
       /\ v = "REQUIRE_APPROVAL" => ~s.exceeded
       /\ v \in PolicyDecision
  BY <1>4, <1>12, VerdictContained, VerdictType
<1>14. PICK t : t = [s EXCEPT !.step = "record", !.decision = v]
  OBVIOUS
<1>15. /\ t.step = "record" /\ t.decision = v /\ t.action = a /\ t.proposal = s.proposal
       /\ t.intent = s.intent /\ t.exceeded = s.exceeded
       /\ worker' = [worker EXCEPT ![w] = t]
  BY <1>1, <1>2, <1>3, <1>12, <1>14 DEF Decide, Task, Sound, GatewayInv, GatewayTypeOK
<1>16. CallLined(t)'
  BY <1>2, <1>3, <1>11, <1>15 DEF InLoop, CallLined, Judging, TrajectoryOf
<1>17. CallSuspends(t)'
  <2>1. /\ trajectories'[TrajectoryOf(s)'].pending = None
        /\ actions'[a].policy_result = None
    BY <1>2, <1>3, <1>11 DEF InLoop, CallSuspends, SuspendedBy, Evaluating
  <2> QED BY <1>3, <1>13, <1>15, <2>1, GatewayAssumption
          DEF CallSuspends, SuspendedBy, Evaluating, Answering, Decided, TrajectoryOf
<1>18. CallContained(t)'
  BY <1>3, <1>11, <1>13, <1>15 DEF InLoop, CallContained, TrajectoryOf
<1>19. InLoop(t)'
  BY <1>15, <1>16, <1>17, <1>18 DEF InLoop, CallRevalidated
<1> QED BY <1>1, <1>3, <1>4, <1>10, <1>15, <1>19, StillInLoop

LEMMA QuarantineInLoop ==
  ASSUME Sound, CallsHonest, LoopInv, HistoryKept, NEW w \in Worker, Alone(w), Quarantine(w)
  PROVE  \E t : Moves(w, t)
<1>1. /\ worker[w] # Free /\ worker[w].step = "quarantine" /\ GoTo(w, "finish")
      /\ UNCHANGED <<trajectories, actions, holder>>
  BY DEF Quarantine, At, StopTrajectory
<1> QED BY <1>1, LinesUntouched, StatusesUntouched, MovesOn DEF NextSteps

LEMMA DeniesLateInLoop ==
  ASSUME Sound, CallsHonest, LoopInv, HistoryKept, NEW w \in Worker, Alone(w), worker[w] # Free,
         worker[w].step \in {"charge_grant", "charge_intent"}, DenyLate(w),
         UNCHANGED <<trajectories, actions, holder, stopped>>
  PROVE  \E t : Moves(w, t)
<1>1. PICK s : s = worker[w]
  OBVIOUS
<1>2. /\ s \in Task /\ Honest(s) /\ Grounded(s) /\ InLoop(s)
      /\ s.step \in {"charge_grant", "charge_intent"}
  BY <1>1, CallHeld DEF CallsHonest, LoopInv, CallsInLoop
<1>3. s.decision = "ALLOW" /\ ~SuspendedBy(s)
  BY <1>2 DEF Honest, SuspendedBy
<1>4. LinesStill /\ StatusesStill
  BY LinesUntouched, StatusesUntouched
<1>5. InLoop(s)'
  BY <1>2, <1>4, InLoopStays
<1>6. PICK t : t = [s EXCEPT !.step = "finish", !.decision = "DENY"]
  OBVIOUS
<1>7. /\ t.step = "finish" /\ t.decision = "DENY" /\ t.action = s.action
      /\ t.proposal = s.proposal /\ t.intent = s.intent
  BY <1>2, <1>6 DEF Task
<1>8. worker' = [worker EXCEPT ![w] = t]
  BY <1>1, <1>6 DEF DenyLate, Sound, GatewayInv, GatewayTypeOK
<1>9. CallSuspends(t)'
  BY <1>2, <1>3, <1>5, <1>7, GatewayAssumption
  DEF InLoop, CallSuspends, SuspendedBy, Evaluating, Answering, Decided, PolicyDecision,
      TrajectoryOf
<1>10. CallLined(t)' /\ CallContained(t)' /\ CallRevalidated(t)'
  BY <1>7 DEF CallLined, Judging, CallContained, CallRevalidated
<1> QED BY <1>1, <1>3, <1>4, <1>8, <1>9, <1>10, StillInLoop DEF InLoop

LEMMA ReservationInLoop ==
  ASSUME Sound, CallsHonest, LoopInv, HistoryKept, NEW w \in Worker, Alone(w),
         ChargeGrant(w) \/ ChargeIntent(w)
  PROVE  \E t : Moves(w, t)
<1>1. /\ worker[w] # Free /\ worker[w].step \in {"charge_grant", "charge_intent"}
      /\ UNCHANGED <<trajectories, actions, holder, stopped>>
  BY DEF ChargeGrant, ChargeIntent, At, ReserveActionDispatch, delegation_vars
<1>2. LinesStill /\ StatusesStill
  BY <1>1, LinesUntouched, StatusesUntouched
<1>3. CASE worker[w].step = "charge_grant" /\ GoTo(w, "charge_intent")
  BY <1>1, <1>2, <1>3, MovesOn DEF NextSteps
<1>4. CASE worker[w].step = "charge_intent" /\ GoTo(w, "finish")
  BY <1>1, <1>2, <1>4, MovesOn DEF NextSteps
<1>5. CASE DenyLate(w)
  BY <1>1, <1>5, DeniesLateInLoop
<1> QED BY <1>3, <1>4, <1>5 DEF ChargeGrant, ChargeIntent, At

LEMMA OpenCheckpointInLoop ==
  ASSUME LoopInv, HistoryKept, NEW w \in Worker, Alone(w),
         NEW a \in ActionId, NEW approved \in BOOLEAN, OpenCheckpoint(w, a, approved)
  PROVE  \E t : Moves(w, t)
<1>1. PICK x : x = IF approved /\ KeyOf(a) \notin stopped THEN "read_contract" ELSE "refuse"
  OBVIOUS
<1>2. PICK t : t = [step |-> x, proposal |-> actions[a].proposal, action |-> a,
                    intent |-> actions[a].trajectory_intent, seen |-> NoContract,
                    exceeded |-> FALSE, halted |-> FALSE, decision |-> None]
  OBVIOUS
<1>3. /\ worker' = [worker EXCEPT ![w] = t]
      /\ UNCHANGED <<trajectories, actions, holder, stopped>>
      /\ worker[w] = Free /\ trajectories[KeyOf(a)].pending = a
  BY <1>1, <1>2 DEF OpenCheckpoint, MayStart, delegation_vars
<1>4. /\ t.step \in {"read_contract", "refuse"} /\ t.decision = None /\ t.action = a
      /\ t.step = "read_contract" => KeyOf(a) \notin stopped
  BY <1>1, <1>2
<1>5. KeyOf(a)' = KeyOf(a)
  BY <1>3 DEF KeyOf
<1>6. InLoop(t)'
  BY <1>3, <1>4, <1>5, GatewayAssumption
  DEF InLoop, CallLined, CallSuspends, CallContained, CallRevalidated, SuspendedBy, Judging,
      Evaluating, Answering, Decided, PolicyDecision
<1> QED BY <1>3, <1>6, LinesUntouched, StatusesUntouched, StillInLoop

LEMMA BeginExecuteInLoop ==
  ASSUME LoopInv, HistoryKept, NEW w \in Worker, Alone(w),
         NEW a \in ActionId, BeginExecute(w, a)
  PROVE  \E t : Moves(w, t)
<1>1. PICK t : t = [step |-> "start", proposal |-> actions[a].proposal, action |-> a,
                    intent |-> actions[a].trajectory_intent, seen |-> NoContract,
                    exceeded |-> FALSE, halted |-> FALSE, decision |-> None]
  OBVIOUS
<1>2. /\ worker' = [worker EXCEPT ![w] = t] /\ UNCHANGED <<trajectories, actions, holder>>
      /\ worker[w] = Free /\ MayRun(a)
  BY <1>1 DEF BeginExecute, MayStart, delegation_vars
<1>3. t.step = "start" /\ t.decision = None /\ t.action = a
  BY <1>1
<1>4. InLoop(t)'
  BY <1>2, <1>3, GatewayAssumption
  DEF InLoop, CallLined, CallSuspends, CallContained, CallRevalidated, SuspendedBy, Judging,
      Evaluating, Answering, Decided, PolicyDecision, MayRun
<1> QED BY <1>2, <1>4, LinesUntouched, StatusesUntouched, StillInLoop

LEMMA ReadContractInLoop ==
  ASSUME Sound, CallsHonest, LoopInv, HistoryKept, NEW w \in Worker, Alone(w), ReadContract(w)
  PROVE  \E t : Moves(w, t)
<1>1. PICK s : s = worker[w]
  OBVIOUS
<1>2. PICK a : a = s.action
  OBVIOUS
<1>3. /\ s \in Task /\ s # Free /\ s.step = "read_contract" /\ Honest(s) /\ Grounded(s)
      /\ InLoop(s) /\ s.proposal = actions[a].proposal
      /\ UNCHANGED <<trajectories, actions, holder, stopped>>
  BY <1>1, <1>2, CallHeld, CallAction DEF ReadContract, At, CallsHonest, LoopInv, CallsInLoop
<1>4. s.decision = None /\ ~SuspendedBy(s)
  BY <1>3 DEF Honest, Undecided, SuspendedBy
<1>5. LinesStill /\ StatusesStill
  BY <1>3, LinesUntouched, StatusesUntouched
<1>6. InLoop(s)'
  BY <1>3, <1>5, InLoopStays
<1>7. PICK i, c, op : /\ i = session_to_intent[s.proposal.session_id]
                      /\ c = intents'[session_to_intent[s.proposal.session_id]]
                      /\ op = s.proposal.operation
  OBVIOUS
<1>8. PICK x \in {"reserve", "refuse"} :
        /\ worker' = [worker EXCEPT ![w].intent = i, ![w].seen = c, ![w].step = x]
        /\ x = "reserve" => /\ StillAllows(c, op)
                            /\ Allows(trajectories[KeyOf(a)].effective_authority, op)
  BY <1>1, <1>2, <1>7 DEF ReadContract
<1>9. i # None /\ UNCHANGED session_to_intent
  BY <1>1, <1>7 DEF ReadContract, GetIntentForSession, GetIntent
<1>10. PICK t : t = [s EXCEPT !.intent = i, !.seen = c, !.step = x]
  OBVIOUS
<1>11. /\ t.step = x /\ t.action = a /\ t.decision = None
       /\ worker' = [worker EXCEPT ![w] = t]
  BY <1>1, <1>2, <1>3, <1>4, <1>8, <1>10 DEF Task, Sound, GatewayInv, GatewayTypeOK
<1>12. CallSuspends(t)'
  BY <1>2, <1>3, <1>6, <1>11, GatewayAssumption
  DEF InLoop, CallSuspends, SuspendedBy, Evaluating, Answering, Decided, PolicyDecision
<1>13. CallLined(t)' /\ CallContained(t)'
  BY <1>2, <1>3, <1>6, <1>11, GatewayAssumption
  DEF InLoop, CallLined, CallContained, Judging, PolicyDecision
<1>14. CallRevalidated(t)'
  <2> SUFFICES ASSUME x = "reserve" PROVE ApprovedStill(a)'
    BY <1>11 DEF CallRevalidated, ApprovedStill, Allows
  <2>1. /\ c.status = "ACTIVE" /\ op.tool \in c.scope.allowed_tools \ c.scope.denied_tools
        /\ UnlessEmpty(c.scope.allowed_resources, op.resource)
        /\ Allows(trajectories[KeyOf(a)].effective_authority, op)
    BY <1>8 DEF StillAllows, IsActive
  <2>2. /\ op = actions'[a].proposal.operation /\ KeyOf(a)' = KeyOf(a)
        /\ i = session_to_intent'[actions'[a].proposal.session_id]
        /\ c = intents'[i]
    BY <1>3, <1>7, <1>9 DEF KeyOf
  <2> QED BY <1>3, <1>9, <2>1, <2>2 DEF ApprovedStill, Allows, UnlessEmpty
<1>15. InLoop(t)'
  BY <1>12, <1>13, <1>14 DEF InLoop
<1> QED BY <1>1, <1>3, <1>4, <1>5, <1>11, <1>15, StillInLoop

LEMMA ReservationKeepsAuthority ==
  ASSUME IntentTypeOK, NEW i \in IntentId, ReserveToolExecution(i)
  PROVE  AuthorityKept
<1>1. intents[i] \in Contract
  BY DEF ReserveToolExecution, Live, Exists, IntentTypeOK
<1>2. PICK c : c = [intents[i] EXCEPT !.tool_calls_count = @ + 1]
  OBVIOUS
<1>3. c.status = intents[i].status /\ c.scope = intents[i].scope
  BY <1>1, <1>2 DEF Contract
<1>4. intents' = [intents EXCEPT ![i] = c]
  BY <1>2 DEF ReserveToolExecution
<1> QED BY <1>3, <1>4 DEF AuthorityKept, ReserveToolExecution, IntentTypeOK

LEMMA ReserveForApprovalInLoop ==
  ASSUME Sound, CallsHonest, LoopInv, HistoryKept, NEW w \in Worker, Alone(w),
         ReserveForApproval(w)
  PROVE  \E t : Moves(w, t)
<1>1. /\ worker[w] # Free /\ worker[w].step = "reserve" /\ worker[w].intent \in IntentId
      /\ UNCHANGED <<trajectories, actions, holder, stopped>>
  BY Held DEF ReserveForApproval, At, Sound
<1>2. LinesStill /\ StatusesStill
  BY <1>1, LinesUntouched, StatusesUntouched
<1>3. CASE ReserveToolExecution(worker[w].intent) /\ GoTo(w, "approve")
  <2>1. AuthorityKept
    BY <1>1, <1>3, ReservationKeepsAuthority
    DEF Sound, GatewayInv, GatewayTypeOK, DelegationTypeOK
  <2> QED BY <1>1, <1>2, <1>3, <2>1, MovesOn DEF NextSteps
<1>4. CASE GoTo(w, "refuse") /\ UNCHANGED intent_vars
  <2>1. AuthorityKept
    BY <1>4 DEF AuthorityKept, intent_vars
  <2> QED BY <1>1, <1>2, <1>4, <2>1, MovesOn DEF NextSteps
<1> QED BY <1>3, <1>4 DEF ReserveForApproval

LEMMA GateInLoop ==
  ASSUME Sound, CallsHonest, LoopInv, HistoryKept, NEW w \in Worker, Alone(w), Gate(w)
  PROVE  \E t : Moves(w, t)
<1>1. /\ worker[w] # Free /\ worker[w].step = "gate"
      /\ UNCHANGED <<trajectories, actions, holder, stopped>>
  BY DEF Gate, At, delegation_vars
<1>2. LinesStill /\ StatusesStill
  BY <1>1, LinesUntouched, StatusesUntouched
<1>3. CASE GoTo(w, "start")
  BY <1>1, <1>2, <1>3, MovesOn DEF NextSteps
<1>4. CASE Return(w)
  BY <1>1, <1>2, <1>4, ReturnsInLoop DEF SuspendedBy
<1> QED BY <1>3, <1>4 DEF Gate

LEMMA RestartStatuses ==
  ASSUME Sound, NEW a \in ActionId, a \in Recorded, MayRun(a),
         NEW x \in {"EXECUTING", "COMPLETED", "FAILED"}, SetExecutionStatus(a, x)
  PROVE  StatusesStill
<1>1. PICK old : old = actions[a]
  OBVIOUS
<1>2. old \in AgentAction
  BY <1>1 DEF Sound, GatewayInv, GatewayTypeOK, Recorded
<1>3. PICK r : r = [old EXCEPT !.execution_status = x]
  OBVIOUS
<1>4. /\ r \in AgentAction /\ r.proposal = old.proposal /\ r.policy_result = old.policy_result
      /\ r.trajectory_intent = old.trajectory_intent /\ r.execution_status = x
  BY <1>2, <1>3 DEF AgentAction, ToolExecutionStatus
<1>5. Rewritten(a, r)
  BY <1>1, <1>3, <1>4 DEF Rewritten, SetExecutionStatus
<1> QED BY <1>1, <1>4, <1>5, StatusesRewritten

LEMMA RunningMayRun ==
  ASSUME Sound, LoopInv, NEW w \in Worker, worker[w] # Free, worker[w].step \in {"start", "run"}
  PROVE  /\ worker[w].action \in ActionId /\ worker[w].action \in Recorded
         /\ MayRun(worker[w].action) /\ Placed(worker[w].action)
BY CallAction, CallHeld DEF LoopInv, CallsInLoop, InLoop, CallSuspends, Grounded

LEMMA StartInLoop ==
  ASSUME Sound, CallsHonest, LoopInv, HistoryKept, NEW w \in Worker, Alone(w), Start(w)
  PROVE  \E t : Moves(w, t)
<1>1. /\ worker[w] # Free /\ worker[w].step = "start" /\ GoTo(w, "run")
      /\ UNCHANGED <<trajectories, holder, stopped>>
  BY DEF Start, At, delegation_vars
<1>2. StatusesStill
  BY <1>1, RunningMayRun, RestartStatuses DEF Start
<1> QED BY <1>1, <1>2, LinesUntouched, MovesOn DEF NextSteps

LEMMA RunToolInLoop ==
  ASSUME Sound, CallsHonest, LoopInv, HistoryKept, NEW w \in Worker, Alone(w), RunTool(w)
  PROVE  \E t : Moves(w, t)
<1>1. PICK a : a = worker[w].action
  OBVIOUS
<1>2. PICK key : key = KeyOf(a)
  OBVIOUS
<1>3. /\ worker[w] # Free /\ worker[w].step = "run" /\ holder' = holder
      /\ a \in ActionId /\ a \in Recorded /\ MayRun(a)
      /\ key \in Created /\ key \in Key /\ trajectories[key] \in Trajectory
  BY <1>1, <1>2, RunningMayRun, PlacedTypes DEF RunTool, At, delegation_vars, Placed, Sound
<1>4. StatusesStill
  BY <1>1, <1>3, RestartStatuses DEF RunTool
<1>5. LinesStill
  <2>1. CASE RecordExecution(key, a)
    <3>1. PICK t : t = [trajectories[key] EXCEPT !.executed = @ \cup {a}]
      OBVIOUS
    <3>2. /\ Replace(key, t) /\ t.evaluated = trajectories[key].evaluated
          /\ t.last = trajectories[key].last /\ t.pending = trajectories[key].pending
          /\ t.effective_authority = trajectories[key].effective_authority
      BY <1>3, <2>1, <3>1 DEF RecordExecution, Trajectory
    <3> QED BY <1>3, <3>2, LinesReplaced
  <2> QED BY <1>1, <1>2, <2>1, LinesUntouched DEF RunTool
<1> QED BY <1>3, <1>4, <1>5, ReturnsInLoop DEF RunTool, SuspendedBy

-----------------------------------------------------------------------------
(* The steps that extend a line, set a checkpoint or answer it.            *)
LEMMA OtherTrajectories ==
  ASSUME Sound, NEW key \in Created, NEW t \in Trajectory, Replace(key, t)
  PROVE  /\ Created' = Created /\ trajectories'[key] = t
         /\ \A k \in Created \ {key} : trajectories'[k] = trajectories[k]
BY TrajectoryAssumption
   DEF Sound, GatewayInv, GatewayTypeOK, TrajectoryTypeOK, Replace, Created

(* With no call between the checkpoint and the record of its action, every *)
(* checkpoint is of an action recorded as waiting.                         *)
LEMMA NoneSuspended ==
  ASSUME LoopInv, NEW w \in Worker, Alone(w), worker[w] # Free => ~SuspendedBy(worker[w]),
         NEW key \in Created, trajectories[key].pending # None
  PROVE  LET a == trajectories[key].pending
         IN  /\ a \in Recorded /\ KeyOf(a) = key /\ a = trajectories[key].last
             /\ actions[a].execution_status = "PENDING_APPROVAL"
BY DEF LoopInv, Checkpoints, Checkpointed, Alone

LEMMA AppendedLine ==
  ASSUME NEW e \in Seq(ActionId), NEW a \in ActionId, NEW f,
         f[a] = IF e = <<>> THEN None ELSE e[Len(e)],
         \A n \in DOMAIN e : f[e[n]] = IF n = 1 THEN None ELSE e[n - 1]
  PROVE  LET g == Append(e, a)
         IN  /\ g # <<>> /\ g[Len(g)] = a
             /\ \A n \in DOMAIN g : g[n] = a \/ \E m \in DOMAIN e : g[n] = e[m]
             /\ \A n \in DOMAIN g : f[g[n]] = IF n = 1 THEN None ELSE g[n - 1]
             /\ \E n \in DOMAIN g : g[n] = a
<1>0. Append(e, a) \in Seq(ActionId)
  OBVIOUS
<1>1. PICK g \in Seq(ActionId) : g = Append(e, a)
  BY <1>0
<1>2. /\ Len(g) = Len(e) + 1 /\ g[Len(g)] = a /\ g # <<>>
      /\ DOMAIN g = 1 .. Len(g) /\ DOMAIN e = 1 .. Len(e)
      /\ \A n \in 1 .. Len(e) : g[n] = e[n]
      /\ Len(e) \in Nat /\ (e = <<>> <=> Len(e) = 0)
  BY <1>1
<1>3. ASSUME NEW n \in DOMAIN g PROVE f[g[n]] = IF n = 1 THEN None ELSE g[n - 1]
  <2>1. CASE n \in 1 .. Len(e)
    <3>1. g[n] = e[n] /\ (n # 1 => g[n - 1] = e[n - 1])
      BY <1>2, <2>1
    <3> QED BY <1>2, <2>1, <3>1
  <2>2. CASE n = Len(e) + 1
    <3>1. g[n] = a /\ (n # 1 => g[n - 1] = e[Len(e)])
      BY <1>2, <2>2
    <3> QED BY <1>2, <2>2, <3>1
  <2> QED BY <1>2, <2>1, <2>2
<1> QED BY <1>1, <1>2, <1>3

LEMMA RecordInLoop ==
  ASSUME Sound, CallsHonest, LoopInv, HistoryKept, NEW w \in Worker, Alone(w), Record(w)
  PROVE  \E t : Moves(w, t)
<1>1. PICK s : s = worker[w]
  OBVIOUS
<1>2. PICK a : a = s.action
  OBVIOUS
<1>3. PICK key : key = TrajectoryOf(s)
  OBVIOUS
<1>4. PICK old : old = trajectories[key]
  OBVIOUS
<1>5. /\ s \in Task /\ worker[w] # Free /\ s.step = "record" /\ Honest(s) /\ InLoop(s)
      /\ key \in Created /\ key = KeyOf(a) /\ old \in Trajectory
      /\ a \in ActionId /\ a \in Recorded /\ s.proposal = actions[a].proposal
      /\ UNCHANGED <<actions, holder, stopped>>
  BY <1>1, <1>2, <1>3, <1>4, Working, CallHeld, CallAction
  DEF Record, At, Evaluating, Sound, Placed, CallsHonest, LoopInv, CallsInLoop, delegation_vars
<1>6. PICK e \in Seq(ActionId) : e = old.evaluated
  BY <1>5 DEF Trajectory
<1>7. /\ s.proposal.parent_action_id = old.last /\ \A n \in DOMAIN e : e[n] # a
      /\ old.pending = None /\ actions[a].policy_result = None
      /\ ~SuspendedBy(s) /\ s.decision # None
      /\ s.decision = "REQUIRE_APPROVAL" => ~s.exceeded
      /\ s.decision = "ALLOW" => key \notin stopped
  BY <1>2, <1>3, <1>4, <1>5, <1>6
  DEF InLoop, CallLined, CallSuspends, CallContained, Judging, Evaluating, Decided, SuspendedBy
<1>8. PICK g \in Seq(ActionId) : g = Append(e, a)
  <2>1. Append(e, a) \in Seq(ActionId)
    BY <1>5, <1>6
  <2> QED BY <2>1
<1>9. g = Evaluated(old, a)
  BY <1>6, <1>7, <1>8 DEF Evaluated
<1>10. PICK t : t = [old EXCEPT !.evaluated = g, !.last = a]
  OBVIOUS
<1>11. /\ t \in Trajectory /\ t.evaluated = g /\ t.last = a /\ t.pending = None
  BY <1>5, <1>7, <1>10 DEF Trajectory
<1>12. Replace(key, t)
  BY <1>1, <1>2, <1>3, <1>4, <1>9, <1>10 DEF Record, RecordEvaluation
<1>13. /\ Created' = Created /\ trajectories'[key] = t /\ Recorded' = Recorded
       /\ \A k \in Created \ {key} : trajectories'[k] = trajectories[k]
  BY <1>5, <1>11, <1>12, OtherTrajectories DEF Recorded
<1>14. PICK f : f = [b \in ActionId |-> actions[b].proposal.parent_action_id]
  OBVIOUS
<1>15. Line(key)
  BY <1>5 DEF LoopInv, Lines
<1>16. /\ \A n \in DOMAIN e : e[n] \in Recorded /\ e[n] \in ActionId
       /\ f[a] = IF e = <<>> THEN None ELSE e[Len(e)]
       /\ \A n \in DOMAIN e : f[e[n]] = IF n = 1 THEN None ELSE e[n - 1]
  BY <1>4, <1>5, <1>6, <1>7, <1>14, <1>15 DEF Line, Recorded
<1>17. /\ g # <<>> /\ g[Len(g)] = a
       /\ \A n \in DOMAIN g : g[n] \in Recorded
       /\ \A n \in DOMAIN g : f[g[n]] = IF n = 1 THEN None ELSE g[n - 1]
       /\ \E n \in DOMAIN g : g[n] = a
  BY <1>5, <1>8, <1>16, AppendedLine
<1>18. Lines'
  <2> SUFFICES ASSUME NEW k \in Created' PROVE Line(k)'
    BY DEF Lines
  <2>1. CASE k = key
    <3>1. \A n \in DOMAIN g : actions[g[n]].proposal.parent_action_id = f[g[n]]
      BY <1>14, <1>17 DEF Recorded
    <3> QED BY <1>5, <1>11, <1>13, <1>17, <2>1, <3>1 DEF Line
  <2>2. CASE k # key
    <3>1. Line(k) /\ trajectories'[k] = trajectories[k]
      BY <1>13, <2>2 DEF LoopInv, Lines
    <3> QED BY <1>5, <1>13, <3>1 DEF Line
  <2> QED BY <2>1, <2>2
<1>19. Statuses'
  BY <1>5, <1>13 DEF LoopInv, Statuses, StatusFits
<1>20. Checkpoints'
  <2>1. ASSUME NEW b \in Recorded', actions'[b].execution_status = "PENDING_APPROVAL"
        PROVE  Placed(b)' /\ trajectories'[KeyOf(b)'].pending = b
    <3>1. b \in Recorded /\ Placed(b) /\ trajectories[KeyOf(b)].pending = b
      BY <1>5, <1>13, <2>1 DEF LoopInv, Checkpoints, Remembered
    <3>2. Placed(b)' /\ KeyOf(b)' = KeyOf(b) /\ KeyOf(b) \in Created
      BY <3>1, PlacedStays DEF Placed
    <3>3. KeyOf(b) # key
      BY <1>4, <1>7, <3>1, TrajectoryAssumption DEF Recorded
    <3> QED BY <1>13, <3>1, <3>2, <3>3
  <2>2. ASSUME NEW k \in Created', NEW b, b = trajectories'[k].pending, b # None
        PROVE  /\ b \in Recorded' /\ KeyOf(b)' = k /\ b = trajectories'[k].last
               /\ actions'[b].execution_status = "PENDING_APPROVAL"
    <3>1. k \in Created /\ k # key /\ trajectories'[k] = trajectories[k]
      BY <1>11, <1>13, <2>2
    <3>2. /\ b \in Recorded /\ KeyOf(b) = k /\ b = trajectories[k].last
          /\ actions[b].execution_status = "PENDING_APPROVAL"
      BY <1>1, <1>7, <2>2, <3>1, NoneSuspended
    <3> QED BY <1>5, <1>13, <3>1, <3>2 DEF KeyOf
  <2> QED BY <2>1, <2>2 DEF Checkpoints, Remembered, Checkpointed
<1>21. PICK x : x = AfterRecord(s)
  OBVIOUS
<1>22. /\ x \in {"quarantine", "pend", "charge_grant", "charge_intent", "finish"}
       /\ x = "pend" <=> s.decision = "REQUIRE_APPROVAL"
  BY <1>7, <1>21 DEF AfterRecord, AfterRecordByDecision, Exceeds
<1>23. PICK u : u = [s EXCEPT !.step = x]
  OBVIOUS
<1>24. /\ u.step = x /\ u.action = a /\ u.decision = s.decision /\ u.exceeded = s.exceeded
       /\ u.proposal = s.proposal /\ TrajectoryOf(u) = key
       /\ worker' = [worker EXCEPT ![w] = u]
  BY <1>1, <1>2, <1>3, <1>5, <1>21, <1>23 DEF Task, TrajectoryOf, Record, GoTo
<1>25. CallLined(u)'
  BY <1>11, <1>13, <1>17, <1>22, <1>24 DEF CallLined, Judging, TrajectoryOf
<1>26. CallSuspends(u)'
  BY <1>5, <1>7, <1>11, <1>13, <1>22, <1>24
  DEF CallSuspends, SuspendedBy, Evaluating, Answering, TrajectoryOf
<1>27. CallContained(u)' /\ CallRevalidated(u)'
  BY <1>5, <1>7, <1>22, <1>24 DEF CallContained, CallRevalidated, TrajectoryOf
<1> QED BY <1>5, <1>18, <1>19, <1>20, <1>24, <1>25, <1>26, <1>27 DEF Moves, InLoop

LEMMA SetCheckpointInLoop ==
  ASSUME Sound, CallsHonest, LoopInv, HistoryKept, NEW w \in Worker, Alone(w), SetCheckpoint(w)
  PROVE  \E t : Moves(w, t)
<1>1. PICK s : s = worker[w]
  OBVIOUS
<1>2. PICK a : a = s.action
  OBVIOUS
<1>3. PICK key : key = TrajectoryOf(s)
  OBVIOUS
<1>4. PICK old : old = trajectories[key]
  OBVIOUS
<1>5. /\ s \in Task /\ worker[w] # Free /\ s.step = "pend" /\ Honest(s) /\ InLoop(s)
      /\ key \in Created /\ key = KeyOf(a) /\ old \in Trajectory
      /\ a \in ActionId /\ a \in Recorded /\ s.proposal = actions[a].proposal
      /\ UNCHANGED <<actions, holder, stopped>>
  BY <1>1, <1>2, <1>3, <1>4, Working, CallHeld, CallAction
  DEF SetCheckpoint, At, Evaluating, Sound, Placed, CallsHonest, LoopInv, CallsInLoop,
      delegation_vars
<1>6. /\ old.last = a /\ \E n \in DOMAIN old.evaluated : old.evaluated[n] = a
      /\ old.pending = None /\ actions[a].policy_result = None
      /\ ~SuspendedBy(s) /\ s.decision = "REQUIRE_APPROVAL" /\ ~s.exceeded
  BY <1>2, <1>3, <1>4, <1>5
  DEF InLoop, CallLined, CallSuspends, Evaluating, SuspendedBy
<1>7. Evaluated(old, a) = old.evaluated
  BY <1>6 DEF Evaluated
<1>8. MayPend(key, a)
  BY <1>4, <1>6 DEF MayPend
<1>9. SetPending(key, a) /\ GoTo(w, "finish")
  BY <1>1, <1>2, <1>3, <1>8 DEF SetCheckpoint
<1>10. PICK t : t = [old EXCEPT !.evaluated = Evaluated(old, a), !.last = a, !.pending = a]
  OBVIOUS
<1>11. t \in Trajectory
  BY <1>5, <1>10, RecordedTrajectory
<1>12. t.evaluated = old.evaluated /\ t.last = a /\ t.pending = a
  BY <1>5, <1>7, <1>10 DEF Trajectory
<1>13. Replace(key, t)
  BY <1>4, <1>9, <1>10 DEF SetPending
<1>14. /\ Created' = Created /\ trajectories'[key] = t /\ Recorded' = Recorded
       /\ \A k \in Created \ {key} : trajectories'[k] = trajectories[k]
  BY <1>5, <1>11, <1>13, OtherTrajectories DEF Recorded
<1>15. Lines'
  <2> SUFFICES ASSUME NEW k \in Created' PROVE Line(k)'
    BY DEF Lines
  <2>1. k \in Created /\ Line(k)
    BY <1>14 DEF LoopInv, Lines
  <2>2. /\ trajectories'[k].evaluated = trajectories[k].evaluated
        /\ trajectories'[k].last = trajectories[k].last
    BY <1>4, <1>6, <1>12, <1>14, <2>1
  <2> QED BY <1>5, <1>14, <2>1, <2>2 DEF Line
<1>16. Statuses'
  BY <1>5, <1>14 DEF LoopInv, Statuses, StatusFits
<1>17. PICK u : u = [s EXCEPT !.step = "finish"]
  OBVIOUS
<1>18. /\ u \in Task /\ u # Free
       /\ u.step = "finish" /\ u.action = a /\ u.decision = s.decision /\ u.exceeded = s.exceeded
       /\ u.proposal = s.proposal /\ TrajectoryOf(u) = key
       /\ worker' = [worker EXCEPT ![w] = u] /\ worker'[w] = u
  BY <1>1, <1>2, <1>3, <1>5, <1>9, <1>17, GatewayAssumption
  DEF Task, TrajectoryOf, GoTo, Sound, GatewayInv, GatewayTypeOK
<1>19. SuspendedBy(u)
  BY <1>6, <1>18 DEF SuspendedBy
<1>20. Checkpoints'
  <2>1. ASSUME NEW b \in Recorded', actions'[b].execution_status = "PENDING_APPROVAL"
        PROVE  Placed(b)' /\ trajectories'[KeyOf(b)'].pending = b
    <3>1. b \in Recorded /\ Placed(b) /\ trajectories[KeyOf(b)].pending = b
      BY <1>5, <1>14, <2>1 DEF LoopInv, Checkpoints, Remembered
    <3>2. Placed(b)' /\ KeyOf(b)' = KeyOf(b) /\ KeyOf(b) \in Created
      BY <3>1, PlacedStays DEF Placed
    <3>3. KeyOf(b) # key
      BY <1>4, <1>6, <3>1, TrajectoryAssumption DEF Recorded
    <3> QED BY <1>14, <3>1, <3>2, <3>3
  <2>2. ASSUME NEW k \in Created', NEW b, b = trajectories'[k].pending, b # None
        PROVE  /\ b \in Recorded' /\ KeyOf(b)' = k /\ b = trajectories'[k].last
               /\ \/ actions'[b].execution_status = "PENDING_APPROVAL"
                  \/ \E v \in Worker : /\ worker'[v] # Free /\ SuspendedBy(worker'[v])
                                       /\ worker'[v].action = b
    <3>1. CASE k = key
      BY <1>5, <1>12, <1>14, <1>18, <1>19, <2>2, <3>1 DEF KeyOf
    <3>2. CASE k # key
      <4>1. k \in Created /\ trajectories'[k] = trajectories[k]
        BY <1>14, <3>2
      <4>2. /\ b \in Recorded /\ KeyOf(b) = k /\ b = trajectories[k].last
            /\ actions[b].execution_status = "PENDING_APPROVAL"
        BY <1>1, <1>6, <2>2, <4>1, NoneSuspended
      <4> QED BY <1>5, <1>14, <4>1, <4>2 DEF KeyOf
    <3> QED BY <3>1, <3>2
  <2> QED BY <2>1, <2>2 DEF Checkpoints, Remembered, Checkpointed, SuspendedBy
<1>21. CallSuspends(u)'
  BY <1>5, <1>6, <1>12, <1>14, <1>18, GatewayAssumption
  DEF PolicyDecision, CallSuspends, SuspendedBy, Evaluating, Answering, Decided, TrajectoryOf
<1>22. CallLined(u)' /\ CallContained(u)' /\ CallRevalidated(u)'
  BY <1>6, <1>18 DEF CallLined, Judging, CallContained, CallRevalidated
<1> QED BY <1>5, <1>15, <1>16, <1>18, <1>20, <1>21, <1>22 DEF Moves, InLoop

-----------------------------------------------------------------------------
(* The steps that put a verdict on record, and close a checkpoint.         *)
LEMMA UpdatedAction ==
  ASSUME Sound, NEW a \in ActionId, a \in Recorded,
         NEW decision \in PolicyDecision, NEW x \in ToolExecutionStatus, NEW approved \in BOOLEAN,
         Update(a, decision, x, approved)
  PROVE  /\ Recorded' = Recorded
         /\ actions'[a].policy_result = decision /\ actions'[a].execution_status = x
         /\ actions'[a].approved = approved
         /\ \A b \in Recorded : b # a => actions'[b] = actions[b]
<1>1. PICK old : old = actions[a]
  OBVIOUS
<1>2. old \in AgentAction
  BY <1>1 DEF Sound, GatewayInv, GatewayTypeOK, Recorded
<1>3. PICK r : r = [old EXCEPT !.policy_result = decision, !.execution_status = x,
                               !.approved = approved]
  OBVIOUS
<1>4. /\ r \in AgentAction /\ r.proposal = old.proposal /\ r.policy_result = decision
      /\ r.trajectory_intent = old.trajectory_intent /\ r.execution_status = x
      /\ r.approved = approved
  BY <1>2, <1>3 DEF AgentAction
<1>5. Rewritten(a, r)
  BY <1>1, <1>3, <1>4 DEF Rewritten, Update
<1>6. /\ Recorded' = Recorded \cup {a} /\ actions'[a] = r
      /\ \A b \in ActionId \ {a} : actions'[b] = actions[b]
  BY <1>5, RewrittenKeeps DEF Sound
<1> QED BY <1>4, <1>6 DEF Recorded

LEMMA FittingStatuses ==
  ASSUME Sound, Statuses, NEW a \in ActionId, a \in Recorded,
         NEW decision \in PolicyDecision, NEW x, x = StatusOf(decision),
         NEW approved \in BOOLEAN, Update(a, decision, x, approved)
  PROVE  /\ x \in ToolExecutionStatus
         /\ x = "PENDING_APPROVAL" <=> decision = "REQUIRE_APPROVAL"
         /\ Statuses'
<1>1. /\ x \in ToolExecutionStatus /\ x # "PROPOSED"
      /\ x = "PENDING_APPROVAL" <=> decision = "REQUIRE_APPROVAL"
  BY DEF StatusOf, ToolExecutionStatus
<1>2. decision # None
  BY GatewayAssumption
<1>3. \A b \in Recorded' : StatusFits(actions'[b])
  BY <1>1, <1>2, UpdatedAction DEF Statuses, StatusFits
<1> QED BY <1>1, <1>3 DEF Statuses, StatusFits

LEMMA FinishEvaluateInLoop ==
  ASSUME Sound, CallsHonest, LoopInv, HistoryKept, NEW w \in Worker, Alone(w), FinishEvaluate(w)
  PROVE  \E t : Moves(w, t)
<1>1. PICK s : s = worker[w]
  OBVIOUS
<1>2. PICK a : a = s.action
  OBVIOUS
<1>3. PICK key : key = TrajectoryOf(s)
  OBVIOUS
<1>4. /\ s \in Task /\ worker[w] # Free /\ s.step = "finish" /\ InLoop(s)
      /\ key \in Created /\ key = KeyOf(a) /\ Placed(a)
      /\ a \in ActionId /\ a \in Recorded
      /\ UNCHANGED <<trajectories, holder, stopped>>
  BY <1>1, <1>2, <1>3, Working, CallHeld, CallAction
  DEF FinishEvaluate, At, Evaluating, Sound, Placed, LoopInv, CallsInLoop, delegation_vars
<1>5. PICK d : d = s.decision
  OBVIOUS
<1>6. /\ d # None /\ d \in PolicyDecision /\ actions[a].policy_result = None
      /\ d = "REQUIRE_APPROVAL" => trajectories[key].pending = a
      /\ SuspendedBy(s) => d = "REQUIRE_APPROVAL"
  BY <1>2, <1>3, <1>4, <1>5
  DEF InLoop, CallSuspends, Evaluating, Decided, SuspendedBy, Task
<1>7. PICK x : x = StatusOf(d)
  OBVIOUS
<1>8. Update(a, d, x, FALSE)
  BY <1>1, <1>2, <1>5, <1>7 DEF FinishEvaluate
<1>9. /\ x \in ToolExecutionStatus /\ Statuses'
      /\ x = "PENDING_APPROVAL" <=> d = "REQUIRE_APPROVAL"
  BY <1>4, <1>6, <1>7, <1>8, FittingStatuses DEF LoopInv
<1>10. /\ Recorded' = Recorded /\ actions'[a].execution_status = x
       /\ \A b \in Recorded : b # a => actions'[b] = actions[b]
  BY <1>4, <1>6, <1>8, <1>9, UpdatedAction
<1>11. Lines'
  BY <1>4, LinesUntouched, LinesStay DEF LoopInv
<1>12. Checkpoints'
  <2>1. ASSUME NEW b \in Recorded', actions'[b].execution_status = "PENDING_APPROVAL"
        PROVE  Placed(b)' /\ trajectories'[KeyOf(b)'].pending = b
    <3>1. b \in Recorded /\ Placed(b) /\ trajectories[KeyOf(b)].pending = b
      <4>1. CASE b = a
        BY <1>4, <1>6, <1>9, <1>10, <2>1, <4>1
      <4>2. CASE b # a
        BY <1>10, <2>1, <4>2 DEF LoopInv, Checkpoints, Remembered
      <4> QED BY <4>1, <4>2
    <3>2. Placed(b)' /\ KeyOf(b)' = KeyOf(b)
      BY <3>1, PlacedStays
    <3> QED BY <1>4, <3>1, <3>2
  <2>2. ASSUME NEW k \in Created', NEW b, b = trajectories'[k].pending, b # None
        PROVE  /\ b \in Recorded' /\ KeyOf(b)' = k /\ b = trajectories'[k].last
               /\ actions'[b].execution_status = "PENDING_APPROVAL"
    <3>1. k \in Created /\ trajectories'[k] = trajectories[k]
      BY <1>4, <2>2 DEF Created
    <3>2. /\ b \in Recorded /\ KeyOf(b) = k /\ b = trajectories[k].last
          /\ \/ actions[b].execution_status = "PENDING_APPROVAL"
             \/ \E v \in Worker : /\ worker[v] # Free /\ SuspendedBy(worker[v])
                                  /\ worker[v].action = b
      BY <2>2, <3>1 DEF LoopInv, Checkpoints, Checkpointed
    <3>3. b \in Recorded' /\ KeyOf(b)' = k /\ b = trajectories'[k].last
      BY <3>1, <3>2 DEF HistoryKept, KeyOf
    <3>4. actions'[b].execution_status = "PENDING_APPROVAL"
      <4>1. CASE \E v \in Worker : /\ worker[v] # Free /\ SuspendedBy(worker[v])
                                   /\ worker[v].action = b
        <5>1. SuspendedBy(s) /\ b = a
          BY <1>1, <1>2, <4>1 DEF Alone
        <5> QED BY <1>6, <1>9, <1>10, <5>1
      <4>2. CASE actions[b].execution_status = "PENDING_APPROVAL"
        <5>1. actions[b].policy_result = "REQUIRE_APPROVAL"
          BY <3>2, <4>2 DEF LoopInv, Statuses, StatusFits
        <5>2. b # a
          BY <1>6, <5>1, GatewayAssumption DEF PolicyDecision
        <5> QED BY <1>10, <3>2, <4>2, <5>2
      <4> QED BY <3>2, <4>1, <4>2
    <3> QED BY <3>3, <3>4
  <2> QED BY <2>1, <2>2 DEF Checkpoints, Remembered, Checkpointed
<1>13. PICK t : t = Free
  OBVIOUS
<1>14. worker' = [worker EXCEPT ![w] = t]
  BY <1>13 DEF FinishEvaluate, Return
<1> QED BY <1>4, <1>9, <1>11, <1>12, <1>13, <1>14 DEF Moves

(* The answer clears the checkpoint and records the verdict.               *)
LEMMA AnsweredInLoop ==
  ASSUME Sound, LoopInv, HistoryKept, NEW w \in Worker, Alone(w), worker[w] # Free,
         worker[w].step \in {"refuse", "approve"}, NEW a, a = worker[w].action,
         ClearPending(KeyOf(a), a), NEW decision \in {"ALLOW", "DENY"},
         NEW approved \in BOOLEAN, Update(a, decision, StatusOf(decision), approved)
  PROVE  /\ Lines' /\ Statuses' /\ Checkpoints'
         /\ actions'[a].policy_result = decision
<1>1. PICK key : key = KeyOf(a)
  OBVIOUS
<1>2. PICK old : old = trajectories[key]
  OBVIOUS
<1>3. /\ InLoop(worker[w]) /\ Placed(a) /\ a \in ActionId /\ a \in Recorded
      /\ key \in Created /\ old \in Trajectory
  BY <1>1, <1>2, Resolving DEF Sound, LoopInv, CallsInLoop, Placed
<1>4. old.pending = a /\ ~SuspendedBy(worker[w])
  BY <1>1, <1>2, <1>3 DEF InLoop, CallSuspends, Answering, SuspendedBy
<1>5. PICK t : t = [old EXCEPT !.pending = IF @ = a THEN None ELSE @]
  OBVIOUS
<1>6. t \in Trajectory /\ t.evaluated = old.evaluated /\ t.last = old.last /\ t.pending = None
  BY <1>3, <1>4, <1>5 DEF Trajectory
<1>7. Replace(key, t)
  BY <1>1, <1>2, <1>5 DEF ClearPending
<1>8. /\ Created' = Created /\ trajectories'[key] = t
      /\ \A k \in Created \ {key} : trajectories'[k] = trajectories[k]
  BY <1>3, <1>6, <1>7, OtherTrajectories
<1>9. PICK x : x = StatusOf(decision)
  OBVIOUS
<1>10. decision \in PolicyDecision /\ Update(a, decision, x, approved)
  BY <1>9 DEF PolicyDecision
<1>11. /\ x \in ToolExecutionStatus /\ Statuses' /\ x # "PENDING_APPROVAL"
  BY <1>3, <1>9, <1>10, FittingStatuses DEF LoopInv
<1>12. /\ Recorded' = Recorded /\ actions'[a].policy_result = decision
       /\ actions'[a].execution_status = x
       /\ \A b \in Recorded : b # a => actions'[b] = actions[b]
  BY <1>3, <1>10, <1>11, UpdatedAction
<1>13. Lines'
  <2> SUFFICES ASSUME NEW k \in Created' PROVE Line(k)'
    BY DEF Lines
  <2>1. k \in Created /\ Line(k)
    BY <1>8 DEF LoopInv, Lines
  <2>2. PICK e : e = trajectories[k].evaluated
    OBVIOUS
  <2>3. trajectories'[k].evaluated = e /\ trajectories'[k].last = trajectories[k].last
    BY <1>2, <1>6, <1>8, <2>1, <2>2
  <2>4. \A n \in DOMAIN e : e[n] \in Recorded /\ e[n] \in Recorded'
                            /\ actions'[e[n]].proposal = actions[e[n]].proposal
    BY <2>1, <2>2 DEF Line, HistoryKept
  <2> QED BY <2>1, <2>2, <2>3, <2>4 DEF Line
<1>14. Checkpoints'
  <2>1. ASSUME NEW b \in Recorded', actions'[b].execution_status = "PENDING_APPROVAL"
        PROVE  Placed(b)' /\ trajectories'[KeyOf(b)'].pending = b
    <3>1. b # a /\ b \in Recorded /\ actions[b].execution_status = "PENDING_APPROVAL"
      BY <1>11, <1>12, <2>1
    <3>2. Placed(b) /\ trajectories[KeyOf(b)].pending = b
      BY <3>1 DEF LoopInv, Checkpoints, Remembered
    <3>3. Placed(b)' /\ KeyOf(b)' = KeyOf(b) /\ KeyOf(b) \in Created
      BY <3>2, PlacedStays DEF Placed
    <3>4. KeyOf(b) # key
      BY <1>2, <1>4, <3>1, <3>2
    <3> QED BY <1>8, <3>2, <3>3, <3>4
  <2>2. ASSUME NEW k \in Created', NEW b, b = trajectories'[k].pending, b # None
        PROVE  /\ b \in Recorded' /\ KeyOf(b)' = k /\ b = trajectories'[k].last
               /\ actions'[b].execution_status = "PENDING_APPROVAL"
    <3>1. k \in Created /\ k # key /\ trajectories'[k] = trajectories[k]
      BY <1>6, <1>8, <2>2
    <3>2. /\ b \in Recorded /\ KeyOf(b) = k /\ b = trajectories[k].last
          /\ actions[b].execution_status = "PENDING_APPROVAL"
      BY <1>4, <2>2, <3>1, NoneSuspended
    <3>3. b # a
      BY <1>1, <3>1, <3>2
    <3> QED BY <1>12, <3>1, <3>2, <3>3 DEF KeyOf
  <2> QED BY <2>1, <2>2 DEF Checkpoints, Remembered, Checkpointed
<1> QED BY <1>11, <1>12, <1>13, <1>14

LEMMA RefuseInLoop ==
  ASSUME Sound, CallsHonest, LoopInv, HistoryKept, NEW w \in Worker, Alone(w), Refuse(w)
  PROVE  \E t : Moves(w, t)
<1>1. PICK a : a = worker[w].action
  OBVIOUS
<1>2. /\ worker[w] # Free /\ worker[w].step = "refuse" /\ holder' = holder
      /\ ClearPending(KeyOf(a), a) /\ Update(a, "DENY", StatusOf("DENY"), FALSE)
  BY <1>1 DEF Refuse, At, StatusOf, delegation_vars
<1>3. Lines' /\ Statuses' /\ Checkpoints'
  BY <1>1, <1>2, AnsweredInLoop
<1>4. PICK t : t = Free
  OBVIOUS
<1>5. worker' = [worker EXCEPT ![w] = t]
  BY <1>4 DEF Refuse, Return
<1> QED BY <1>2, <1>3, <1>4, <1>5 DEF Moves

LEMMA ApproveInLoop ==
  ASSUME Sound, CallsHonest, LoopInv, HistoryKept, NEW w \in Worker, Alone(w), Approve(w)
  PROVE  \E t : Moves(w, t)
<1>1. PICK a : a = worker[w].action
  OBVIOUS
<1>2. /\ worker[w] # Free /\ worker[w].step = "approve" /\ holder' = holder
      /\ ClearPending(KeyOf(a), a) /\ Update(a, "ALLOW", StatusOf("ALLOW"), TRUE)
  BY <1>1 DEF Approve, At, StatusOf, delegation_vars
<1>3. Lines' /\ Statuses' /\ Checkpoints' /\ actions'[a].policy_result = "ALLOW"
  BY <1>1, <1>2, AnsweredInLoop
<1>4. PICK t : t = [worker[w] EXCEPT !.step = "gate"]
  OBVIOUS
<1>5. worker[w] \in Task /\ worker[w].decision = None
  BY <1>2, CallHeld DEF CallsHonest, Honest, Undecided
<1>6. /\ t.step = "gate" /\ t.action = a /\ t.decision = None
      /\ worker' = [worker EXCEPT ![w] = t]
  BY <1>1, <1>4, <1>5 DEF Approve, GoTo, Task
<1>7. InLoop(t)'
  BY <1>3, <1>6, GatewayAssumption
  DEF InLoop, CallLined, CallSuspends, CallContained, CallRevalidated, SuspendedBy, Judging,
      Evaluating, Answering, Decided, PolicyDecision, MayRun
<1> QED BY <1>2, <1>3, <1>6, <1>7 DEF Moves

-----------------------------------------------------------------------------
(* The induction.                                                          *)
LEMMA StepsAlone ==
  ASSUME ~Interleaved, LoopInv, NEW w \in Worker, NewCall(w) \/ WorkerStep(w)
  PROVE  Alone(w) /\ holder = Idle
<1>1. CASE worker[w] # Free
  BY <1>1 DEF LoopInv, Serial, Alone, Idling
<1>2. CASE worker[w] = Free
  <2>1. MayStart(w)
    BY <1>2 DEF NewCall, BeginEvaluate, EvaluateUngoverned, OpenCheckpoint, BeginExecute,
        WorkerStep, OpenTrajectory, Validate, CountEgress, Refresh, Decide, Record,
        SetCheckpoint, Quarantine, ChargeGrant, ChargeIntent, FinishEvaluate, ReadContract,
        ReserveForApproval, Refuse, Approve, Gate, Start, RunTool, AssertionFails, At
  <2> QED BY <2>1 DEF MayStart, Quiet, Idling, Alone
<1> QED BY <1>1, <1>2

LEMMA WorkerMoves ==
  ASSUME ~Interleaved, Sound, CallsHonest, LoopInv, NEW w \in Worker, NewCall(w) \/ WorkerStep(w)
  PROVE  \E t : Moves(w, t)
<1>1. Alone(w)
  BY StepsAlone
<1>2. HistoryKept
  <2>1. \E t : StepOK(w, t)
    BY WorkerStepOK DEF Sound
  <2> QED BY <2>1 DEF StepOK
<1>3. CASE NewCall(w)
  BY <1>1, <1>2, <1>3, BeginEvaluateInLoop, EvaluateUngovernedInLoop, OpenCheckpointInLoop,
     BeginExecuteInLoop DEF NewCall
<1>4. CASE WorkerStep(w)
  <2>1. ~AssertionFails(w)
    BY DEF AssertionFails
  <2> QED BY <1>1, <1>2, <1>4, <2>1, OpenTrajectoryInLoop, ValidateInLoop, CountEgressInLoop,
             RefreshInLoop, DecideInLoop, RecordInLoop, SetCheckpointInLoop, QuarantineInLoop,
             ReservationInLoop, FinishEvaluateInLoop, ReadContractInLoop,
             ReserveForApprovalInLoop, RefuseInLoop, ApproveInLoop, GateInLoop, StartInLoop,
             RunToolInLoop
          DEF WorkerStep
<1> QED BY <1>3, <1>4

LEMMA LoopAside ==
  ASSUME ~Interleaved, LoopInv, ControlPlane \/ UNCHANGED gateway_vars
  PROVE  LoopInv'
<1>1. UNCHANGED <<trajectories, actions, worker>>
  BY DEF ControlPlane, gateway_vars
<1>2. Lines' /\ Statuses' /\ Checkpoints'
  <2>1. Recorded' = Recorded /\ Created' = Created
    BY <1>1 DEF Recorded, Created
  <2> QED BY <1>1, <2>1 DEF LoopInv, Lines, Line, Statuses, StatusFits, Checkpoints, Remembered,
             Placed, KeyOf, Checkpointed, SuspendedBy
<1>3. CASE Idling
  BY <1>1, <1>2, <1>3 DEF LoopInv, Serial, CallsInLoop, Idling
<1>4. CASE ~Idling
  <2>1. holder = Idle /\ ~Quiet
    BY <1>4 DEF LoopInv, Serial, Quiet
  <2>2. UNCHANGED <<holder, stopped, intents, session_to_intent>>
    BY <2>1 DEF ControlPlane, Finish, Tick, gateway_vars, delegation_vars, intent_vars
  <2>3. Serial'
    BY <1>1, <2>1, <2>2 DEF LoopInv, Serial
  <2>4. CallsInLoop'
    <3> SUFFICES ASSUME NEW w \in Worker, worker[w] # Free PROVE InLoop(worker[w])'
      BY <1>1 DEF CallsInLoop
    <3>1. InLoop(worker[w])
      BY DEF LoopInv, CallsInLoop
    <3>2. CallLined(worker[w])' /\ CallSuspends(worker[w])'
      BY <1>1, <3>1 DEF InLoop, CallLined, CallSuspends, TrajectoryOf, SuspendedBy, KeyOf, MayRun
    <3>3. CallContained(worker[w])' /\ CallRevalidated(worker[w])'
      BY <1>1, <2>2, <3>1
      DEF InLoop, CallContained, CallRevalidated, TrajectoryOf, KeyOf, ApprovedStill
    <3> QED BY <3>2, <3>3 DEF InLoop
  <2> QED BY <1>2, <2>3, <2>4 DEF LoopInv
<1> QED BY <1>3, <1>4

LEMMA MovesInLoop ==
  ASSUME ~Interleaved, Sound, LoopInv, NEW w \in Worker, NewCall(w) \/ WorkerStep(w),
         NEW t, Moves(w, t)
  PROVE  LoopInv'
<1>1. Alone(w) /\ holder = Idle
  BY StepsAlone
<1>2. worker'[w] = t /\ \A v \in Worker \ {w} : worker'[v] = Free
  BY <1>1, OthersStand DEF Moves, Alone
<1>3. Serial'
  BY <1>1, <1>2 DEF Serial, Moves
<1>4. CallsInLoop'
  BY <1>2 DEF CallsInLoop, Moves
<1> QED BY <1>3, <1>4 DEF LoopInv, Moves

LEMMA LoopStep ==
  ASSUME ~Interleaved, Sound, Traceable, LoopInv, [GatewayNext]_gateway_vars
  PROVE  LoopInv'
<1>1. ASSUME NEW w \in Worker, NewCall(w) \/ WorkerStep(w) PROVE LoopInv'
  BY <1>1, WorkerMoves, MovesInLoop DEF Traceable
<1> QED BY <1>1, LoopAside DEF GatewayNext

LEMMA LoopStart == GatewayInit => LoopInv
<1> SUFFICES ASSUME GatewayInit PROVE LoopInv
  OBVIOUS
<1>1. Recorded = {} /\ Created = {}
  BY DEF GatewayInit, TrajectoryInit, Recorded, Created
<1>2. Serial /\ CallsInLoop
  BY DEF GatewayInit, DelegationInit, Serial, CallsInLoop
<1> QED BY <1>1, <1>2 DEF LoopInv, Lines, Statuses, Checkpoints

LEMMA LoopInvariant ==
  ASSUME ~Interleaved
  PROVE  GatewaySpec => [](Sound /\ Traceable /\ LoopInv)
<1>1. Sound /\ Traceable /\ LoopInv /\ [GatewayNext]_gateway_vars => LoopInv'
  BY LoopStep
<1> QED BY <1>1, LoopStart, SoundInvariant, PTL DEF GatewaySpec

-----------------------------------------------------------------------------
(* A trajectory is one line of actions: each has the one before it as its  *)
(* parent (LinearTrajectory), when one event loop runs the calls.          *)
THEOREM LinearTrajectorySafe ==
  ASSUME ~Interleaved
  PROVE  GatewaySpec => []LinearTrajectory
<1>1. LoopInv => LinearTrajectory
  BY DEF LoopInv, Lines, Line, LinearTrajectory
<1> QED BY <1>1, LoopInvariant, PTL

(* Between calls, an action waits for a human exactly when it is the       *)
(* checkpoint of its trajectory and its last action.                       *)
THEOREM CheckpointConsistentSafe ==
  ASSUME ~Interleaved
  PROVE  GatewaySpec => []CheckpointConsistent
<1>1. ASSUME LoopInv PROVE CheckpointConsistent
  <2> SUFFICES ASSUME Idling PROVE CheckpointConsistent
    BY DEF CheckpointConsistent
  <2> QED BY <1>1 DEF Idling, LoopInv, Checkpoints, Remembered, Checkpointed, CheckpointConsistent
<1> QED BY <1>1, LoopInvariant, PTL

-----------------------------------------------------------------------------
(* Nothing is allowed any more on a quarantined trajectory: the decision   *)
(* and the answer looked at the quarantine, and no call came in between.   *)
THEOREM QuarantineContainsSafe ==
  ASSUME ~Interleaved
  PROVE  GatewaySpec => QuarantineContains
<1>1. ASSUME Sound, Traceable, LoopInv, [GatewayNext]_gateway_vars,
             NEW a \in Recorded, MayRun(a)', ~MayRun(a)
      PROVE  KeyOf(a) \notin stopped
  <2>1. CASE ControlPlane \/ UNCHANGED gateway_vars
    BY <1>1, <2>1 DEF ControlPlane, gateway_vars, MayRun
  <2>2. ASSUME NEW w \in Worker, NewCall(w) \/ WorkerStep(w)
        PROVE  KeyOf(a) \notin stopped
    <3>1. PICK t : Accounted(w, t)
      BY <1>1, <2>2, WorkerAccounted DEF Traceable
    <3>2. PICK s : s = worker[w]
      OBVIOUS
    <3>3. PaidCall(s) /\ s.action = a
      BY <1>1, <3>1, <3>2 DEF Accounted, ActionsAccounted
    <3>4. InLoop(s)
      BY <1>1, <3>2, <3>3 DEF PaidCall, LoopInv, CallsInLoop
    <3>5. CASE s.step = "approve"
      BY <3>3, <3>4, <3>5 DEF InLoop, CallContained
    <3>6. CASE s.step = "finish" /\ s.decision = "ALLOW"
      <4>1. TrajectoryOf(s) = KeyOf(a)
        BY <1>1, <3>2, <3>3, <3>6, Working DEF Sound, PaidCall, Evaluating
      <4> QED BY <3>4, <3>6, <4>1 DEF InLoop, CallContained
    <3> QED BY <3>3, <3>5, <3>6 DEF PaidCall
  <2> QED BY <1>1, <2>1, <2>2 DEF GatewayNext
<1>2. Sound /\ Traceable /\ LoopInv /\ [GatewayNext]_gateway_vars
        => [\A a \in Recorded : MayRun(a)' /\ ~MayRun(a) => KeyOf(a) \notin stopped]_gateway_vars
  BY <1>1
<1> QED BY <1>2, LoopInvariant, PTL DEF GatewaySpec, QuarantineContains

(* An action becomes one a human allowed by the answer to its checkpoint.  *)
LEMMA ApprovedByAnswer ==
  ASSUME Sound, NEW w \in Worker, NewCall(w) \/ WorkerStep(w),
         NEW a \in Recorded, actions'[a].approved, ~actions[a].approved
  PROVE  worker[w] # Free /\ worker[w].step = "approve" /\ worker[w].action = a
<1>1. a \in ActionId /\ actions[a] \in AgentAction
  BY DEF Sound, GatewayInv, GatewayTypeOK, Recorded
<1>2. actions'[a] # actions[a]
  OBVIOUS
<1>3. ~UNCHANGED actions
  BY <1>2
<1>4. actions \in [ActionId -> AgentAction \cup {NoAction}]
  BY DEF Sound, GatewayInv, GatewayTypeOK
<1>5. ASSUME NEW p \in ActionProposals PROVE ~EvaluateUngoverned(w, p)
  BY <1>2, <1>4 DEF EvaluateUngoverned, Recorded
<1>6. ~NewCall(w)
  BY <1>3, <1>5 DEF NewCall, BeginEvaluate, OpenCheckpoint, BeginExecute
<1>7. ~Validate(w)
  BY <1>2, <1>4 DEF Validate, Recorded
<1>8. ~Decide(w)
  BY <1>1, <1>4 DEF Decide, AgentAction
<1>9. ASSUME NEW b, NEW d, NEW x, Update(b, d, x, FALSE) PROVE FALSE
  BY <1>1, <1>4, <1>9 DEF Update, AgentAction
<1>10. ASSUME NEW b, NEW x, SetExecutionStatus(b, x) PROVE FALSE
  BY <1>1, <1>4, <1>10 DEF SetExecutionStatus, AgentAction
<1>11. ~FinishEvaluate(w) /\ ~Refuse(w)
  BY <1>9 DEF FinishEvaluate, Refuse
<1>12. ~Start(w) /\ ~RunTool(w)
  BY <1>10 DEF Start, RunTool
<1>13. Approve(w)
  BY <1>3, <1>6, <1>7, <1>8, <1>11, <1>12
  DEF WorkerStep, OpenTrajectory, CountEgress, Refresh, Record, SetCheckpoint, Quarantine,
      ChargeGrant, ChargeIntent, ReadContract, ReserveForApproval, Gate, AssertionFails
<1>14. worker[w].action = a
  BY <1>2, <1>4, <1>13 DEF Approve, Update
<1> QED BY <1>13, <1>14 DEF Approve, At

(* When a human's answer is recorded, the contract that governs the        *)
(* session is active and grants the operation, and so does what the        *)
(* trajectory may do: the revalidation is of that very moment.             *)
THEOREM ApprovalRevalidatedSafe ==
  ASSUME ~Interleaved
  PROVE  GatewaySpec => ApprovalRevalidated
<1> DEFINE StillGranted(a) ==
      LET op == actions[a].proposal.operation
          c  == intents[session_to_intent[actions[a].proposal.session_id]]
      IN  /\ c.status = "ACTIVE"
          /\ op.tool \in c.scope.allowed_tools \ c.scope.denied_tools
          /\ UnlessEmpty(c.scope.allowed_resources, op.resource)
          /\ Allows(trajectories[KeyOf(a)].effective_authority, op)
<1>1. ASSUME Sound, Traceable, LoopInv, [GatewayNext]_gateway_vars,
             NEW a \in Recorded, actions'[a].approved, ~actions[a].approved
      PROVE  StillGranted(a)
  <2>1. CASE ControlPlane \/ UNCHANGED gateway_vars
    BY <1>1, <2>1 DEF ControlPlane, gateway_vars
  <2>2. ASSUME NEW w \in Worker, NewCall(w) \/ WorkerStep(w)
        PROVE  StillGranted(a)
    <3>1. worker[w] # Free /\ worker[w].step = "approve" /\ worker[w].action = a
      BY <1>1, <2>2, ApprovedByAnswer
    <3>2. ApprovedStill(a)
      BY <1>1, <3>1 DEF LoopInv, CallsInLoop, InLoop, CallRevalidated
    <3> QED BY <3>2 DEF ApprovedStill
  <2> QED BY <1>1, <2>1, <2>2 DEF GatewayNext
<1>2. Sound /\ Traceable /\ LoopInv /\ [GatewayNext]_gateway_vars
        => [\A a \in Recorded : actions[a]'.approved /\ ~actions[a].approved
              => StillGranted(a)]_gateway_vars
  BY <1>1
<1>3. ApprovalRevalidated
        <=> [][\A a \in Recorded : actions[a]'.approved /\ ~actions[a].approved
                 => StillGranted(a)]_gateway_vars
  BY DEF ApprovalRevalidated
<1> HIDE DEF Revalidated
<1> QED BY <1>2, <1>3, LoopInvariant, PTL DEF GatewaySpec

-----------------------------------------------------------------------------
(***************************************************************************)
(* The gateway implements the abstract gate.  Most steps change nothing of *)
(* it, or reserve one more execution; the others put one verdict on record *)
(* or run one tool, and leave the contracts alone.                         *)
(***************************************************************************)
VerdictsStay == \A a \in ActionId : VerdictOf(a)' = VerdictOf(a)

LEMMA VerdictsUntouched ==
  ASSUME UNCHANGED actions
  PROVE  VerdictsStay
BY DEF VerdictsStay, VerdictOf, Recorded

LEMMA OneVerdict ==
  ASSUME Sound, NEW a \in ActionId, NEW r, Rewritten(a, r)
  PROVE  /\ \A b \in ActionId \ {a} : VerdictOf(b)' = VerdictOf(b)
         /\ r.policy_result = None => VerdictOf(a)' = "none"
         /\ a \in Recorded /\ r.policy_result = actions[a].policy_result
              => VerdictOf(a)' = VerdictOf(a)
         /\ r.policy_result = "ALLOW" => VerdictOf(a)' = "granted"
         /\ r.policy_result = "REQUIRE_APPROVAL" => VerdictOf(a)' = "waiting"
         /\ r.policy_result \in {"DENY", "QUARANTINE"} => VerdictOf(a)' = "refused"
<1>1. /\ Recorded' = Recorded \cup {a} /\ actions'[a] = r
      /\ \A b \in ActionId \ {a} : actions'[b] = actions[b]
  BY RewrittenKeeps DEF Sound
<1> QED BY <1>1, GatewayAssumption DEF VerdictOf, PolicyDecision

LEMMA OpenVerdict ==
  ASSUME NEW a \in ActionId,
         \/ a \notin Recorded
         \/ actions[a].policy_result \in {None, "REQUIRE_APPROVAL"}
  PROVE  VerdictOf(a) \in {"none", "waiting"}
BY DEF VerdictOf

LEMMA GrantedRun ==
  ASSUME NEW a \in ActionId
  PROVE  VerdictOf(a) = "granted" <=> a \in Recorded /\ MayRun(a)
BY GatewayAssumption DEF VerdictOf, MayRun, PolicyDecision

LEMMA ReservedStays ==
  ASSUME Sound, FiniteSoFar, UNCHANGED delegation_vars
  PROVE  Reserved' = Reserved
<1>1. CountsKept
  BY DEF delegation_vars, intent_vars, CountsKept, Exists
<1> QED BY <1>1, ReservedWhenKept
        DEF Sound, GatewayInv, GatewayTypeOK, DelegationTypeOK, FiniteSoFar

(* A step that changes no verdict and runs nothing.                        *)
LEMMA GateKept ==
  ASSUME VerdictsStay, UNCHANGED ran, Reserved' \in {Reserved, Reserved + 1}
  PROVE  [ActionGate!Next]_(ActionGate!gate_vars)
<1>1. [a \in ActionId |-> VerdictOf(a)'] = [a \in ActionId |-> VerdictOf(a)]
  BY DEF VerdictsStay
<1>2. CASE Reserved' = Reserved
  BY <1>1, <1>2 DEF ActionGate!gate_vars
<1>3. CASE Reserved' = Reserved + 1
  BY <1>1, <1>3 DEF ActionGate!Next, ActionGate!Reserve
<1> QED BY <1>2, <1>3

LEMMA SameCardinality ==
  ASSUME NEW S
  PROVE  ActionGate!Cardinality(S) = Cardinality(S)
BY DEF ActionGate!Cardinality, Cardinality

(* A step that changes the verdict of one action.                          *)
LEMMA GateDecides ==
  ASSUME NEW a \in ActionId, NEW v, VerdictOf(a)' = v,
         \A b \in ActionId \ {a} : VerdictOf(b)' = VerdictOf(b),
         Reserved' = Reserved, UNCHANGED ran,
         VerdictOf(a) \in {"none", "waiting"},
         \/ v = "waiting" /\ VerdictOf(a) = "none"
         \/ v = "refused"
         \/ /\ v = "granted"
            /\ Cardinality({b \in ActionId : VerdictOf(b) = "granted"}) < Reserved
  PROVE  ActionGate!Next
<1>1. [b \in ActionId |-> VerdictOf(b)']
        = [[b \in ActionId |-> VerdictOf(b)] EXCEPT ![a] = v]
  OBVIOUS
<1>2. ActionGate!Granted = {b \in ActionId : VerdictOf(b) = "granted"}
  BY DEF ActionGate!Granted
<1>3. ActionGate!Open(a)
  BY DEF ActionGate!Open
<1>4. CASE v = "waiting" /\ VerdictOf(a) = "none"
  BY <1>1, <1>4 DEF ActionGate!Next, ActionGate!Hold
<1>5. CASE v = "refused"
  BY <1>1, <1>3, <1>5 DEF ActionGate!Next, ActionGate!Refuse
<1>6. CASE /\ v = "granted"
           /\ Cardinality({b \in ActionId : VerdictOf(b) = "granted"}) < Reserved
  <2>1. ActionGate!Cardinality(ActionGate!Granted) < Reserved
    BY <1>2, <1>6, SameCardinality
  <2>2. ActionGate!Grant(a)
    BY <1>1, <1>3, <1>6, <2>1 DEF ActionGate!Grant
  <2> QED BY <2>2 DEF ActionGate!Next
<1> QED BY <1>4, <1>5, <1>6

(* The verdict a call has paid for and not yet recorded is within what was *)
(* reserved.                                                               *)
LEMMA RoomToGrant ==
  ASSUME Sound, FiniteSoFar, PaidFor, NEW w \in Worker, PaidCall(worker[w]),
         NEW a \in Recorded, a = worker[w].action, ~MayRun(a)
  PROVE  Cardinality({b \in ActionId : VerdictOf(b) = "granted"}) < Reserved
<1>1. PICK S : S = {b \in ActionId : VerdictOf(b) = "granted"}
  OBVIOUS
<1>2. S = {b \in Recorded : MayRun(b)}
  BY <1>1, GrantedRun DEF Recorded
<1>3. S \subseteq Recorded /\ a \notin S /\ S \cup {a} \subseteq Paid /\ Paid \subseteq Recorded
  BY <1>2 DEF Paid
<1>4. IsFiniteSet(S) /\ IsFiniteSet(Paid) /\ Cardinality(S) \in Nat /\ Cardinality(Paid) \in Nat
  BY <1>3, FS_Subset, FS_CardinalityType DEF FiniteSoFar
<1>5. Cardinality(S \cup {a}) = Cardinality(S) + 1 /\ Cardinality(S \cup {a}) <= Cardinality(Paid)
  BY <1>3, <1>4, FS_AddElement, FS_Subset
<1>6. Reserved \in Nat
  <2>1. Naturals(Executions, Contracts)
    BY ExecutionsCounted
    DEF Sound, GatewayInv, GatewayTypeOK, DelegationTypeOK, Naturals, Contracts
  <2> QED BY <2>1, ReservedIsSum, SumOfNaturals DEF FiniteSoFar
<1> QED BY <1>1, <1>4, <1>5, <1>6 DEF PaidFor

(* The steps that record a new action, or rewrite one under its verdict.   *)
LEMMA ValidateVerdicts ==
  ASSUME Sound, NEW w \in Worker, Validate(w)
  PROVE  VerdictsStay
<1>1. PICK s : s = worker[w]
  OBVIOUS
<1>2. s \in Task
  BY <1>1, CallHeld DEF Validate, At
<1>3. CASE UNCHANGED actions
  BY <1>3, VerdictsUntouched
<1>4. CASE \E a \in ActionId \ Recorded :
             actions' = [actions EXCEPT ![a] = NewAction(s.proposal, s.intent, None, "PROPOSED")]
  <2>1. PICK a \in ActionId \ Recorded :
             actions' = [actions EXCEPT ![a] = NewAction(s.proposal, s.intent, None, "PROPOSED")]
    BY <1>4
  <2>2. PICK r : r = NewAction(s.proposal, s.intent, None, "PROPOSED")
    OBVIOUS
  <2>3. r \in AgentAction /\ r.policy_result = None
    BY <1>2, <2>2 DEF NewAction, AgentAction, Task, ToolExecutionStatus
  <2>4. Rewritten(a, r)
    BY <2>1, <2>2, <2>3 DEF Rewritten
  <2>5. VerdictOf(a)' = "none" /\ VerdictOf(a) = "none"
    BY <2>3, <2>4, OneVerdict DEF VerdictOf
  <2> QED BY <2>4, <2>5, OneVerdict DEF VerdictsStay
<1> QED BY <1>1, <1>3, <1>4 DEF Validate

LEMMA DecideVerdicts ==
  ASSUME Sound, NEW w \in Worker, Decide(w)
  PROVE  VerdictsStay
<1>1. PICK s : s = worker[w]
  OBVIOUS
<1>2. PICK a : a = s.action
  OBVIOUS
<1>3. a \in ActionId /\ a \in Recorded /\ actions[a] \in AgentAction
  BY <1>1, <1>2, CallAction DEF Decide, At
<1>4. PICK d : d = IF ResolvedGrant(s) THEN s.proposal.delegation_id ELSE None
  OBVIOUS
<1>5. d \in DelegationId \cup {None}
  BY <1>4 DEF ResolvedGrant, Issued
<1>6. PICK r : r = [actions[a] EXCEPT !.delegation_id = d]
  OBVIOUS
<1>7. /\ r \in AgentAction /\ r.proposal = actions[a].proposal
      /\ r.trajectory_intent = actions[a].trajectory_intent
      /\ r.policy_result = actions[a].policy_result
  BY <1>3, <1>5, <1>6 DEF AgentAction
<1>8. Rewritten(a, r)
  BY <1>1, <1>2, <1>4, <1>6, <1>7 DEF Decide, Rewritten
<1> QED BY <1>3, <1>7, <1>8, OneVerdict DEF VerdictsStay

LEMMA StatusVerdicts ==
  ASSUME Sound, NEW a \in ActionId, a \in Recorded, NEW x \in ToolExecutionStatus,
         SetExecutionStatus(a, x)
  PROVE  VerdictsStay
<1>1. PICK old : old = actions[a]
  OBVIOUS
<1>2. old \in AgentAction
  BY <1>1 DEF Sound, GatewayInv, GatewayTypeOK, Recorded
<1>3. PICK r : r = [old EXCEPT !.execution_status = x]
  OBVIOUS
<1>4. /\ r \in AgentAction /\ r.proposal = old.proposal /\ r.policy_result = old.policy_result
      /\ r.trajectory_intent = old.trajectory_intent
  BY <1>2, <1>3 DEF AgentAction
<1>5. Rewritten(a, r)
  BY <1>1, <1>3, <1>4 DEF Rewritten, SetExecutionStatus
<1> QED BY <1>1, <1>4, <1>5, OneVerdict DEF VerdictsStay

LEMMA UngovernedGate ==
  ASSUME Sound, FiniteSoFar, NEW w \in Worker, NEW p \in ActionProposals,
         EvaluateUngoverned(w, p)
  PROVE  ActionGate!Next
<1>1. PICK a \in ActionId \ Recorded :
        actions' = [actions EXCEPT ![a] = NewAction(p, None, "DENY", "DENIED")]
  BY DEF EvaluateUngoverned
<1>2. PICK r : r = NewAction(p, None, "DENY", "DENIED")
  OBVIOUS
<1>3. r \in AgentAction /\ r.policy_result = "DENY"
  BY <1>2, GatewayAssumption DEF NewAction, AgentAction, PolicyDecision, ToolExecutionStatus
<1>4. Rewritten(a, r)
  BY <1>1, <1>2, <1>3 DEF Rewritten
<1>5. VerdictOf(a)' = "refused" /\ \A b \in ActionId \ {a} : VerdictOf(b)' = VerdictOf(b)
  BY <1>3, <1>4, OneVerdict
<1>6. Reserved' = Reserved /\ UNCHANGED ran
  BY ReservedStays DEF EvaluateUngoverned
<1> QED BY <1>1, <1>5, <1>6, OpenVerdict, GateDecides

(* The steps that put a verdict on an action that has none, or waits.      *)
LEMMA UpdateGate ==
  ASSUME Sound, FiniteSoFar, PaidFor, UNCHANGED <<delegation_vars, ran>>,
         NEW w \in Worker, worker[w] # Free, NEW a, a = worker[w].action,
         a \in ActionId, a \in Recorded,
         NEW d \in PolicyDecision, NEW x \in ToolExecutionStatus, NEW approved \in BOOLEAN,
         Update(a, d, x, approved),
         \/ actions[a].policy_result = None
         \/ actions[a].policy_result = "REQUIRE_APPROVAL" /\ d # "REQUIRE_APPROVAL",
         d = "ALLOW" => PaidCall(worker[w])
  PROVE  ActionGate!Next
<1>1. PICK old : old = actions[a]
  OBVIOUS
<1>2. old \in AgentAction
  BY <1>1 DEF Sound, GatewayInv, GatewayTypeOK, Recorded
<1>3. PICK r : r = [old EXCEPT !.policy_result = d, !.execution_status = x,
                               !.approved = approved]
  OBVIOUS
<1>4. /\ r \in AgentAction /\ r.proposal = old.proposal /\ r.policy_result = d
      /\ r.trajectory_intent = old.trajectory_intent
  BY <1>2, <1>3 DEF AgentAction
<1>5. Rewritten(a, r)
  BY <1>1, <1>3, <1>4 DEF Rewritten, Update
<1>6. Reserved' = Reserved /\ VerdictOf(a) \in {"none", "waiting"}
      /\ \A b \in ActionId \ {a} : VerdictOf(b)' = VerdictOf(b)
  BY <1>5, ReservedStays, OpenVerdict, OneVerdict
<1>7. CASE d = "REQUIRE_APPROVAL"
  <2>1. VerdictOf(a) = "none" /\ VerdictOf(a)' = "waiting"
    BY <1>4, <1>5, <1>7, OneVerdict DEF VerdictOf
  <2> QED BY <1>6, <2>1, GateDecides
<1>8. CASE d \in {"DENY", "QUARANTINE"}
  <2>1. VerdictOf(a)' = "refused"
    BY <1>4, <1>5, <1>8, OneVerdict
  <2> QED BY <1>6, <2>1, GateDecides
<1>9. CASE d = "ALLOW"
  <2>1. VerdictOf(a)' = "granted"
    BY <1>4, <1>5, <1>9, OneVerdict
  <2>2. ~MayRun(a)
    BY GatewayAssumption DEF MayRun, PolicyDecision
  <2>3. Cardinality({b \in ActionId : VerdictOf(b) = "granted"}) < Reserved
    BY <1>9, <2>2, RoomToGrant
  <2> QED BY <1>6, <2>1, <2>3, GateDecides
<1> QED BY <1>7, <1>8, <1>9 DEF PolicyDecision

LEMMA FinishEvaluateGate ==
  ASSUME Sound, FiniteSoFar, PaidFor, LoopInv, NEW w \in Worker, FinishEvaluate(w)
  PROVE  ActionGate!Next
<1>1. PICK s : s = worker[w]
  OBVIOUS
<1>2. PICK a : a = s.action
  OBVIOUS
<1>3. /\ s \in Task /\ worker[w] # Free /\ s.step = "finish" /\ InLoop(s)
      /\ a \in ActionId /\ a \in Recorded /\ UNCHANGED <<delegation_vars, ran>>
  BY <1>1, <1>2, CallHeld, CallAction DEF FinishEvaluate, At, LoopInv, CallsInLoop
<1>4. s.decision # None /\ s.decision \in PolicyDecision /\ actions[a].policy_result = None
  BY <1>2, <1>3 DEF InLoop, CallSuspends, Evaluating, Decided, Task
<1>5. PICK x : x = StatusOf(s.decision)
  OBVIOUS
<1>6. x \in ToolExecutionStatus
  BY <1>5 DEF StatusOf, ToolExecutionStatus
<1>7. Update(a, s.decision, x, FALSE)
  BY <1>1, <1>2, <1>5 DEF FinishEvaluate
<1>8. s.decision = "ALLOW" => PaidCall(s)
  BY <1>1, <1>3 DEF PaidCall
<1> QED BY <1>1, <1>2, <1>3, <1>4, <1>6, <1>7, <1>8, UpdateGate

(* Between the question and the answer the action waits, with the verdict  *)
(* that says so on record.                                                 *)
LEMMA AnswersWaiting ==
  ASSUME Sound, LoopInv, NEW w \in Worker, worker[w] # Free,
         worker[w].step \in {"refuse", "approve"}
  PROVE  actions[worker[w].action].policy_result = "REQUIRE_APPROVAL"
<1>1. PICK a : a = worker[w].action
  OBVIOUS
<1>2. InLoop(worker[w]) /\ a \in ActionId /\ KeyOf(a) \in Created /\ Alone(w)
  BY <1>1, Resolving DEF Sound, LoopInv, CallsInLoop, Placed, Serial, Alone
<1>3. trajectories[KeyOf(a)].pending = a /\ ~SuspendedBy(worker[w])
  BY <1>1, <1>2 DEF InLoop, CallSuspends, Answering, SuspendedBy
<1>4. a \in Recorded /\ actions[a].execution_status = "PENDING_APPROVAL"
  BY <1>2, <1>3, NoneSuspended, TrajectoryAssumption
<1> QED BY <1>1, <1>4 DEF LoopInv, Statuses, StatusFits

LEMMA AnswerGate ==
  ASSUME Sound, FiniteSoFar, PaidFor, LoopInv, NEW w \in Worker, Refuse(w) \/ Approve(w)
  PROVE  ActionGate!Next
<1>1. PICK a : a = worker[w].action
  OBVIOUS
<1>2. /\ worker[w] # Free /\ worker[w].step \in {"refuse", "approve"}
      /\ UNCHANGED <<delegation_vars, ran>>
  BY DEF Refuse, Approve, At
<1>3. a \in ActionId /\ a \in Recorded /\ actions[a].policy_result = "REQUIRE_APPROVAL"
  BY <1>1, <1>2, CallAction, AnswersWaiting
<1>4. /\ {"DENY", "ALLOW"} \subseteq PolicyDecision
      /\ {"DENIED", "AUTHORIZED"} \subseteq ToolExecutionStatus
  BY DEF PolicyDecision, ToolExecutionStatus
<1>5. CASE Refuse(w)
  <2>1. Update(a, "DENY", "DENIED", FALSE)
    BY <1>1, <1>5 DEF Refuse
  <2> QED BY <1>1, <1>2, <1>3, <1>4, <2>1, UpdateGate
<1>6. CASE Approve(w)
  <2>1. Update(a, "ALLOW", "AUTHORIZED", TRUE) /\ PaidCall(worker[w])
    BY <1>1, <1>2, <1>6 DEF Approve, PaidCall, At
  <2> QED BY <1>1, <1>2, <1>3, <1>4, <2>1, UpdateGate
<1> QED BY <1>5, <1>6

LEMMA RunToolGate ==
  ASSUME Sound, FiniteSoFar, LoopInv, NEW w \in Worker, RunTool(w)
  PROVE  ActionGate!Next
<1>1. PICK a : a = worker[w].action
  OBVIOUS
<1>2. worker[w] # Free /\ worker[w].step = "run"
  BY DEF RunTool, At
<1>3. a \in ActionId /\ a \in Recorded /\ MayRun(a)
  BY <1>1, <1>2, RunningMayRun
<1>4. PICK x \in {"COMPLETED", "FAILED"} : SetExecutionStatus(a, x)
  BY <1>1 DEF RunTool
<1>5. VerdictsStay
  BY <1>3, <1>4, StatusVerdicts DEF ToolExecutionStatus
<1>6. [b \in ActionId |-> VerdictOf(b)'] = [b \in ActionId |-> VerdictOf(b)]
  BY <1>5 DEF VerdictsStay
<1>7. Reserved' = Reserved /\ ran' = [ran EXCEPT ![a] = @ + 1]
  BY <1>1, ReservedStays DEF RunTool
<1>8. a \in ActionGate!Granted
  BY <1>3, GrantedRun DEF ActionGate!Granted
<1>9. ActionGate!Run(a)
  BY <1>6, <1>7, <1>8 DEF ActionGate!Run
<1> QED BY <1>3, <1>9 DEF ActionGate!Next

LEMMA RefinesGate ==
  ASSUME ~Interleaved, Sound, Traceable, FiniteSoFar, PaidFor, LoopInv,
         [GatewayNext]_gateway_vars
  PROVE  [ActionGate!Next]_(ActionGate!gate_vars)
<1>1. Reserved' \in {Reserved, Reserved + 1}
  <2>1. [IntentNext]_intent_vars /\ IntentTypeOK
    BY GatewayStep, TableStep DEF Sound, GatewayInv, GatewayTypeOK, DelegationTypeOK
  <2> QED BY <2>1, ReservedGrows DEF FiniteSoFar
<1>2. CASE ControlPlane \/ UNCHANGED gateway_vars
  <2>1. UNCHANGED <<actions, ran>>
    BY <1>2 DEF ControlPlane, gateway_vars
  <2> QED BY <1>1, <2>1, VerdictsUntouched, GateKept
<1>3. ASSUME NEW w \in Worker, NewCall(w)
      PROVE  [ActionGate!Next]_(ActionGate!gate_vars)
  <2>1. ASSUME NEW p \in ActionProposals, EvaluateUngoverned(w, p) PROVE ActionGate!Next
    BY <2>1, UngovernedGate
  <2>2. CASE UNCHANGED <<actions, ran>>
    BY <1>1, <2>2, VerdictsUntouched, GateKept
  <2> QED BY <1>3, <2>1, <2>2 DEF NewCall, BeginEvaluate, OpenCheckpoint, BeginExecute
<1>4. ASSUME NEW w \in Worker, WorkerStep(w)
      PROVE  [ActionGate!Next]_(ActionGate!gate_vars)
  <2>1. CASE UNCHANGED <<actions, ran>>
    BY <1>1, <2>1, VerdictsUntouched, GateKept
  <2>2. CASE Validate(w)
    BY <1>1, <2>2, ValidateVerdicts, GateKept DEF Validate
  <2>3. CASE Decide(w)
    BY <1>1, <2>3, DecideVerdicts, GateKept DEF Decide
  <2>4. CASE Start(w)
    <3>1. VerdictsStay
      BY <2>4, CallAction, StatusVerdicts DEF Start, At, ToolExecutionStatus
    <3> QED BY <1>1, <2>4, <3>1, GateKept DEF Start
  <2>5. CASE FinishEvaluate(w)
    BY <2>5, FinishEvaluateGate
  <2>6. CASE Refuse(w) \/ Approve(w)
    BY <2>6, AnswerGate
  <2>7. CASE RunTool(w)
    BY <2>7, RunToolGate
  <2> QED BY <1>4, <2>1, <2>2, <2>3, <2>4, <2>5, <2>6, <2>7
          DEF WorkerStep, OpenTrajectory, CountEgress, Refresh, Record, SetCheckpoint,
              Quarantine, ChargeGrant, ChargeIntent, ReadContract, ReserveForApproval, Gate,
              AssertionFails
<1> QED BY <1>2, <1>3, <1>4 DEF GatewayNext

(* The gateway implements the abstract gate (ActionGate): a decision is    *)
(* final, an action waits for a human at most once, it is granted against  *)
(* an execution reserved for it, and only a granted action runs.           *)
THEOREM GatewayImplementsGate ==
  ASSUME ~Interleaved
  PROVE  GatewaySpec => ImplementsGate
<1>1. GatewayInit => ActionGate!Init
  <2> SUFFICES ASSUME GatewayInit PROVE ActionGate!Init
    OBVIOUS
  <2>1. Recorded = {} /\ Contracts = {} /\ ran = [a \in ActionId |-> 0]
    BY DEF GatewayInit, DelegationInit, IntentInit, Recorded, Contracts, Exists
  <2>2. Reserved = 0
    BY <2>1, ReservedIsSum, SumOfEmpty
  <2>3. \A a \in ActionId : VerdictOf(a) = "none"
    BY <2>1 DEF VerdictOf
  <2> QED BY <2>1, <2>2, <2>3 DEF ActionGate!Init
<1> QED BY <1>1, RefinesGate, LoopInvariant, PaidForInvariant, PTL
        DEF GatewaySpec, ImplementsGate, ActionGate!Spec
=============================================================================
