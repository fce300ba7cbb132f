---------------------- MODULE AgentGatewayTrajectoryProofs ----------------------
(***************************************************************************)
(* Split exfiltration is noticed, in every interleaving: the attempt that  *)
(* reaches the threshold is counted in one critical section and the        *)
(* trajectory quarantined in a later one, and until then there is a call   *)
(* under way that will do it.                                              *)
(***************************************************************************)
EXTENDS AgentGatewayProofs

(* An action names a parent that is recorded, or none; so its ancestors    *)
(* are all recorded before it, and never change.                           *)
KnownParent(p) == p.parent_action_id \in Recorded \cup {None}

ParentsKnown ==
  /\ \A a \in Recorded : KnownParent(actions[a].proposal)
  /\ \A w \in Worker : worker[w] # Free => KnownParent(worker[w].proposal)

EgressRecorded == \A key \in Created : trajectories[key].egress \subseteq Recorded

Analysed(key) == \A a \in trajectories[key].egress : AnalysisComplete(actions[a].proposal)

(* The call that has counted an attempt too many and will quarantine.      *)
Watches(t, key) ==
  /\ t # Free /\ TrajectoryOf(t) = key
  /\ \/ t.step = "quarantine"
     \/ /\ t.step = "refresh" \/ (t.step \in {"decide", "record"} /\ t.exceeded)
        /\ t.action \in trajectories[key].egress

EgressWatched ==
  \A key \in Created :
    SplitExfiltration(trajectories[key]) /\ Analysed(key) =>
      key \in stopped \/ \E w \in Worker : Watches(worker[w], key)

-----------------------------------------------------------------------------
(* What a step of a call, from s to t, does to the attempts counted.       *)
NamesKept(t) ==
  /\ t # Free => KnownParent(t.proposal)
  /\ \A a \in Recorded' \ Recorded : KnownParent(actions'[a].proposal)

EgressKept ==
  \A key \in Created' :
    trajectories'[key].egress = IF key \in Created THEN trajectories[key].egress ELSE {}

EgressCounted(s, t) ==
  \A key \in Created' :
    \/ trajectories'[key].egress = IF key \in Created THEN trajectories[key].egress ELSE {}
    \/ /\ key \in Created /\ s # Free /\ s.action \in Recorded
       /\ trajectories'[key].egress = trajectories[key].egress \cup {s.action}
       /\ t # Free /\ t.step = "refresh" /\ t.action = s.action /\ TrajectoryOf(t) = key

WatchKept(s, t) ==
  \A key \in Created :
    Watches(s, key) /\ SplitExfiltration(trajectories[key]) /\ Analysed(key) =>
      key \in stopped' \/ Watches(t, key)'

Noticed(w, t) ==
  /\ worker' = [worker EXCEPT ![w] = t]
  /\ NamesKept(t) /\ EgressCounted(worker[w], t) /\ WatchKept(worker[w], t)

WatchingSteps == {"refresh", "decide", "record", "quarantine"}

LEMMA EgressStill ==
  ASSUME UNCHANGED trajectories
  PROVE  EgressKept
BY DEF EgressKept, Created

LEMMA EgressReplaced ==
  ASSUME Sound, NEW key \in Key, NEW t, Replace(key, t),
         t.egress = IF key \in Created THEN trajectories[key].egress ELSE {}
  PROVE  EgressKept
<1>1. trajectories \in [Key -> Trajectory \cup {NoTrajectory}]
  BY DEF Sound, GatewayInv, GatewayTypeOK, TrajectoryTypeOK
<1>2. trajectories'[key] = t /\ \A k \in Key \ {key} : trajectories'[k] = trajectories[k]
  BY <1>1 DEF Replace
<1> QED BY <1>2 DEF EgressKept, Created

(* The steps that no trajectory's quarantine hangs on.                     *)
LEMMA Unnoticed ==
  ASSUME NEW w \in Worker, NEW t, worker' = [worker EXCEPT ![w] = t],
         worker[w] = Free \/ worker[w].step \notin WatchingSteps,
         EgressKept, NamesKept(t)
  PROVE  Noticed(w, t)
BY DEF Noticed, EgressKept, EgressCounted, WatchKept, Watches, WatchingSteps

LEMMA ReturnUnnoticed ==
  ASSUME NEW w \in Worker, Return(w), worker[w].step \notin WatchingSteps, EgressKept,
         Recorded' \subseteq Recorded
  PROVE  \E t : Noticed(w, t)
<1>1. PICK t : t = Free
  OBVIOUS
<1>2. NamesKept(t)
  BY <1>1 DEF NamesKept
<1> QED BY <1>1, <1>2, Unnoticed DEF Return

LEMMA GoToUnnoticed ==
  ASSUME Sound, ParentsKnown, NEW w \in Worker, worker[w] # Free, NEW x, GoTo(w, x),
         worker[w].step \notin WatchingSteps, EgressKept, Recorded' \subseteq Recorded
  PROVE  \E t : Noticed(w, t)
<1>1. PICK s : s = worker[w]
  OBVIOUS
<1>2. s \in Task /\ KnownParent(s.proposal)
  BY <1>1, CallHeld DEF ParentsKnown
<1>3. PICK t : t = [s EXCEPT !.step = x]
  OBVIOUS
<1>4. t.proposal = s.proposal /\ worker' = [worker EXCEPT ![w] = t]
  BY <1>1, <1>2, <1>3 DEF GoTo, Task
<1>5. NamesKept(t)
  BY <1>2, <1>4 DEF NamesKept
<1> QED BY <1>4, <1>5, Unnoticed

-----------------------------------------------------------------------------
(* The actions recorded, when the record of one is changed in place.       *)
LEMMA NoneRecorded ==
  ASSUME Sound, NEW a \in Recorded, NEW r \in AgentAction, actions' = [actions EXCEPT ![a] = r]
  PROVE  Recorded' = Recorded
BY GatewayAssumption DEF Sound, GatewayInv, GatewayTypeOK, Recorded

LEMMA NoneRecordedByUpdate ==
  ASSUME Sound, NEW a \in Recorded, NEW decision \in PolicyDecision \cup {None},
         NEW x \in ToolExecutionStatus, NEW approved \in BOOLEAN, Update(a, decision, x, approved)
  PROVE  Recorded' = Recorded
<1>1. PICK r : Rewritten(a, r)
  BY UpdateRewrites DEF Sound
<1> QED BY <1>1, NoneRecorded DEF Rewritten

LEMMA NoneRecordedByExecution ==
  ASSUME Sound, NEW a \in Recorded, NEW x \in ToolExecutionStatus, SetExecutionStatus(a, x)
  PROVE  Recorded' = Recorded
<1>1. actions[a] \in AgentAction
  BY DEF Sound, GatewayInv, GatewayTypeOK, Recorded
<1>2. PICK r : r = [actions[a] EXCEPT !.execution_status = x]
  OBVIOUS
<1>3. r \in AgentAction
  BY <1>1, <1>2 DEF AgentAction
<1>4. actions' = [actions EXCEPT ![a] = r]
  BY <1>2 DEF SetExecutionStatus
<1> QED BY <1>3, <1>4, NoneRecorded

-----------------------------------------------------------------------------
(* The steps of a call that quarantine nothing.                            *)
LEMMA NewCallNoticed ==
  ASSUME Sound, ParentsKnown, NEW w \in Worker, NewCall(w)
  PROVE  \E t : Noticed(w, t)
<1>1. ASSUME NEW p \in ActionProposals, BeginEvaluate(w, p) PROVE \E t : Noticed(w, t)
  <2>1. PICK t : t = [step |-> "open", proposal |-> p, action |-> None,
                      intent |-> session_to_intent[p.session_id],
                      seen |-> intents'[session_to_intent[p.session_id]],
                      exceeded |-> FALSE, halted |-> FALSE, decision |-> None]
    OBVIOUS
  <2>2. /\ worker' = [worker EXCEPT ![w] = t] /\ UNCHANGED <<trajectories, actions>>
        /\ worker[w] = Free /\ t.proposal = p
    BY <1>1, <2>1 DEF BeginEvaluate, MayStart
  <2>3. KnownParent(p)
    BY <1>1 DEF BeginEvaluate, ParentKnown, KnownParent
  <2>4. NamesKept(t)
    BY <2>2, <2>3 DEF NamesKept, Recorded
  <2> QED BY <2>2, <2>4, EgressStill, Unnoticed
<1>2. ASSUME NEW p \in ActionProposals, EvaluateUngoverned(w, p) PROVE \E t : Noticed(w, t)
  <2>1. PICK a \in ActionId \ Recorded :
          actions' = [actions EXCEPT ![a] = NewAction(p, None, "DENY", "DENIED")]
    BY <1>2 DEF EvaluateUngoverned
  <2>2. PICK r : r = NewAction(p, None, "DENY", "DENIED")
    OBVIOUS
  <2>3. r \in AgentAction /\ r.proposal = p
    BY <2>2, GatewayAssumption DEF NewAction, AgentAction, PolicyDecision, ToolExecutionStatus
  <2>4. Recorded' = Recorded \cup {a} /\ actions'[a] = r
    BY <2>1, <2>2, <2>3, RewrittenKeeps DEF Rewritten, Sound
  <2>5. KnownParent(p)
    BY <1>2 DEF EvaluateUngoverned, ParentKnown, KnownParent
  <2>6. PICK t : t = worker[w]
    OBVIOUS
  <2>7. t = Free /\ worker' = [worker EXCEPT ![w] = t] /\ UNCHANGED trajectories
    BY <1>2, <2>6 DEF EvaluateUngoverned, MayStart, Sound, GatewayInv, GatewayTypeOK
  <2>8. NamesKept(t)
    BY <2>3, <2>4, <2>5, <2>7 DEF NamesKept
  <2> QED BY <2>6, <2>7, <2>8, EgressStill, Unnoticed
<1>3. ASSUME NEW a \in Recorded, NEW x, worker[w] = Free,
             worker' = [worker EXCEPT ![w] =
               [step |-> x, proposal |-> actions[a].proposal, action |-> a,
                intent |-> actions[a].trajectory_intent, seen |-> NoContract,
                exceeded |-> FALSE, halted |-> FALSE, decision |-> None]],
             UNCHANGED <<trajectories, actions>>
      PROVE  \E t : Noticed(w, t)
  <2>1. PICK t : t = [step |-> x, proposal |-> actions[a].proposal, action |-> a,
                      intent |-> actions[a].trajectory_intent, seen |-> NoContract,
                      exceeded |-> FALSE, halted |-> FALSE, decision |-> None]
    OBVIOUS
  <2>2. t.proposal = actions[a].proposal
    BY <2>1
  <2>3. NamesKept(t)
    BY <1>3, <2>2 DEF NamesKept, ParentsKnown, Recorded
  <2> QED BY <1>3, <2>1, <2>3, EgressStill, Unnoticed
<1>4. ASSUME NEW a \in ActionId, NEW approved \in BOOLEAN, OpenCheckpoint(w, a, approved)
      PROVE  \E t : Noticed(w, t)
  <2>1. PICK x : x = IF approved /\ KeyOf(a) \notin stopped THEN "read_contract" ELSE "refuse"
    OBVIOUS
  <2> QED BY <1>3, <1>4, <2>1 DEF OpenCheckpoint, MayStart
<1>5. ASSUME NEW a \in ActionId, BeginExecute(w, a) PROVE \E t : Noticed(w, t)
  <2>1. PICK x : x = "start"
    OBVIOUS
  <2> QED BY <1>3, <1>5, <2>1 DEF BeginExecute, MayStart
<1> QED BY <1>1, <1>2, <1>4, <1>5 DEF NewCall

LEMMA OpenTrajectoryNoticed ==
  ASSUME Sound, ParentsKnown, NEW w \in Worker, OpenTrajectory(w)
  PROVE  \E t : Noticed(w, t)
<1>1. PICK s : s = worker[w]
  OBVIOUS
<1>2. PICK key : key = TrajectoryOf(s)
  OBVIOUS
<1>3. PICK current : current = GetOrCreate(key, s.seen)
  OBVIOUS
<1>4. /\ worker[w] # Free /\ s.step = "open" /\ key \in Key /\ s \in Task
      /\ KnownParent(s.proposal)
  BY <1>1, <1>2, Held DEF OpenTrajectory, At, Sound, ParentsKnown
<1>5. Replace(key, current)
  BY <1>1, <1>2, <1>3 DEF OpenTrajectory
<1>6. current.egress = IF key \in Created THEN trajectories[key].egress ELSE {}
  BY <1>3, <1>4 DEF GetOrCreate, NewTrajectory, Created
<1>7. EgressKept /\ Recorded' \subseteq Recorded
  BY <1>4, <1>5, <1>6, EgressReplaced DEF OpenTrajectory, Recorded
<1>8. CASE Return(w)
  BY <1>1, <1>4, <1>7, <1>8, ReturnUnnoticed DEF WatchingSteps
<1>9. CASE worker' = [worker EXCEPT ![w] = Observed(worker[w], "validate", current)]
  <2>1. PICK t : t = Observed(s, "validate", current)
    OBVIOUS
  <2>2. t.proposal = s.proposal
    BY <1>4, <2>1, ObservedType
  <2>3. NamesKept(t)
    BY <1>4, <1>7, <2>2 DEF NamesKept
  <2> QED BY <1>1, <1>4, <1>7, <1>9, <2>1, <2>3, Unnoticed DEF WatchingSteps
<1>10. \/ Return(w)
       \/ worker' = [worker EXCEPT ![w] = Observed(worker[w], "validate", current)]
  BY <1>1, <1>2, <1>3 DEF OpenTrajectory
<1> QED BY <1>8, <1>9, <1>10

LEMMA ValidateNoticed ==
  ASSUME Sound, ParentsKnown, NEW w \in Worker, Validate(w)
  PROVE  \E t : Noticed(w, t)
<1>1. PICK s : s = worker[w]
  OBVIOUS
<1>2. /\ s \in Task /\ worker[w] # Free /\ s.step = "validate" /\ KnownParent(s.proposal)
  BY <1>1, CallHeld DEF Validate, At, ParentsKnown
<1>3. EgressKept
  BY EgressStill DEF Validate
<1>4. CASE Return(w) /\ UNCHANGED actions
  BY <1>1, <1>2, <1>3, <1>4, ReturnUnnoticed DEF WatchingSteps, Recorded
<1>5. ASSUME NEW a \in ActionId \ Recorded,
             actions' = [actions EXCEPT ![a] = NewAction(s.proposal, s.intent, None, "PROPOSED")],
             worker' = [worker EXCEPT
               ![w].action = a,
               ![w].step = IF s.proposal.sensitive_egress THEN "record_egress" ELSE "decide"]
      PROVE  \E t : Noticed(w, t)
  <2>1. PICK r : r = NewAction(s.proposal, s.intent, None, "PROPOSED")
    OBVIOUS
  <2>2. r \in AgentAction /\ r.proposal = s.proposal
    BY <1>2, <2>1, GatewayAssumption, IntentServiceAssumption
    DEF NewAction, AgentAction, PolicyDecision, ToolExecutionStatus, Task
  <2>3. Recorded' = Recorded \cup {a} /\ actions'[a] = r
    BY <1>5, <2>1, <2>2, RewrittenKeeps DEF Rewritten, Sound
  <2>4. PICK t : t = [s EXCEPT !.action = a,
                !.step = IF s.proposal.sensitive_egress THEN "record_egress" ELSE "decide"]
    OBVIOUS
  <2>5. t.proposal = s.proposal /\ worker' = [worker EXCEPT ![w] = t]
    BY <1>1, <1>2, <1>5, <2>4 DEF Task, Sound, GatewayInv, GatewayTypeOK
  <2>6. NamesKept(t)
    BY <1>2, <2>2, <2>3, <2>5 DEF NamesKept
  <2> QED BY <1>1, <1>2, <1>3, <2>5, <2>6, Unnoticed DEF WatchingSteps
<1> QED BY <1>1, <1>4, <1>5 DEF Validate

LEMMA ReservationNoticed ==
  ASSUME Sound, ParentsKnown, NEW w \in Worker, ChargeGrant(w) \/ ChargeIntent(w)
  PROVE  \E t : Noticed(w, t)
<1>1. PICK s : s = worker[w]
  OBVIOUS
<1>2. /\ s \in Task /\ worker[w] # Free /\ s.step \in {"charge_grant", "charge_intent"}
      /\ KnownParent(s.proposal)
  BY <1>1, CallHeld DEF ChargeGrant, ChargeIntent, At, ParentsKnown
<1>3. EgressKept /\ Recorded' \subseteq Recorded
  BY EgressStill DEF ChargeGrant, ChargeIntent, Recorded
<1>4. CASE GoTo(w, "charge_intent") \/ GoTo(w, "finish")
  BY <1>1, <1>2, <1>3, <1>4, GoToUnnoticed DEF WatchingSteps
<1>5. CASE DenyLate(w)
  <2>1. PICK t : t = [s EXCEPT !.step = "finish", !.decision = "DENY"]
    OBVIOUS
  <2>2. t.proposal = s.proposal /\ worker' = [worker EXCEPT ![w] = t]
    BY <1>1, <1>2, <1>5, <2>1 DEF DenyLate, Task, Sound, GatewayInv, GatewayTypeOK
  <2>3. NamesKept(t)
    BY <1>2, <1>3, <2>2 DEF NamesKept
  <2> QED BY <1>1, <1>2, <1>3, <2>2, <2>3, Unnoticed DEF WatchingSteps
<1> QED BY <1>4, <1>5 DEF ChargeGrant, ChargeIntent

LEMMA SetCheckpointNoticed ==
  ASSUME Sound, ParentsKnown, NEW w \in Worker, SetCheckpoint(w)
  PROVE  \E t : Noticed(w, t)
<1>1. PICK s : s = worker[w]
  OBVIOUS
<1>2. PICK key : key = TrajectoryOf(s)
  OBVIOUS
<1>3. /\ worker[w] # Free /\ s.step = "pend" /\ Recorded' \subseteq Recorded
      /\ key \in Created /\ key \in Key /\ trajectories[key] \in Trajectory
  BY <1>1, <1>2, Working DEF SetCheckpoint, At, Evaluating, Sound, Placed, Created, Recorded
<1>4. CASE SetPending(key, s.action) /\ GoTo(w, "finish")
  <2>1. PICK old : old = trajectories[key]
    OBVIOUS
  <2>2. PICK t : t = [old EXCEPT !.evaluated = Evaluated(old, s.action),
                                 !.last = s.action, !.pending = s.action]
    OBVIOUS
  <2>3. Replace(key, t) /\ t.egress = old.egress
    BY <1>3, <1>4, <2>1, <2>2 DEF SetPending, Trajectory
  <2>4. EgressKept
    BY <1>3, <2>1, <2>3, EgressReplaced
  <2> QED BY <1>1, <1>3, <1>4, <2>4, GoToUnnoticed DEF WatchingSteps
<1>5. CASE Return(w) /\ UNCHANGED trajectories
  BY <1>1, <1>3, <1>5, EgressStill, ReturnUnnoticed DEF WatchingSteps
<1> QED BY <1>1, <1>2, <1>4, <1>5 DEF SetCheckpoint

LEMMA FinishEvaluateNoticed ==
  ASSUME Sound, ParentsKnown, NEW w \in Worker, FinishEvaluate(w)
  PROVE  \E t : Noticed(w, t)
<1>1. PICK s : s = worker[w]
  OBVIOUS
<1>2. s \in Task /\ worker[w] # Free /\ s.step = "finish" /\ s.action \in Recorded
  BY <1>1, CallHeld, CallAction DEF FinishEvaluate, At
<1>3. PICK a, d, x : a = s.action /\ d = s.decision /\ x = StatusOf(s.decision)
  OBVIOUS
<1>4. d \in PolicyDecision \cup {None} /\ x \in ToolExecutionStatus
  BY <1>2, <1>3 DEF Task, StatusOf, ToolExecutionStatus
<1>5. Update(a, d, x, FALSE)
  BY <1>1, <1>3 DEF FinishEvaluate
<1>6. Recorded' = Recorded
  BY <1>2, <1>3, <1>4, <1>5, NoneRecordedByUpdate
<1> QED BY <1>1, <1>2, <1>6, EgressStill, ReturnUnnoticed DEF FinishEvaluate, WatchingSteps

LEMMA ReadContractNoticed ==
  ASSUME Sound, ParentsKnown, NEW w \in Worker, ReadContract(w)
  PROVE  \E t : Noticed(w, t)
<1>1. PICK s : s = worker[w]
  OBVIOUS
<1>2. s \in Task /\ worker[w] # Free /\ s.step = "read_contract" /\ KnownParent(s.proposal)
  BY <1>1, CallHeld DEF ReadContract, At, ParentsKnown
<1>3. PICK i, c, x : worker' = [worker EXCEPT ![w].intent = i, ![w].seen = c, ![w].step = x]
  BY DEF ReadContract
<1>4. PICK t : t = [s EXCEPT !.intent = i, !.seen = c, !.step = x]
  OBVIOUS
<1>5. t.proposal = s.proposal /\ worker' = [worker EXCEPT ![w] = t]
  BY <1>1, <1>2, <1>3, <1>4 DEF Task, Sound, GatewayInv, GatewayTypeOK
<1>6. EgressKept /\ NamesKept(t)
  BY <1>2, <1>5, EgressStill DEF ReadContract, NamesKept, Recorded
<1> QED BY <1>1, <1>2, <1>5, <1>6, Unnoticed DEF WatchingSteps

LEMMA StepAsideNoticed ==
  ASSUME Sound, ParentsKnown, NEW w \in Worker,
         ReserveForApproval(w) \/ Gate(w) \/ AssertionFails(w)
  PROVE  \E t : Noticed(w, t)
<1>1. worker[w] # Free /\ worker[w].step \notin WatchingSteps
  BY DEF ReserveForApproval, Gate, AssertionFails, At, WatchingSteps
<1>2. EgressKept /\ Recorded' \subseteq Recorded
  BY EgressStill DEF ReserveForApproval, Gate, AssertionFails, Recorded
<1>3. Return(w) \/ \E x \in {"approve", "refuse", "start"} : GoTo(w, x)
  BY DEF ReserveForApproval, Gate, AssertionFails
<1> QED BY <1>1, <1>2, <1>3, GoToUnnoticed, ReturnUnnoticed

LEMMA ClearPendingKeepsEgress ==
  ASSUME Sound, NEW a, Placed(a), ClearPending(KeyOf(a), a)
  PROVE  EgressKept
<1>1. PICK key : key = KeyOf(a)
  OBVIOUS
<1>2. key \in Key /\ key \in Created /\ trajectories[key] \in Trajectory
  BY <1>1, PlacedTypes DEF Placed, Sound
<1>3. PICK t : t = [trajectories[key] EXCEPT !.pending = IF @ = a THEN None ELSE @]
  OBVIOUS
<1>4. t.egress = trajectories[key].egress /\ Replace(key, t)
  BY <1>1, <1>2, <1>3 DEF Trajectory, ClearPending
<1> QED BY <1>2, <1>4, EgressReplaced

LEMMA ResolutionNoticed ==
  ASSUME Sound, ParentsKnown, NEW w \in Worker, Refuse(w) \/ Approve(w)
  PROVE  \E t : Noticed(w, t)
<1>1. PICK a : a = worker[w].action
  OBVIOUS
<1>2. /\ a \in Recorded /\ Placed(a) /\ worker[w] # Free /\ worker[w].step \notin WatchingSteps
  BY <1>1, CallAction, Resolving DEF Refuse, Approve, At, Sound, WatchingSteps
<1>3. /\ ClearPending(KeyOf(a), a)
      /\ Update(a, "DENY", "DENIED", FALSE) \/ Update(a, "ALLOW", "AUTHORIZED", TRUE)
      /\ Return(w) \/ GoTo(w, "gate")
  BY <1>1 DEF Refuse, Approve
<1>4. Recorded' = Recorded
  BY <1>2, <1>3, NoneRecordedByUpdate DEF PolicyDecision, ToolExecutionStatus
<1>5. EgressKept
  BY <1>2, <1>3, ClearPendingKeepsEgress
<1> QED BY <1>2, <1>3, <1>4, <1>5, GoToUnnoticed, ReturnUnnoticed

LEMMA ExecutionNoticed ==
  ASSUME Sound, ParentsKnown, NEW w \in Worker, Start(w) \/ RunTool(w)
  PROVE  \E t : Noticed(w, t)
<1>1. PICK a : a = worker[w].action
  OBVIOUS
<1>2. /\ a \in Recorded /\ Placed(a) /\ worker[w] # Free /\ worker[w].step \notin WatchingSteps
  BY <1>1, CallAction, Resolving DEF Start, RunTool, At, Sound, WatchingSteps
<1>3. PICK key : key = KeyOf(a)
  OBVIOUS
<1>4. key \in Created /\ key \in Key /\ trajectories[key] \in Trajectory
  BY <1>2, <1>3, PlacedTypes DEF Placed, Sound
<1>5. Recorded' = Recorded
  BY <1>1, <1>2, NoneRecordedByExecution DEF Start, RunTool, ToolExecutionStatus
<1>6. RecordExecution(key, a) \/ UNCHANGED trajectories
  BY <1>1, <1>3 DEF Start, RunTool
<1>7. PICK t : t = [trajectories[key] EXCEPT !.executed = @ \cup {a}]
  OBVIOUS
<1>8. t.egress = trajectories[key].egress
  BY <1>4, <1>7 DEF Trajectory
<1>9. EgressKept
  BY <1>4, <1>6, <1>7, <1>8, EgressReplaced, EgressStill DEF RecordExecution
<1>10. GoTo(w, "run") \/ Return(w)
  BY DEF Start, RunTool
<1> QED BY <1>2, <1>5, <1>9, <1>10, GoToUnnoticed, ReturnUnnoticed

-----------------------------------------------------------------------------
(* The steps of the call that quarantines.                                 *)
LEMMA CountEgressNoticed ==
  ASSUME Sound, ParentsKnown, NEW w \in Worker, CountEgress(w)
  PROVE  \E t : Noticed(w, t)
<1>1. PICK s : s = worker[w]
  OBVIOUS
<1>2. PICK key : key = TrajectoryOf(s)
  OBVIOUS
<1>3. /\ s \in Task /\ worker[w] # Free /\ s.step = "record_egress" /\ s.action \in Recorded
      /\ key \in Created /\ key \in Key /\ trajectories[key] \in Trajectory
      /\ KnownParent(s.proposal)
  BY <1>1, <1>2, CallHeld, CallAction, Working
  DEF CountEgress, At, Evaluating, Sound, Placed, Created, ParentsKnown
<1>4. PICK new : new = [trajectories[key] EXCEPT !.egress = @ \cup {s.action}]
  OBVIOUS
<1>5. new.egress = trajectories[key].egress \cup {s.action} /\ Replace(key, new)
  BY <1>1, <1>2, <1>3, <1>4 DEF CountEgress, RecordEgress, Trajectory
<1>6. trajectories'[key] = new /\ \A k \in Key \ {key} : trajectories'[k] = trajectories[k]
  BY <1>3, <1>5 DEF Replace, Sound, GatewayInv, GatewayTypeOK, TrajectoryTypeOK
<1>7. PICK t : t = [s EXCEPT !.step = "refresh"]
  OBVIOUS
<1>8. /\ t.step = "refresh" /\ t.action = s.action /\ t.proposal = s.proposal
      /\ TrajectoryOf(t) = key /\ t # Free /\ worker' = [worker EXCEPT ![w] = t]
  BY <1>1, <1>2, <1>3, <1>7, GatewayAssumption DEF CountEgress, GoTo, Task, TrajectoryOf
<1>9. NamesKept(t)
  BY <1>3, <1>8 DEF NamesKept, CountEgress, Recorded
<1>10. EgressCounted(s, t)
  BY <1>1, <1>3, <1>5, <1>6, <1>8 DEF EgressCounted, Created
<1>11. WatchKept(s, t)
  BY <1>3 DEF WatchKept, Watches
<1> QED BY <1>1, <1>8, <1>9, <1>10, <1>11 DEF Noticed

LEMMA Counted ==
  ASSUME EgressKept, NEW s, NEW t
  PROVE  EgressCounted(s, t)
BY DEF EgressKept, EgressCounted

LEMMA RefreshNoticed ==
  ASSUME Sound, ParentsKnown, NEW w \in Worker, Refresh(w)
  PROVE  \E t : Noticed(w, t)
<1>1. PICK s : s = worker[w]
  OBVIOUS
<1>2. PICK key : key = TrajectoryOf(s)
  OBVIOUS
<1>3. /\ s \in Task /\ worker[w] # Free /\ s.step = "refresh" /\ KnownParent(s.proposal)
  BY <1>1, CallHeld DEF Refresh, At, ParentsKnown
<1>4. PICK t : t = Observed(s, "decide", trajectories[key])
  OBVIOUS
<1>5. worker' = [worker EXCEPT ![w] = t] /\ UNCHANGED <<delegation_vars, trajectories, actions>>
  BY <1>1, <1>2, <1>4 DEF Refresh
<1>6. /\ t \in Task /\ t.step = "decide" /\ t.action = s.action /\ t.proposal = s.proposal
      /\ TrajectoryOf(t) = key
  BY <1>2, <1>3, <1>4, ObservedType DEF TrajectoryOf
<1>7. t.exceeded = (key \notin stopped /\ SplitExfiltration(trajectories[key]))
  <2> DEFINE h == key \in stopped
             e == ~h /\ SplitExfiltration(trajectories[key])
  <2>1. t = [s EXCEPT !.step = "decide", !.halted = h, !.exceeded = e]
    BY <1>2, <1>4 DEF Observed
  <2>2. e = (key \notin stopped /\ SplitExfiltration(trajectories[key]))
    OBVIOUS
  <2> HIDE DEF h, e
  <2> QED BY <1>3, <2>1, <2>2 DEF Task
<1>8. NamesKept(t) /\ EgressKept
  BY <1>3, <1>5, <1>6, EgressStill DEF NamesKept, Recorded
<1>9. WatchKept(s, t)
  <2> SUFFICES ASSUME NEW k \in Created, Watches(s, k), SplitExfiltration(trajectories[k]),
                      k \notin stopped'
               PROVE  Watches(t, k)'
    BY DEF WatchKept
  <2>1. k = key /\ s.action \in trajectories[key].egress /\ key \notin stopped
    BY <1>2, <1>3, <1>5 DEF Watches, delegation_vars
  <2> QED BY <1>5, <1>6, <1>7, <2>1, GatewayAssumption DEF Watches, TrajectoryOf
<1> QED BY <1>1, <1>5, <1>8, <1>9, Counted DEF Noticed

LEMMA DecideNoticed ==
  ASSUME Sound, ParentsKnown, NEW w \in Worker, Decide(w)
  PROVE  \E t : Noticed(w, t)
<1>1. PICK s : s = worker[w]
  OBVIOUS
<1>2. /\ s \in Task /\ worker[w] # Free /\ s.step = "decide" /\ KnownParent(s.proposal)
      /\ s.action \in Recorded /\ actions[s.action] \in AgentAction
      /\ s.proposal.delegation_id \in DelegationId \cup {None, UnknownGrant}
  BY <1>1, CallHeld, CallAction DEF Decide, At, ParentsKnown, Task, ActionProposal
<1>3. PICK d : d = IF ResolvedGrant(s) THEN s.proposal.delegation_id ELSE None
  OBVIOUS
<1>4. d \in DelegationId \cup {None}
  BY <1>3 DEF ResolvedGrant, Issued
<1>5. PICK r : r = [actions[s.action] EXCEPT !.delegation_id = d]
  OBVIOUS
<1>6. r \in AgentAction
  BY <1>2, <1>4, <1>5 DEF AgentAction
<1>7. actions' = [actions EXCEPT ![s.action] = r]
  BY <1>1, <1>3, <1>5 DEF Decide, Sound, GatewayInv, GatewayTypeOK
<1>8. Recorded' = Recorded
  BY <1>2, <1>6, <1>7, NoneRecorded
<1>9. PICK t : t = [s EXCEPT !.step = "record", !.decision = Verdict(s)]
  OBVIOUS
<1>10. /\ t.step = "record" /\ t.action = s.action /\ t.proposal = s.proposal
       /\ t.exceeded = s.exceeded /\ TrajectoryOf(t) = TrajectoryOf(s)
       /\ worker' = [worker EXCEPT ![w] = t]
  BY <1>1, <1>2, <1>9 DEF Decide, Task, TrajectoryOf, Sound, GatewayInv, GatewayTypeOK
<1>11. t # Free
  <2>1. PICK v \in PolicyDecision : v = Verdict(s)
    BY VerdictType
  <2>2. t = [s EXCEPT !.step = "record", !.decision = v]
    BY <1>9, <2>1
  <2>3. t \in Task
    BY <1>2, <2>2 DEF Task
  <2> QED BY <2>3, GatewayAssumption
<1>12. NamesKept(t) /\ EgressKept /\ UNCHANGED trajectories
  BY <1>2, <1>8, <1>10, EgressStill DEF NamesKept, Decide
<1>13. WatchKept(s, t)
  BY <1>2, <1>10, <1>11, <1>12 DEF WatchKept, Watches, TrajectoryOf
<1> QED BY <1>1, <1>10, <1>12, <1>13, Counted DEF Noticed

(* The rule finds the trajectory analysed, since the attempt of the call   *)
(* is one of those the count was made of.                                  *)
LEMMA RecordNoticed ==
  ASSUME Sound, ParentsKnown, NEW w \in Worker, Record(w)
  PROVE  \E t : Noticed(w, t)
<1>1. PICK s : s = worker[w]
  OBVIOUS
<1>2. PICK key : key = TrajectoryOf(s)
  OBVIOUS
<1>3. /\ s \in Task /\ worker[w] # Free /\ s.step = "record"
      /\ s.proposal = actions[s.action].proposal /\ KnownParent(s.proposal)
      /\ key \in Created /\ key \in Key /\ trajectories[key] \in Trajectory
  BY <1>1, <1>2, CallHeld, CallAction, Working
  DEF Record, At, Evaluating, Sound, Placed, Created, ParentsKnown
<1>4. PICK new : new = [trajectories[key] EXCEPT !.evaluated = Evaluated(trajectories[key], s.action),
                                                 !.last = s.action]
  OBVIOUS
<1>5. Replace(key, new) /\ new.egress = trajectories[key].egress
  BY <1>1, <1>2, <1>3, <1>4 DEF Record, RecordEvaluation, Trajectory
<1>6. EgressKept
  BY <1>3, <1>5, EgressReplaced
<1>7. PICK x : x = AfterRecord(s)
  OBVIOUS
<1>8. x \in {"quarantine", "pend", "charge_grant", "charge_intent", "finish"}
  BY <1>7 DEF AfterRecord, AfterRecordByDecision
<1>9. PICK t : t = [s EXCEPT !.step = x]
  OBVIOUS
<1>10. /\ t.step = x /\ t.proposal = s.proposal /\ TrajectoryOf(t) = key
       /\ worker' = [worker EXCEPT ![w] = t]
  BY <1>1, <1>2, <1>3, <1>7, <1>9 DEF Record, GoTo, Task, TrajectoryOf
<1>11. t # Free
  BY <1>3, <1>8, <1>9, GatewayAssumption DEF Task
<1>12. NamesKept(t)
  BY <1>3, <1>10 DEF NamesKept, Record, Recorded
<1>13. WatchKept(s, t)
  <2> SUFFICES ASSUME NEW k \in Created, Watches(s, k), Analysed(k)
               PROVE  Watches(t, k)'
    BY DEF WatchKept
  <2>1. k = key /\ s.exceeded /\ AnalysisComplete(s.proposal)
    BY <1>2, <1>3 DEF Watches, Analysed
  <2>2. x = "quarantine"
    BY <1>7, <2>1 DEF AfterRecord, Exceeds
  <2> QED BY <1>10, <1>11, <2>1, <2>2 DEF Watches, TrajectoryOf
<1> QED BY <1>1, <1>6, <1>10, <1>12, <1>13, Counted DEF Noticed

LEMMA QuarantineNoticed ==
  ASSUME Sound, ParentsKnown, NEW w \in Worker, Quarantine(w)
  PROVE  \E t : Noticed(w, t)
<1>1. PICK s : s = worker[w]
  OBVIOUS
<1>2. /\ s \in Task /\ worker[w] # Free /\ s.step = "quarantine" /\ KnownParent(s.proposal)
  BY <1>1, CallHeld DEF Quarantine, At, ParentsKnown
<1>3. PICK t : t = [s EXCEPT !.step = "finish"]
  OBVIOUS
<1>4. t.proposal = s.proposal /\ worker' = [worker EXCEPT ![w] = t]
  BY <1>1, <1>2, <1>3 DEF Quarantine, GoTo, Task
<1>5. NamesKept(t) /\ EgressKept
  BY <1>2, <1>4, EgressStill DEF NamesKept, Quarantine, Recorded
<1>6. TrajectoryOf(s) \in stopped'
  BY <1>1 DEF Quarantine, StopTrajectory, TrajectoryOf
<1>7. WatchKept(s, t)
  BY <1>6 DEF WatchKept, Watches
<1> QED BY <1>1, <1>4, <1>5, <1>7, Counted DEF Noticed

LEMMA WorkerNoticed ==
  ASSUME Sound, ParentsKnown, NEW w \in Worker, NewCall(w) \/ WorkerStep(w)
  PROVE  \E t : Noticed(w, t)
<1>1. CASE NewCall(w)
  BY <1>1, NewCallNoticed
<1>2. CASE WorkerStep(w)
  BY <1>2, OpenTrajectoryNoticed, ValidateNoticed, CountEgressNoticed, RefreshNoticed,
     DecideNoticed, RecordNoticed, SetCheckpointNoticed, QuarantineNoticed, ReservationNoticed,
     FinishEvaluateNoticed, ReadContractNoticed, StepAsideNoticed, ResolutionNoticed,
     ExecutionNoticed
  DEF WorkerStep
<1> QED BY <1>1, <1>2

-----------------------------------------------------------------------------
(* The ancestors of a recorded action are what they were.                  *)
LEMMA CausesStable ==
  ASSUME ParentsKnown, HistoryKept, NEW p \in Recorded
  PROVE  Causes(p)' = Causes(p)
<1>1. /\ Recorded \subseteq Recorded'
      /\ \A a \in Recorded : /\ actions'[a].proposal = actions[a].proposal
                             /\ actions[a].proposal.parent_action_id \in Recorded \cup {None}
  BY DEF HistoryKept, ParentsKnown, KnownParent
<1>2. None \notin Recorded' /\ None \notin Recorded
  BY TrajectoryAssumption DEF Recorded
<1>3. ASSUME NEW b \in Causes(p)' PROVE b \in Causes(p)
  <2>1. \A S \in SUBSET Recorded : p \in S /\ CausesClosed(S) => b \in S
    <3> SUFFICES ASSUME NEW S \in SUBSET Recorded, p \in S, CausesClosed(S) PROVE b \in S
      OBVIOUS
    <3>1. S \in SUBSET Recorded' /\ CausesClosed(S)'
      BY <1>1, <1>2 DEF CausesClosed
    <3> QED BY <3>1 DEF Causes, CausesClosed
  <2>2. CausesClosed(Recorded)
    BY DEF CausesClosed
  <2>3. b \in Recorded
    BY <2>1, <2>2
  <2> QED BY <2>1, <2>3 DEF Causes
<1>4. ASSUME NEW b \in Causes(p) PROVE b \in Causes(p)'
  <2>1. \A S \in SUBSET (Recorded') : p \in S /\ CausesClosed(S)' => b \in S
    <3> SUFFICES ASSUME NEW S \in SUBSET (Recorded'), p \in S, CausesClosed(S)' PROVE b \in S
      BY DEF CausesClosed
    <3>1. PICK R : R = S \cap Recorded
      OBVIOUS
    <3>2. R \in SUBSET Recorded /\ p \in R /\ CausesClosed(R)
      BY <1>1, <3>1 DEF CausesClosed
    <3> QED BY <3>1, <3>2 DEF Causes
  <2>2. b \in Recorded'
    BY <1>1 DEF Causes
  <2> QED BY <2>1, <2>2 DEF Causes, CausesClosed
<1> QED BY <1>3, <1>4

LEMMA AnalysisStable ==
  ASSUME ParentsKnown, HistoryKept, NEW a \in Recorded
  PROVE  AnalysisComplete(actions[a].proposal)' <=> AnalysisComplete(actions[a].proposal)
<1>1. PICK q : q = actions[a].proposal.parent_action_id
  OBVIOUS
<1>2. actions'[a].proposal.parent_action_id = q /\ q \in Recorded \cup {None}
  BY <1>1 DEF HistoryKept, ParentsKnown, KnownParent
<1>3. q # None => Causes(q)' = Causes(q)
  BY <1>2, CausesStable
<1>4. AnalysisComplete(actions[a].proposal) <=> q = None \/ Cardinality(Causes(q)) <= MaxActionDepth
  BY <1>1 DEF AnalysisComplete
<1>5. AnalysisComplete(actions[a].proposal)'
        <=> q = None \/ Cardinality(Causes(q)') <= MaxActionDepth
  BY <1>2 DEF AnalysisComplete, Causes, CausesClosed, Recorded
<1> QED BY <1>3, <1>4, <1>5

-----------------------------------------------------------------------------
(* A quarantine is never lifted.                                           *)
LEMMA StoppedStays ==
  ASSUME [DelegationNext]_delegation_vars
  PROVE  stopped \subseteq stopped'
BY DEF DelegationNext, delegation_vars, BeginPropose, Reject, BeginResolve, Finish,
   RevokeDelegation, CloseDelegation, ReserveActionDispatch, StopTrajectory, IntentStep

(* The inductive invariant, and what it needs of one step.                 *)
EgressInv == ParentsKnown /\ EgressRecorded /\ EgressWatched

LEMMA ParentsStayKnown ==
  ASSUME Sound, HistoryKept, ParentsKnown, NEW w \in Worker, NEW t, Noticed(w, t)
  PROVE  ParentsKnown'
<1>1. /\ \A v \in Worker : worker'[v] = IF v = w THEN t ELSE worker[v]
      /\ Recorded \subseteq Recorded'
  BY DEF Noticed, Sound, GatewayInv, GatewayTypeOK, HistoryKept
<1>2. \A a \in Recorded' : actions'[a].proposal.parent_action_id \in Recorded' \cup {None}
  <2> SUFFICES ASSUME NEW a \in Recorded'
               PROVE  actions'[a].proposal.parent_action_id \in Recorded \cup {None}
    BY <1>1
  <2>1. CASE a \in Recorded
    BY <2>1 DEF ParentsKnown, HistoryKept, KnownParent
  <2>2. CASE a \notin Recorded
    BY <2>2 DEF Noticed, NamesKept, KnownParent
  <2> QED BY <2>1, <2>2
<1>3. \A v \in Worker :
        worker'[v] # Free => worker'[v].proposal.parent_action_id \in Recorded' \cup {None}
  BY <1>1 DEF ParentsKnown, Noticed, NamesKept, KnownParent
<1> QED BY <1>2, <1>3 DEF ParentsKnown, KnownParent

LEMMA EgressStaysRecorded ==
  ASSUME HistoryKept, EgressRecorded, NEW s, NEW t, EgressCounted(s, t)
  PROVE  EgressRecorded'
<1>1. Recorded \subseteq Recorded'
  BY DEF HistoryKept
<1> QED BY <1>1 DEF EgressRecorded, EgressCounted

(* A trajectory whose attempts did not change is watched as it was; one    *)
(* that got an attempt more is watched by the call that counted it.        *)
LEMMA EgressStaysWatched ==
  ASSUME Sound, EgressInv, HistoryKept, stopped \subseteq stopped', EgressThreshold # 0,
         NEW w \in Worker, NEW t, Noticed(w, t)
  PROVE  EgressWatched'
<1>1. \A v \in Worker : worker'[v] = IF v = w THEN t ELSE worker[v]
  BY DEF Noticed, Sound, GatewayInv, GatewayTypeOK
<1> SUFFICES ASSUME NEW key \in Created', SplitExfiltration(trajectories[key])',
                    Analysed(key)', key \notin stopped'
             PROVE  \E v \in Worker : Watches(worker[v], key)'
  BY DEF EgressWatched
<1>2. CASE trajectories'[key].egress = IF key \in Created THEN trajectories[key].egress ELSE {}
  <2>1. key \in Created
    <3> SUFFICES ASSUME key \notin Created PROVE FALSE
      OBVIOUS
    <3>1. Cardinality(trajectories'[key].egress) = 0
      BY <1>2, FS_EmptySet
    <3> QED BY <3>1, TrajectoryAssumption DEF SplitExfiltration
  <2>2. trajectories'[key].egress = trajectories[key].egress
    BY <1>2, <2>1
  <2>3. SplitExfiltration(trajectories[key])
    BY <2>2 DEF SplitExfiltration
  <2>4. Analysed(key)
    <3> SUFFICES ASSUME NEW a \in trajectories[key].egress
                 PROVE  AnalysisComplete(actions[a].proposal)
      BY DEF Analysed
    <3>1. a \in Recorded
      BY <2>1 DEF EgressInv, EgressRecorded
    <3>2. AnalysisComplete(actions[a].proposal)'
      BY <2>2 DEF Analysed
    <3> QED BY <3>1, <3>2, AnalysisStable DEF EgressInv
  <2>5. key \notin stopped
    OBVIOUS
  <2>6. PICK v \in Worker : Watches(worker[v], key)
    BY <2>1, <2>3, <2>4, <2>5 DEF EgressInv, EgressWatched
  <2>7. CASE v = w
    <3>1. Watches(t, key)'
      BY <2>1, <2>3, <2>4, <2>6, <2>7 DEF Noticed, WatchKept
    <3> QED BY <1>1, <3>1 DEF Watches
  <2>8. CASE v # w
    BY <1>1, <2>2, <2>6, <2>8 DEF Watches, TrajectoryOf
  <2> QED BY <2>7, <2>8
<1>3. CASE /\ trajectories'[key].egress = trajectories[key].egress \cup {worker[w].action}
           /\ t # Free /\ t.step = "refresh" /\ t.action = worker[w].action
           /\ TrajectoryOf(t) = key
  BY <1>1, <1>3 DEF Watches, TrajectoryOf
<1> QED BY <1>2, <1>3 DEF Noticed, EgressCounted

LEMMA EgressInvStep ==
  ASSUME Sound, EgressInv, EgressThreshold # 0, [GatewayNext]_gateway_vars
  PROVE  EgressInv'
<1>1. stopped \subseteq stopped'
  BY GatewayStep, StoppedStays DEF Sound
<1>2. CASE ControlPlane \/ UNCHANGED gateway_vars
  <2>1. UNCHANGED <<trajectories, actions, worker>>
    BY <1>2 DEF ControlPlane, gateway_vars
  <2>2. Recorded' = Recorded /\ Created' = Created
    BY <2>1 DEF Recorded, Created
  <2>3. ParentsKnown' /\ EgressRecorded'
    BY <2>1, <2>2 DEF EgressInv, ParentsKnown, KnownParent, EgressRecorded
  <2>4. \A a : AnalysisComplete(actions[a].proposal)' <=> AnalysisComplete(actions[a].proposal)
    BY <2>1, <2>2 DEF AnalysisComplete, Causes, CausesClosed
  <2>5. EgressWatched'
    BY <1>1, <2>1, <2>2, <2>4
    DEF EgressInv, EgressWatched, SplitExfiltration, Analysed, Watches, TrajectoryOf
  <2> QED BY <2>3, <2>5 DEF EgressInv
<1>3. ASSUME NEW w \in Worker, NewCall(w) \/ WorkerStep(w) PROVE EgressInv'
  <2>1. PICK t : Noticed(w, t)
    BY <1>3, WorkerNoticed DEF EgressInv
  <2>2. HistoryKept
    <3>1. PICK u : StepOK(w, u)
      BY <1>3, WorkerStepOK DEF Sound
    <3> QED BY <3>1 DEF StepOK
  <2>3. EgressRecorded'
    BY <2>1, <2>2, EgressStaysRecorded DEF EgressInv, Noticed
  <2> QED BY <1>1, <2>1, <2>2, <2>3, ParentsStayKnown, EgressStaysWatched DEF EgressInv
<1> QED BY <1>2, <1>3 DEF GatewayNext

LEMMA EgressInvStart == GatewayInit => EgressInv
BY DEF GatewayInit, TrajectoryInit, EgressInv, ParentsKnown, EgressRecorded, EgressWatched,
   Recorded, Created

(* Whatever the interleaving, no call ends without having quarantined the  *)
(* trajectory that reached the limit of egress attempts: between calls     *)
(* every such trajectory whose attempts could be analysed is quarantined.  *)
(* (A limit of no attempt at all would condemn a trajectory at its birth,  *)
(* before any rule looks at it.)                                           *)
THEOREM EgressQuarantinesSafe ==
  ASSUME EgressThreshold # 0
  PROVE  GatewaySpec => []EgressQuarantines
<1>1. Sound /\ EgressInv /\ [GatewayNext]_gateway_vars => EgressInv'
  BY EgressInvStep
<1>2. GatewaySpec => []Sound
  <2>1. GatewayInv /\ LineageInv /\ Covered => Sound
    BY DEF Sound
  <2> QED BY <2>1, CoveredInvariant, GatewayInvariant, GatewayUsesDelegation, LineageInvariant,
             PTL
<1>3. EgressInv => EgressQuarantines
  BY DEF EgressInv, EgressWatched, EgressQuarantines, Idling, Watches, Analysed
<1> QED BY <1>1, <1>2, <1>3, EgressInvStart, PTL DEF GatewaySpec
=============================================================================
