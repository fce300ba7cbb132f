--------------------------- MODULE TrajectoryStore ---------------------------
(***************************************************************************)
(* The TrajectoryStore (trajectory/store.py): what one agent did under one *)
(* contract, the checkpoint that waits for a human, and the count of its   *)
(* attempts to send sensitive data out.  Every method is atomic under the  *)
(* store's lock.  A trajectory is found by its sovereign key; that it is   *)
(* quarantined is `stopped` of the delegation system, which reads it.      *)
(***************************************************************************)
EXTENDS DelegationService, Sequences

CONSTANTS ActionId,         \* the uuids that will be generated for actions
          NoTrajectory,
          EgressThreshold   \* sensitive_egress_count_threshold

Trajectory == [effective_authority: Envelope,
               evaluated: Seq(ActionId),            \* evaluated_action_ids
               last: ActionId \cup {None},          \* last_action_id
               pending: ActionId \cup {None},       \* pending_approval_action_id
               egress: SUBSET ActionId,             \* recorded_egress_action_ids
               executed: SUBSET ActionId]           \* executed_action_ids

ASSUME TrajectoryAssumption ==
  /\ None \notin ActionId
  /\ NoTrajectory \notin Trajectory
  /\ EgressThreshold \in Nat

VARIABLE trajectories   \* by <<intent, agent>>; the intent fixes the session

Key == IntentId \X Agent

Created == {k \in Key : trajectories[k] # NoTrajectory}

TrajectoryTypeOK == trajectories \in [Key -> Trajectory \cup {NoTrajectory}]

TrajectoryInit == trajectories = [k \in Key |-> NoTrajectory]

-----------------------------------------------------------------------------
NewTrajectory(c) ==
  [effective_authority |-> RootEnvelope(c), evaluated |-> <<>>, last |-> None,
   pending |-> None, egress |-> {}, executed |-> {}]

(* get_or_create_trajectory: a quarantined trajectory is never replaced.   *)
GetOrCreate(key, c) ==
  IF trajectories[key] = NoTrajectory THEN NewTrajectory(c) ELSE trajectories[key]

(* validate_continuation: the first action has no parent, the next ones    *)
(* have the last as theirs.                                                *)
IsContinuationUnlessSet(key, t, parent) == key \notin stopped /\ (parent = None \/ parent = t.last)
IsContinuation(key, t, parent) == key \notin stopped /\ parent = t.last

SplitExfiltration(t) == Cardinality(t.egress) >= EgressThreshold

Evaluated(t, a) ==
  IF \E n \in DOMAIN t.evaluated : t.evaluated[n] = a THEN t.evaluated
  ELSE Append(t.evaluated, a)

Replace(key, t) == trajectories' = [trajectories EXCEPT ![key] = t]

RecordEvaluation(key, a) ==
  LET t == trajectories[key]
  IN  Replace(key, [t EXCEPT !.evaluated = Evaluated(t, a), !.last = a])

MayPend(key, a) == trajectories[key].pending \in {None, a}

SetPending(key, a) ==
  LET t == trajectories[key]
  IN  Replace(key, [t EXCEPT !.evaluated = Evaluated(t, a), !.last = a, !.pending = a])

ClearPending(key, a) ==
  LET t == trajectories[key]
  IN  Replace(key, [t EXCEPT !.pending = IF @ = a THEN None ELSE @])

(* record_sensitive_egress_attempt: counted once per action, sent or not.  *)
RecordEgress(key, a) == Replace(key, [trajectories[key] EXCEPT !.egress = @ \cup {a}])

RecordExecution(key, a) == Replace(key, [trajectories[key] EXCEPT !.executed = @ \cup {a}])
=============================================================================
