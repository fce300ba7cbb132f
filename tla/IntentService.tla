---------------------------- MODULE IntentService ----------------------------
(***************************************************************************)
(* The IntentService of intent/service.py: one process-local table of      *)
(* contracts, an index from a session to the contract that governs it, and *)
(* a mutex that makes every method one atomic step.  A call that raises    *)
(* changes nothing, so it is the absence of a step.                        *)
(***************************************************************************)
EXTENDS IntentContract

CONSTANTS IntentId,        \* the uuids the service will generate
          CreateRequests,  \* the requests the control plane sends
          NarrowRequests,
          NoContract,
          MaxTime          \* bound of the clock

ASSUME IntentServiceAssumption ==
  /\ CreateRequests \subseteq CreateRequest
  /\ NarrowRequests \subseteq NarrowRequest
  /\ NoContract \notin Contract
  /\ None \notin IntentId
  /\ MaxTime \in Nat

VARIABLES intents,            \* _intents
          session_to_intent,  \* _session_to_intent
          now                 \* datetime.now(UTC)

intent_vars == <<intents, session_to_intent, now>>

IntentTypeOK ==
  /\ intents \in [IntentId -> Contract \cup {NoContract}]
  /\ session_to_intent \in [Session -> IntentId \cup {None}]
  /\ now \in 0 .. MaxTime

Exists(i) == intents[i] # NoContract

Live(i) == Exists(i) /\ IsActive(intents[i], now)

IntentInit ==
  /\ intents = [i \in IntentId |-> NoContract]
  /\ session_to_intent = [s \in Session |-> None]
  /\ now = 0

-----------------------------------------------------------------------------
(* The existing contract that makes create_intent raise a collision.       *)
GovernedByDeadline(s) ==
  /\ session_to_intent[s] # None /\ Live(session_to_intent[s])
  /\ intents[session_to_intent[s]].scope.expires_at # None
Governed(s) == session_to_intent[s] # None /\ Live(session_to_intent[s])

CreateIntent(i, req) ==
  /\ ~Exists(i)
  /\ ~Governed(req.session_id)
  /\ intents' = [intents EXCEPT ![i] = FromCreate(req)]
  /\ session_to_intent' = [session_to_intent EXCEPT ![req.session_id] = i]
  /\ UNCHANGED now

GetIntent(i) ==
  /\ Exists(i)
  /\ intents' = [intents EXCEPT ![i] = Refreshed(@, now)]
  /\ UNCHANGED <<session_to_intent, now>>

GetIntentForSession(s) ==
  /\ session_to_intent[s] # None
  /\ GetIntent(session_to_intent[s])

RevokeIntent(i) ==
  /\ Exists(i)
  /\ intents' = [intents EXCEPT ![i].status = "REVOKED"]
  /\ UNCHANGED <<session_to_intent, now>>

NarrowIntent(i, n) ==
  /\ Live(i)
  /\ IsNarrowing(intents[i], n)
  /\ intents' = [intents EXCEPT ![i].scope = NarrowedScope(@, n)]
  /\ UNCHANGED <<session_to_intent, now>>

ReserveToolExecution(i) ==
  /\ Live(i) /\ HasQuota(intents[i])
  /\ intents' = [intents EXCEPT ![i].tool_calls_count = @ + 1]
  /\ UNCHANGED <<session_to_intent, now>>

Tick == /\ now < MaxTime
        /\ now' = now + 1
        /\ UNCHANGED <<intents, session_to_intent>>

IntentNext ==
  \/ \E i \in IntentId, req \in CreateRequests : CreateIntent(i, req)
  \/ \E i \in IntentId : GetIntent(i)
  \/ \E s \in Session : GetIntentForSession(s)
  \/ \E i \in IntentId : RevokeIntent(i)
  \/ \E i \in IntentId, n \in NarrowRequests : NarrowIntent(i, n)
  \/ \E i \in IntentId : ReserveToolExecution(i)
  \/ Tick

IntentSpec == IntentInit /\ [][IntentNext]_intent_vars

-----------------------------------------------------------------------------
(* A session is governed by at most one active contract, whichever order   *)
(* creations, expiries and revocations came in, and that contract is the   *)
(* one the gateway will find through the session index                     *)
(* (create_intent: "only one ACTIVE Intent Contract can govern a session").*)
SingleActiveContract ==
  \A i \in IntentId : Live(i) => session_to_intent[intents[i].session_id] = i

(* The quota is never overdrawn: no interleaving of narrowing and reserving*)
(* leaves more executions consumed than the limit now in force.            *)
QuotaRespected ==
  \A i \in IntentId : Exists(i) =>
    intents[i].tool_calls_count <= intents[i].scope.maximum_tool_calls

(* What a contract lets its agent do now, and do without a human.          *)
LiveAuthority(i)    == IF Live(i) THEN Authority(intents[i].scope) ELSE {}
LiveUnsupervised(i) == IF Live(i) THEN Unsupervised(intents[i].scope) ELSE {}

Expands(i) == \/ ~(LiveAuthority(i)' \subseteq LiveAuthority(i))
              \/ ~(LiveUnsupervised(i)' \subseteq LiveUnsupervised(i))

(* narrow_intent: "authority_next <= authority_original".  Once created, a *)
(* contract never lets its agent do more, nor more without approval, than  *)
(* one step before; an expired or revoked contract stays without authority.*)
AuthorityNeverExpands ==
  [][\A i \in IntentId : Exists(i) => ~Expands(i)]_intent_vars

(* The exact exception the code makes to the property above: authority     *)
(* expands only when a non-empty allowed_resources is narrowed to the      *)
(* empty list, which the rules read as unconstrained.                      *)
ExpandsOnlyByEmptyingResources ==
  [][\A i \in IntentId : Exists(i) /\ Expands(i) =>
       /\ intents[i].scope.allowed_resources # {}
       /\ intents[i]'.scope.allowed_resources = {}]_intent_vars

(* The service implements the abstract quota, whatever requests it gets:   *)
(* expiry is the passing of time, seen at once, not the status being       *)
(* rewritten by a later read.                                              *)
Phase(i) == IF ~Exists(i) THEN "unissued" ELSE IF Live(i) THEN "live" ELSE "retired"
Owner(i) == IF Exists(i) THEN intents[i].session_id ELSE None
Limit(i) == IF Exists(i) THEN intents[i].scope.maximum_tool_calls ELSE 0
Used(i)  == IF Exists(i) THEN intents[i].tool_calls_count ELSE 0

Quota == INSTANCE IntentQuota WITH
  Id    <- IntentId,
  phase <- [i \in IntentId |-> Phase(i)],
  owner <- [i \in IntentId |-> Owner(i)],
  limit <- [i \in IntentId |-> Limit(i)],
  used  <- [i \in IntentId |-> Used(i)]

ImplementsQuota == Quota!Spec
=============================================================================
