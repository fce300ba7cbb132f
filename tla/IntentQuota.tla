----------------------------- MODULE IntentQuota -----------------------------
(***************************************************************************)
(* What the intent service promises, without contracts, statuses, clocks   *)
(* or narrowing requests: each session is governed by at most one live     *)
(* authority, an authority's limit only falls and never below what was     *)
(* already used, a slot is handed out only by a live authority that has    *)
(* one left, and a retired authority never comes back.                     *)
(***************************************************************************)
EXTENDS Naturals

CONSTANTS Id, Session, None

VARIABLES phase,   \* "unissued", "live" or "retired", per authority
          owner,   \* the session an issued authority governs
          limit,   \* the slots it may hand out
          used     \* the slots it handed out

vars == <<phase, owner, limit, used>>

Init == /\ phase = [i \in Id |-> "unissued"]
        /\ owner = [i \in Id |-> None]
        /\ limit = [i \in Id |-> 0]
        /\ used  = [i \in Id |-> 0]

(* An authority may be issued with its deadline already behind it.         *)
Issue(i, s) ==
  /\ phase[i] = "unissued"
  /\ \A j \in Id : phase[j] = "live" => owner[j] # s
  /\ \E p \in {"live", "retired"} : phase' = [phase EXCEPT ![i] = p]
  /\ owner' = [owner EXCEPT ![i] = s]
  /\ limit' = [limit EXCEPT ![i] = limit'[i]] /\ limit'[i] \in Nat
  /\ UNCHANGED used

Use(i) ==
  /\ phase[i] = "live" /\ used[i] < limit[i]
  /\ used' = [used EXCEPT ![i] = @ + 1]
  /\ UNCHANGED <<phase, owner, limit>>

Attenuate(i) ==
  /\ phase[i] = "live"
  /\ \E n \in used[i] .. limit[i] : limit' = [limit EXCEPT ![i] = n]
  /\ \E p \in {"live", "retired"} : phase' = [phase EXCEPT ![i] = p]
  /\ UNCHANGED <<owner, used>>

Retire(S) ==
  /\ phase' = [i \in Id |-> IF i \in S /\ phase[i] = "live" THEN "retired"
                            ELSE phase[i]]
  /\ UNCHANGED <<owner, limit, used>>

Next == \/ \E i \in Id, s \in Session : Issue(i, s)
        \/ \E i \in Id : Use(i) \/ Attenuate(i)
        \/ \E S \in SUBSET Id : Retire(S)

Spec == Init /\ [][Next]_vars
=============================================================================
