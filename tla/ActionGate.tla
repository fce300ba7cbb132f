------------------------------ MODULE ActionGate ------------------------------
(***************************************************************************)
(* What a gateway promises of the actions it decides on, whatever decides  *)
(* on them: a decision is final, an action waits for a human at most once, *)
(* an action is granted only against an execution reserved for it, and     *)
(* only a granted action runs.                                             *)
(***************************************************************************)
EXTENDS Naturals, FiniteSets

CONSTANT Action

VARIABLES verdict,   \* of each action
          reserved,  \* executions reserved so far, all contracts together
          runs       \* of the tool of each action

gate_vars == <<verdict, reserved, runs>>

Granted == {a \in Action : verdict[a] = "granted"}

Init == /\ verdict = [a \in Action |-> "none"]
        /\ reserved = 0
        /\ runs = [a \in Action |-> 0]

Reserve == reserved' = reserved + 1 /\ UNCHANGED <<verdict, runs>>

Hold(a) == /\ verdict[a] = "none"
           /\ verdict' = [verdict EXCEPT ![a] = "waiting"]
           /\ UNCHANGED <<reserved, runs>>

Open(a) == verdict[a] \in {"none", "waiting"}

Grant(a) == /\ Open(a) /\ Cardinality(Granted) < reserved
            /\ verdict' = [verdict EXCEPT ![a] = "granted"]
            /\ UNCHANGED <<reserved, runs>>

Refuse(a) == /\ Open(a)
             /\ verdict' = [verdict EXCEPT ![a] = "refused"]
             /\ UNCHANGED <<reserved, runs>>

Run(a) == /\ a \in Granted
          /\ runs' = [runs EXCEPT ![a] = @ + 1]
          /\ UNCHANGED <<verdict, reserved>>

Next == Reserve \/ \E a \in Action : Hold(a) \/ Grant(a) \/ Refuse(a) \/ Run(a)

Spec == Init /\ [][Next]_gate_vars
=============================================================================
