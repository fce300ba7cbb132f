---------------------------- MODULE MCSessionGraph ----------------------------
(* A small instance of SessionGraph for TLC.                               *)
EXTENDS SessionGraph, TLC

CONSTANTS g1, d1, d2, a1, a2, a3, x1, x2

Permuted == Permutations(DelegationNode) \cup Permutations(ActionNode)
              \cup Permutations(ArtifactNode)
=============================================================================
