---------------------------- MODULE MCSessionStart ----------------------------
(* Instances of SessionStart for TLC. *)
EXTENDS SessionStart, TLC

Symmetry == Permutations(Requests) \cup Permutations(Bodies)
              \cup Permutations(Devices)
=============================================================================
