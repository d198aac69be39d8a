------------------------ MODULE MCFacadeMeasurements -------------------------
(* Instances of FacadeMeasurements for TLC. *)
EXTENDS FacadeMeasurements, TLC

Symmetry == Permutations(Requests) \cup Permutations(Openings) \cup Permutations(Values)
=============================================================================
