--------------------------- MODULE MCPlanRevisions ---------------------------
(* Instances of PlanRevisions for TLC. *)
EXTENDS PlanRevisions, TLC

Symmetry == Permutations(Savers) \cup Permutations(Acceptors)
              \cup Permutations(Revisions \ {Root})
=============================================================================
