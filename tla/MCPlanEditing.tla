---------------------------- MODULE MCPlanEditing ----------------------------
(* Instances of PlanEditing for TLC. *)
EXTENDS PlanEditing, TLC

Symmetry == Permutations(Editors)

\* A window without geometry, which has another finding.
SomeImport == << [id |-> <<1, 1>>, host |-> "none", size |-> "not_processed", verified |-> FALSE] >>
NoneReported == {}
==============================================================================
