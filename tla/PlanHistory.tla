----------------------------- MODULE PlanHistory -----------------------------
(***************************************************************************)
(* What a plan promises to the people who correct it: one straight history *)
(* of revisions.  A save that is acknowledged becomes the new head, on top *)
(* of everything saved before; a save that is refused leaves no trace.     *)
(***************************************************************************)
EXTENDS Naturals, Sequences

CONSTANTS Revisions, Root

VARIABLE history   \* the plan's revisions, oldest first

Init == history = <<Root>>

Save(r) ==
  /\ \A n \in 1..Len(history) : history[n] # r
  /\ history' = Append(history, r)

Next == \E r \in Revisions : Save(r)

Spec == Init /\ [][Next]_history
=============================================================================
