---------------------------- MODULE ScanLifecycle ----------------------------
(***************************************************************************)
(* What the scan-session row promises to every reader: its status follows  *)
(* the server's transition table and a plan is attached at most once, by   *)
(* the very step that moves the session out of "processing".  No queue, no *)
(* worker and no request appears here: ImportPipeline implements this      *)
(* specification with all of them.                                         *)
(***************************************************************************)
EXTENDS Naturals

CONSTANTS
  Sessions,   \* the scan_sessions rows
  Plans,      \* every plan row an import could create
  NoPlan      \* the SQL null of scan_sessions.plan_id, no member of Plans

VARIABLES
  status,     \* scan_sessions.status
  planId      \* scan_sessions.plan_id

vars == <<status, planId>>

Statuses ==
  {"draft", "capturing", "local_review", "queued_upload", "uploading",
   "processing", "needs_review", "failed", "completed"}

\* TRANSITIONS and isLegalTransition: the pairs the repository lets through.
Transitions ==
  { <<"draft", "capturing">>,
    <<"capturing", "local_review">>,
    <<"capturing", "capturing">>,
    <<"local_review", "queued_upload">>,
    <<"queued_upload", "uploading">>,
    <<"uploading", "processing">>,
    <<"uploading", "queued_upload">>,
    <<"processing", "needs_review">>,
    <<"processing", "failed">>,
    <<"needs_review", "completed">> }

\* A session that has been handed to the importer never goes back before it.
Submitted == {"processing", "needs_review", "failed", "completed"}
Reviewable == {"needs_review", "completed"}

Init ==
  /\ status = [s \in Sessions |-> "draft"]
  /\ planId = [s \in Sessions |-> NoPlan]

\* A legal move that attaches nothing.
Move(s, to) ==
  /\ <<status[s], to>> \in Transitions
  /\ status' = [status EXCEPT ![s] = to]
  /\ UNCHANGED planId

\* The durable commit of an import: the plan and the status in one step.
AttachPlan(s, p) ==
  /\ status[s] = "processing"
  /\ planId[s] = NoPlan
  /\ status' = [status EXCEPT ![s] = "needs_review"]
  /\ planId' = [planId EXCEPT ![s] = p]

Next ==
  \E s \in Sessions :
    \/ \E to \in Statuses : Move(s, to)
    \/ \E p \in Plans : AttachPlan(s, p)

Spec == Init /\ [][Next]_vars

TypeOK ==
  /\ status \in [Sessions -> Statuses]
  /\ planId \in [Sessions -> Plans \cup {NoPlan}]
=============================================================================
