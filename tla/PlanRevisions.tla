---------------------------- MODULE PlanRevisions ----------------------------
(***************************************************************************)
(* One plan, the requests that save corrections to it and the requests     *)
(* that accept a revision, served concurrently by the API on PostgreSQL at *)
(* READ COMMITTED.                                                         *)
(*                                                                         *)
(* A save reads the plan before its transaction and checks again under     *)
(* SELECT ... FOR UPDATE, so its transaction is one step.  An accept reads *)
(* the plan without a lock and then runs two UPDATEs; each statement sees  *)
(* what is committed when it starts, locks the rows it writes until the    *)
(* transaction ends, and evaluates its WHERE clause again on a row it had  *)
(* to wait for.  Its steps are separate here.                              *)
(***************************************************************************)
EXTENDS Naturals, Sequences

CONSTANTS
  Revisions,   \* ids of plan_revisions rows
  Root,        \* the revision the import created
  Savers,      \* create-revision requests in flight at a time
  Acceptors,   \* accept requests in flight at a time
  None         \* SQL null

ASSUME RevisionsAssumption ==
  /\ Root \in Revisions
  /\ None \notin Revisions

VARIABLES
  rows,        \* committed plan_revisions rows
  current,     \* plans.current_revision_id
  session,     \* status of the scan session the plan came from
  announced,   \* revisions with a plan.accepted row in the outbox
  saves,       \* control state of each create-revision request
  accepts      \* control state and uncommitted writes of each accept request

vars == <<rows, current, session, announced, saves, accepts>>

\* `edits` stands for the payload: the saves whose commands it contains, each
\* named by the revision it created.
RowType == [status : {"absent", "draft", "accepted", "superseded"},
            version : Nat, parent : Revisions \cup {None},
            edits : SUBSET Revisions]
SaveType == [pc : {"idle", "reduced"}, parent : Revisions \cup {None}]
AcceptType == [pc : {"idle", "checked", "superseding", "marked"},
               target : Revisions \cup {None},
               todo : SUBSET Revisions, superseded : SUBSET Revisions]

TypeOK ==
  /\ rows \in [Revisions -> RowType]
  /\ current \in Revisions
  /\ session \in {"needs_review", "completed"}
  /\ announced \subseteq Revisions
  /\ saves \in [Savers -> SaveType]
  /\ accepts \in [Acceptors -> AcceptType]

IdleSave == [pc |-> "idle", parent |-> None]
IdleAccept == [pc |-> "idle", target |-> None, todo |-> {}, superseded |-> {}]
AbsentRow == [status |-> "absent", version |-> 0, parent |-> None, edits |-> {}]

\* createPlanWithInitialRevision has committed.
Init ==
  /\ rows = [r \in Revisions |->
               IF r = Root THEN [status |-> "draft", version |-> 1,
                                 parent |-> None, edits |-> {Root}]
                           ELSE AbsentRow]
  /\ current = Root
  /\ session = "needs_review"
  /\ announced = {}
  /\ saves = [e \in Savers |-> IdleSave]
  /\ accepts = [a \in Acceptors |-> IdleAccept]

Existing == { r \in Revisions : rows[r].status # "absent" }

-----------------------------------------------------------------------------
(* POST .../revisions *)

\* The client's parent is the plan's current revision (otherwise 409), and its
\* commands have been reduced into a candidate payload.
ReduceCommands(e, parent) ==
  /\ saves[e].pc = "idle"
  /\ current = parent
  /\ saves' = [saves EXCEPT ![e] = [pc |-> "reduced", parent |-> parent]]
  /\ UNCHANGED <<rows, current, session, announced, accepts>>

\* Mistake: the child refers to its parent's row instead of the row's id.
ChildOfRow(r, parent) ==
  [status |-> "draft", version |-> rows[parent].version + 1,
   parent |-> rows[parent], edits |-> rows[parent].edits \cup {r}]

\* insertChildRevision's row.
ChildOf(r, parent) ==
  [status |-> "draft", version |-> rows[parent].version + 1,
   parent |-> parent, edits |-> rows[parent].edits \cup {r}]

\* Mistake: the check before the transaction is trusted, without lock or index.
MayCommitUnchecked(e) == TRUE

\* What the transaction needs: the locked plan row still names the parent, and
\* the child violates no unique (plan_id, version).
MayCommit(e) ==
  /\ current = saves[e].parent
  /\ \A q \in Existing : rows[q].version # rows[saves[e].parent].version + 1

CommitSave(e, r) ==
  /\ saves[e].pc = "reduced"
  /\ MayCommit(e)
  /\ r \notin Existing
  /\ rows' = [rows EXCEPT ![r] = ChildOf(r, saves[e].parent)]
  /\ current' = r
  /\ saves' = [saves EXCEPT ![e] = IdleSave]
  /\ UNCHANGED <<session, announced, accepts>>

\* 409, and the transaction leaves nothing behind.
RefuseSave(e) ==
  /\ saves[e].pc = "reduced"
  /\ ~MayCommit(e)
  /\ saves' = [saves EXCEPT ![e] = IdleSave]
  /\ UNCHANGED <<rows, current, session, announced, accepts>>

-----------------------------------------------------------------------------
(* POST .../revisions/<id>/accept: acceptRevision inside withTransaction *)

\* The rows a transaction has written and not yet committed.
LockedBy(a) ==
  accepts[a].superseded \cup
    (IF accepts[a].pc = "marked" THEN {accepts[a].target} ELSE {})

LockedByOther(a, r) == \E b \in Acceptors \ {a} : r \in LockedBy(b)

\* A plain SELECT of the plan; another current revision is a 409.
CheckCurrent(a, r) ==
  /\ accepts[a].pc = "idle"
  /\ current = r
  /\ accepts' = [accepts EXCEPT ![a] = [IdleAccept EXCEPT !.pc = "checked",
                                                          !.target = r]]
  /\ UNCHANGED <<rows, current, session, announced, saves>>

OthersThan(t) == { q \in Existing \ {t} : rows[q].status # "superseded" }

\* The first UPDATE starts: its snapshot selects the rows to supersede.
SelectOthers(a) ==
  /\ accepts[a].pc = "checked"
  /\ accepts' = [accepts EXCEPT
       ![a].pc = "superseding",
       ![a].todo = OthersThan(accepts[a].target)]
  /\ UNCHANGED <<rows, current, session, announced, saves>>

\* One of those rows, once no other transaction holds it; a row that was
\* superseded meanwhile no longer matches and is left alone.
SupersedeRow(a, q) ==
  /\ accepts[a].pc = "superseding"
  /\ q \in accepts[a].todo
  /\ ~LockedByOther(a, q)
  /\ accepts' = [accepts EXCEPT
       ![a].todo = @ \ {q},
       ![a].superseded = IF rows[q].status = "superseded" THEN @ ELSE @ \cup {q}]
  /\ UNCHANGED <<rows, current, session, announced, saves>>

\* The second UPDATE: by id, whatever the row's status has become.
MarkAccepted(a) ==
  /\ accepts[a].pc = "superseding"
  /\ accepts[a].todo = {}
  /\ ~LockedByOther(a, accepts[a].target)
  /\ accepts' = [accepts EXCEPT ![a].pc = "marked"]
  /\ UNCHANGED <<rows, current, session, announced, saves>>

\* The status each row has once both UPDATEs are committed.  Mistake: the second
\* one only accepts a draft.
OutcomeOfDraft(a, r) ==
  IF r = accepts[a].target /\ rows[r].status = "draft" THEN "accepted"
  ELSE IF r \in accepts[a].superseded THEN "superseded" ELSE rows[r].status
Outcome(a, r) ==
  IF r = accepts[a].target THEN "accepted"
  ELSE IF r \in accepts[a].superseded THEN "superseded" ELSE rows[r].status

\* COMMIT, with the session's guarded move and the outbox row.
CommitAccept(a) ==
  /\ accepts[a].pc = "marked"
  /\ rows' = [r \in Revisions |-> [rows[r] EXCEPT !.status = Outcome(a, r)]]
  /\ session' = "completed"   \* or it was already: a stale move is ignored
  /\ announced' = announced \cup {accepts[a].target}
  /\ accepts' = [accepts EXCEPT ![a] = IdleAccept]
  /\ UNCHANGED <<current, saves>>

\* A failing statement, a lost connection, or PostgreSQL breaking a deadlock
\* between two accepts: everything the transaction wrote is undone.
AbortAccept(a) ==
  /\ accepts[a].pc # "idle"
  /\ accepts' = [accepts EXCEPT ![a] = IdleAccept]
  /\ UNCHANGED <<rows, current, session, announced, saves>>

\* The status endpoint may complete the session without any acceptance.
ReportCompleted ==
  /\ session = "needs_review"
  /\ session' = "completed"
  /\ UNCHANGED <<rows, current, announced, saves, accepts>>

-----------------------------------------------------------------------------

Saving ==
  \E e \in Savers :
    \/ \E r \in Revisions : ReduceCommands(e, r)
    \/ \E r \in Revisions : CommitSave(e, r)
    \/ RefuseSave(e)

Accepting ==
  \E a \in Acceptors :
    \/ \E r \in Revisions : CheckCurrent(a, r)
    \/ SelectOthers(a)
    \/ \E q \in Revisions : SupersedeRow(a, q)
    \/ MarkAccepted(a)
    \/ CommitAccept(a)
    \/ AbortAccept(a)

Next == Saving \/ Accepting \/ ReportCompleted

Spec == Init /\ [][Next]_vars

-----------------------------------------------------------------------------
(* Properties *)

\* Revisions form one chain: each version number is used once, every revision
\* but the first follows its parent by one, and no two have the same parent.
LinearLineage ==
  /\ \A q, r \in Existing : rows[q].version = rows[r].version => q = r
  /\ \A r \in Existing \ {Root} :
       /\ rows[r].parent \in Existing
       /\ rows[r].version = rows[rows[r].parent].version + 1
  /\ \A q, r \in Existing \ {Root} : rows[q].parent = rows[r].parent => q = r

\* Optimistic concurrency loses nothing: every save that was acknowledged is
\* part of the revision people are shown.
NoLostEdit == Existing \subseteq rows[current].edits

\* Once an acceptance has been announced the plan never again lacks an
\* authoritative revision, however accepts race, abort or wait for each other.
AuthorityPersists ==
  announced # {} => \E r \in announced : rows[r].status = "accepted"

\* "Every other revision of the plan is marked superseded": at most one revision
\* is authoritative.  The code keeps this only while accepts do not overlap.
AtMostOneAccepted ==
  \A q, r \in Revisions :
    rows[q].status = "accepted" /\ rows[r].status = "accepted" => q = r

\* What a reader of the plan sees: the saves its current revision is built on,
\* by version.
History ==
  [v \in 1..rows[current].version |->
     CHOOSE r \in rows[current].edits : rows[r].version = v]

Plan == INSTANCE PlanHistory WITH history <- History

\* Saving, with all its races, implements a plan with one straight history.
ImplementsHistory == Plan!Spec
=============================================================================
