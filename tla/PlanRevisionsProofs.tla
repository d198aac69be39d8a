------------------------ MODULE PlanRevisionsProofs --------------------------
(* Proofs about PlanRevisions for every number of revisions and requests. *)
EXTENDS PlanRevisions, SequenceTheorems, TLAPS

(***************************************************************************)
(* The inductive invariant.  LinearLineage is not inductive alone: that a  *)
(* new child has a parent of its own follows because the current revision  *)
(* has the greatest version, and every version below it has one revision.  *)
(***************************************************************************)

Top == rows[current].version

HeadInv ==
  /\ Root \in Existing /\ rows[Root].version = 1
  /\ current \in Existing
  /\ rows[current].edits = Existing

VersionInv ==
  /\ \A r \in Existing : rows[r].version \in 1..Top
  /\ \A v \in 1..Top : \E r \in Existing : rows[r].version = v
  /\ \A q, r \in Existing : rows[q].version = rows[r].version => q = r

ParentInv ==
  \A r \in Existing \ {Root} :
    /\ rows[r].parent \in Existing
    /\ rows[r].version = rows[rows[r].parent].version + 1

\* Whatever an accept has read or written exists.
AcceptInv ==
  \A a \in Acceptors :
    /\ accepts[a].pc # "idle" => accepts[a].target \in Existing
    /\ accepts[a].todo \subseteq Existing
    /\ accepts[a].superseded \subseteq Existing

IInv == TypeOK /\ HeadInv /\ VersionInv /\ ParentInv /\ AcceptInv

-----------------------------------------------------------------------------

\* The plan an import creates satisfies the inductive invariant.
LEMMA InitIInv == Init => IInv
<1> SUFFICES ASSUME Init PROVE IInv
  OBVIOUS
<1> USE RevisionsAssumption DEF Init, AbsentRow
<1>1. TypeOK
  BY DEF TypeOK, RowType, SaveType, AcceptType, IdleSave, IdleAccept
<1>2. Existing = {Root} /\ Top = 1
  BY DEF Existing, Top
<1>3. HeadInv
  BY <1>2 DEF HeadInv
<1>4. VersionInv
  <2>1. \A r \in Existing : rows[r].version = 1
    BY <1>2
  <2> QED BY <2>1, <1>2 DEF VersionInv
<1>5. ParentInv
  BY <1>2 DEF ParentInv
<1>6. AcceptInv
  BY DEF AcceptInv, IdleAccept
<1> QED BY <1>1, <1>3, <1>4, <1>5, <1>6 DEF IInv

\* A step that only changes the status of existing rows keeps the lineage.
LEMMA SameLineage ==
  ASSUME HeadInv, VersionInv, ParentInv, current' = current,
         Existing' = Existing,
         \A r \in Existing : /\ rows'[r].version = rows[r].version
                             /\ rows'[r].parent = rows[r].parent
                             /\ rows'[r].edits = rows[r].edits
  PROVE  HeadInv' /\ VersionInv' /\ ParentInv' /\ Top' = Top
<1>1. current \in Existing
  BY DEF HeadInv
<1>2. Top' = Top
  BY <1>1 DEF Top
<1>3. HeadInv'
  BY <1>1 DEF HeadInv
<1>4. VersionInv'
  BY <1>2 DEF VersionInv
<1>5. ParentInv'
  BY DEF ParentInv
<1> QED BY <1>2, <1>3, <1>4, <1>5

\* What a save that commits does to the rows.
LEMMA CommitSaveEffect ==
  ASSUME IInv, NEW e \in Savers, NEW r \in Revisions, CommitSave(e, r)
  PROVE  /\ r \notin Existing /\ r # Root
         /\ current' = r /\ Existing' = Existing \cup {r}
         /\ rows'[r] = ChildOf(r, current) /\ ChildOf(r, current) \in RowType
         /\ \A q \in Revisions \ {r} : rows'[q] = rows[q]
         /\ Top' = Top + 1 /\ Top \in Nat
<1>1. /\ r \notin Existing /\ current' = r /\ current \in Existing
      /\ rows' = [rows EXCEPT ![r] = ChildOf(r, current)]
      /\ r # Root /\ rows \in [Revisions -> RowType]
  BY DEF CommitSave, MayCommit, IInv, TypeOK, HeadInv
<1>2. rows[current] \in RowType /\ current \in Revisions
  BY <1>1 DEF Existing
<1>3. Top \in Nat /\ ChildOf(r, current) \in RowType
  BY <1>2 DEF Top, RowType, ChildOf
<1>4. rows'[r] = ChildOf(r, current) /\ \A q \in Revisions \ {r} : rows'[q] = rows[q]
  BY <1>1
<1>5. Existing' = Existing \cup {r}
  BY <1>4 DEF Existing, ChildOf
<1>6. Top' = Top + 1
  BY <1>1, <1>4 DEF Top, ChildOf
<1> QED BY <1>1, <1>3, <1>4, <1>5, <1>6

\* A save keeps the invariant: its revision becomes the one above the top.
LEMMA CommitSaveStep ==
  ASSUME IInv, NEW e \in Savers, NEW r \in Revisions, CommitSave(e, r)
  PROVE  IInv'
<1>0. /\ r \notin Existing /\ r # Root
      /\ current' = r /\ Existing' = Existing \cup {r}
      /\ rows'[r] = ChildOf(r, current) /\ ChildOf(r, current) \in RowType
      /\ \A q \in Revisions \ {r} : rows'[q] = rows[q]
      /\ Top' = Top + 1 /\ Top \in Nat
  BY CommitSaveEffect
<1> USE <1>0
<1>1. TypeOK'
  <2>1. rows' \in [Revisions -> RowType]
    BY DEF CommitSave, IInv, TypeOK, MayCommit
  <2>2. saves' \in [Savers -> SaveType]
    BY DEF CommitSave, IInv, TypeOK, SaveType, IdleSave
  <2> QED BY <2>1, <2>2 DEF CommitSave, IInv, TypeOK
<1>2. current \in Existing /\ Existing \subseteq Revisions
  BY DEF IInv, HeadInv, Existing
<1>3. HeadInv'
  BY <1>2 DEF IInv, HeadInv, ChildOf
<1>4. rows'[r].version = Top + 1 /\ rows'[r].parent = current
  BY DEF ChildOf, Top
<1>5. VersionInv'
  <2>1. \A q \in Existing : rows'[q].version = rows[q].version
    BY <1>2
  <2>2. \A q \in Existing' : rows'[q].version \in 1..Top'
    BY <2>1, <1>4 DEF IInv, VersionInv
  <2>3. \A v \in 1..Top' : \E q \in Existing' : rows'[q].version = v
    <3>1. \A v \in 1..Top : \E q \in Existing : rows'[q].version = v
      BY <2>1 DEF IInv, VersionInv
    <3>2. \A v \in 1..Top' : v \in 1..Top \/ v = Top + 1
      OBVIOUS
    <3> QED BY <3>1, <3>2, <1>4
  <2>4. \A p, q \in Existing' : rows'[p].version = rows'[q].version => p = q
    BY <2>1, <1>4 DEF IInv, VersionInv
  <2> QED BY <2>2, <2>3, <2>4 DEF VersionInv
<1>6. ParentInv'
  BY <1>2, <1>4 DEF IInv, ParentInv, HeadInv, Top
<1>7. AcceptInv'
  BY DEF CommitSave, IInv, AcceptInv
<1> QED BY <1>1, <1>3, <1>5, <1>6, <1>7 DEF IInv

\* What an accept that commits does to the rows: only statuses change.
LEMMA CommitAcceptEffect ==
  ASSUME IInv, NEW a \in Acceptors, CommitAccept(a)
  PROVE  /\ rows' \in [Revisions -> RowType]
         /\ \A r \in Revisions : /\ rows'[r].status = Outcome(a, r)
                                 /\ rows'[r].version = rows[r].version
                                 /\ rows'[r].parent = rows[r].parent
                                 /\ rows'[r].edits = rows[r].edits
         /\ Existing' = Existing
<1>1. /\ \A r \in Revisions : rows[r] \in RowType
      /\ accepts[a].target \in Existing
      /\ accepts[a].superseded \subseteq Existing
  BY DEF IInv, TypeOK, AcceptInv, CommitAccept
<1>2. rows' = [r \in Revisions |-> [rows[r] EXCEPT !.status = Outcome(a, r)]]
  BY DEF CommitAccept
<1>3. \A r \in Revisions :
        Outcome(a, r) \in {"accepted", "superseded", rows[r].status}
  BY DEF Outcome
<1>4. \A r \in Revisions : [rows[r] EXCEPT !.status = Outcome(a, r)] \in RowType
  BY <1>1, <1>3 DEF RowType
<1>5. \A r \in Revisions : /\ rows'[r].status = Outcome(a, r)
                           /\ rows'[r].version = rows[r].version
                           /\ rows'[r].parent = rows[r].parent
                           /\ rows'[r].edits = rows[r].edits
  BY <1>1, <1>2 DEF RowType
<1>6. Existing' = Existing
  <2>1. \A r \in Revisions : Outcome(a, r) # "absent" <=> rows[r].status # "absent"
    BY <1>1 DEF Outcome, Existing
  <2> QED BY <2>1, <1>5 DEF Existing
<1> QED BY <1>2, <1>4, <1>5, <1>6

\* An accept that commits keeps the invariant.
LEMMA CommitAcceptStep ==
  ASSUME IInv, NEW a \in Acceptors, CommitAccept(a)
  PROVE  IInv'
<1>0. /\ rows' \in [Revisions -> RowType]
      /\ \A r \in Revisions : /\ rows'[r].version = rows[r].version
                              /\ rows'[r].parent = rows[r].parent
                              /\ rows'[r].edits = rows[r].edits
      /\ Existing' = Existing
  BY CommitAcceptEffect
<1>1. TypeOK'
  <2>1. accepts' \in [Acceptors -> AcceptType]
    BY DEF CommitAccept, IInv, TypeOK, AcceptType, IdleAccept
  <2>2. announced' \subseteq Revisions
    BY DEF CommitAccept, IInv, TypeOK, AcceptInv, Existing
  <2> QED BY <1>0, <2>1, <2>2 DEF CommitAccept, IInv, TypeOK
<1>2. HeadInv' /\ VersionInv' /\ ParentInv'
  BY <1>0, SameLineage DEF CommitAccept, IInv, Existing
<1>3. AcceptInv'
  BY <1>0 DEF CommitAccept, IInv, TypeOK, AcceptInv, IdleAccept
<1> QED BY <1>1, <1>2, <1>3 DEF IInv

\* A step that writes no row keeps the lineage; of such a step only the
\* requests' own state is left to look at.
LEMMA QuietStep ==
  ASSUME IInv, UNCHANGED <<rows, current>>, TypeOK', AcceptInv'
  PROVE  IInv'
<1>1. Existing' = Existing
  BY DEF Existing
<1>2. HeadInv' /\ VersionInv' /\ ParentInv'
  BY <1>1, SameLineage DEF IInv
<1> QED BY <1>2 DEF IInv

\* The steps of a save before its transaction, and its refusal, are quiet.
LEMMA SaveStep ==
  ASSUME IInv, NEW e \in Savers,
         (\E r \in Revisions : ReduceCommands(e, r)) \/ RefuseSave(e)
  PROVE  IInv'
<1> USE DEF ReduceCommands, RefuseSave, IdleSave
<1>1. TypeOK'
  BY DEF IInv, TypeOK, SaveType
<1>2. AcceptInv'
  BY DEF IInv, AcceptInv, Existing
<1> QED BY <1>1, <1>2, QuietStep

\* So are the steps of an accept before its COMMIT: nobody sees what they write.
LEMMA AcceptStep ==
  ASSUME IInv, NEW a \in Acceptors,
         \/ \E r \in Revisions : CheckCurrent(a, r)
         \/ SelectOthers(a)
         \/ \E q \in Revisions : SupersedeRow(a, q)
         \/ MarkAccepted(a)
         \/ AbortAccept(a)
  PROVE  IInv'
<1> USE DEF IdleAccept
<1>0. Existing \subseteq Revisions /\ accepts[a] \in AcceptType
  BY DEF Existing, IInv, TypeOK
<1>1. CASE \E r \in Revisions : CheckCurrent(a, r)
  <2>1. TypeOK'
    BY <1>1 DEF CheckCurrent, IInv, TypeOK, AcceptType
  <2>2. AcceptInv'
    <3>1. PICK r \in Revisions : CheckCurrent(a, r)
      BY <1>1
    <3>2. /\ accepts'[a].target = r
          /\ accepts'[a].todo = {} /\ accepts'[a].superseded = {}
          /\ \A b \in Acceptors \ {a} : accepts'[b] = accepts[b]
      BY <3>1 DEF CheckCurrent, IInv, TypeOK
    <3>3. r \in Existing /\ Existing' = Existing
      BY <3>1 DEF CheckCurrent, IInv, HeadInv, Existing
    <3> QED BY <3>2, <3>3 DEF IInv, TypeOK, AcceptInv
  <2> QED BY <1>1, <2>1, <2>2, QuietStep DEF CheckCurrent
<1>2. CASE SelectOthers(a)
  <2>1. TypeOK'
    BY <1>0, <1>2 DEF SelectOthers, OthersThan, IInv, TypeOK, AcceptType
  <2>2. AcceptInv'
    <3>1. Existing' = Existing
      BY <1>2 DEF SelectOthers, Existing
    <3>2. OthersThan(accepts[a].target) \subseteq Existing
      BY DEF OthersThan
    <3>3. accepts' = [accepts EXCEPT
            ![a] = [accepts[a] EXCEPT !.pc = "superseding",
                                      !.todo = OthersThan(accepts[a].target)]]
      BY <1>2 DEF SelectOthers, IInv, TypeOK
    <3>4. accepts[a].pc # "idle"
      BY <1>2 DEF SelectOthers
    <3> QED BY <1>0, <3>1, <3>2, <3>3, <3>4 DEF IInv, TypeOK, AcceptInv, AcceptType
  <2> QED BY <1>2, <2>1, <2>2, QuietStep DEF SelectOthers
<1>3. CASE \E q \in Revisions : SupersedeRow(a, q)
  <2> PICK q \in Revisions : SupersedeRow(a, q)
    BY <1>3
  <2> DEFINE done == IF rows[q].status = "superseded"
                       THEN accepts[a].superseded
                       ELSE accepts[a].superseded \cup {q}
  <2>1. /\ q \in accepts[a].todo /\ UNCHANGED <<rows, current>>
        /\ accepts' = [accepts EXCEPT
             ![a] = [accepts[a] EXCEPT !.todo = accepts[a].todo \ {q},
                                       !.superseded = done]]
    BY DEF SupersedeRow, IInv, TypeOK
  <2>2. done \subseteq Existing /\ Existing' = Existing
    BY <2>1 DEF IInv, AcceptInv, Existing
  <2> HIDE DEF done
  <2>3. TypeOK'
    <3>1. [accepts[a] EXCEPT !.todo = accepts[a].todo \ {q}, !.superseded = done]
            \in AcceptType
      BY <1>0, <2>2 DEF AcceptType
    <3> QED BY <3>1, <2>1 DEF SupersedeRow, IInv, TypeOK
  <2>4. AcceptInv'
    BY <1>0, <2>1, <2>2 DEF IInv, TypeOK, AcceptInv, AcceptType
  <2> QED BY <2>1, <2>3, <2>4, QuietStep
<1>4. CASE MarkAccepted(a)
  <2>1. TypeOK'
    BY <1>0, <1>4 DEF MarkAccepted, IInv, TypeOK, AcceptType
  <2>2. AcceptInv'
    BY <1>4 DEF MarkAccepted, IInv, TypeOK, AcceptInv, Existing
  <2> QED BY <1>4, <2>1, <2>2, QuietStep DEF MarkAccepted
<1>5. CASE AbortAccept(a)
  <2>1. TypeOK'
    BY <1>0, <1>5 DEF AbortAccept, IInv, TypeOK, AcceptType
  <2>2. AcceptInv'
    BY <1>5 DEF AbortAccept, IInv, TypeOK, AcceptInv, Existing
  <2> QED BY <1>5, <2>1, <2>2, QuietStep DEF AbortAccept
<1> QED BY <1>1, <1>2, <1>3, <1>4, <1>5

\* The invariant is preserved by every step.
LEMMA NextIInv == IInv /\ [Next]_vars => IInv'
<1> SUFFICES ASSUME IInv, [Next]_vars PROVE IInv'
  OBVIOUS
<1>1. CASE Saving
  BY <1>1, SaveStep, CommitSaveStep DEF Saving
<1>2. CASE Accepting
  BY <1>2, AcceptStep, CommitAcceptStep DEF Accepting
<1>3. CASE ReportCompleted \/ UNCHANGED vars
  <2>1. TypeOK'
    BY <1>3 DEF ReportCompleted, vars, IInv, TypeOK
  <2>2. AcceptInv'
    BY <1>3 DEF ReportCompleted, vars, IInv, AcceptInv, Existing
  <2> QED BY <1>3, <2>1, <2>2, QuietStep DEF ReportCompleted, vars
<1> QED BY <1>1, <1>2, <1>3 DEF Next

\* The inductive invariant holds in every reachable state.
THEOREM Invariance == Spec => []IInv
BY InitIInv, NextIInv, PTL DEF Spec

\* Every row and every request keeps its shape.
THEOREM TypeCorrect == Spec => []TypeOK
<1>1. IInv => TypeOK
  BY DEF IInv
<1> QED BY <1>1, Invariance, PTL

\* However saves race, the revisions of a plan form one chain.
THEOREM LineageIsLinear == Spec => []LinearLineage
<1>1. ASSUME IInv PROVE LinearLineage
  <2>1. \A q, r \in Existing \ {Root} :
          rows[q].parent = rows[r].parent => rows[q].version = rows[r].version
    BY <1>1 DEF IInv, ParentInv
  <2> QED BY <1>1, <2>1 DEF IInv, VersionInv, ParentInv, LinearLineage
<1> QED BY <1>1, Invariance, PTL

\* No acknowledged save is missing from the current revision.
THEOREM EditsAreKept == Spec => []NoLostEdit
<1>1. IInv => NoLostEdit
  BY DEF IInv, HeadInv, NoLostEdit
<1> QED BY <1>1, Invariance, PTL

-----------------------------------------------------------------------------

\* Each acceptance leaves its own revision authoritative in the step that
\* announces it; a save writes only a row that did not exist.
LEMMA AuthorityStep ==
  ASSUME IInv, AuthorityPersists, [Next]_vars
  PROVE  AuthorityPersists'
<1>1. ASSUME NEW a \in Acceptors, CommitAccept(a)
      PROVE  AuthorityPersists'
  <2>1. accepts[a].target \in Revisions
    BY <1>1 DEF IInv, AcceptInv, CommitAccept, Existing
  <2>2. rows'[accepts[a].target].status = "accepted"
    <3>1. \A r \in Revisions : rows'[r].status = Outcome(a, r)
      BY <1>1, CommitAcceptEffect
    <3> QED BY <2>1, <3>1 DEF Outcome
  <2> QED BY <1>1, <2>1, <2>2 DEF CommitAccept, AuthorityPersists
<1>2. ASSUME NEW e \in Savers, NEW r \in Revisions, CommitSave(e, r)
      PROVE  AuthorityPersists'
  <2>1. /\ rows[r].status = "absent"
        /\ \A q \in Revisions \ {r} : rows'[q] = rows[q]
    BY <1>2, CommitSaveEffect DEF Existing
  <2>2. announced \subseteq Revisions
    BY DEF IInv, TypeOK
  <2> QED BY <1>2, <2>1, <2>2 DEF CommitSave, AuthorityPersists
<1>3. ASSUME UNCHANGED <<rows, announced>>
      PROVE  AuthorityPersists'
  BY <1>3 DEF AuthorityPersists
<1> QED BY <1>1, <1>2, <1>3 DEF Next, Saving, Accepting, ReduceCommands,
    RefuseSave, CheckCurrent, SelectOthers, SupersedeRow, MarkAccepted,
    AbortAccept, ReportCompleted, vars

\* Once accepted, a plan always has an authoritative revision.
THEOREM AuthorityIsKept == Spec => []AuthorityPersists
<1>1. Init => AuthorityPersists
  BY DEF Init, AuthorityPersists
<1>2. IInv /\ AuthorityPersists /\ [Next]_vars => AuthorityPersists'
  BY AuthorityStep
<1> QED BY <1>1, <1>2, Invariance, PTL DEF Spec

-----------------------------------------------------------------------------

\* What one accept request knows when no other runs beside it: every accepted
\* row is its target, or waits in `todo`, or has been superseded by it.
SoleInv ==
  /\ AtMostOneAccepted
  /\ \A a \in Acceptors : accepts[a].pc \in {"superseding", "marked"} =>
       \A r \in Revisions : rows[r].status = "accepted" =>
         r \in {accepts[a].target} \cup accepts[a].todo \cup accepts[a].superseded
  /\ \A a \in Acceptors : accepts[a].pc = "marked" => accepts[a].todo = {}

\* With one acceptor SoleInv is inductive.
LEMMA SoleStep ==
  ASSUME \A a, b \in Acceptors : a = b,
         IInv, SoleInv, [Next]_vars
  PROVE  SoleInv'
<1> USE DEF SoleInv, AtMostOneAccepted
<1>1. ASSUME NEW a \in Acceptors, CommitAccept(a)
      PROVE  SoleInv'
  <2>1. \A r \in Revisions : rows'[r].status = Outcome(a, r)
    BY <1>1, CommitAcceptEffect
  <2>2. \A r \in Revisions \ {accepts[a].target} : Outcome(a, r) # "accepted"
    BY <1>1 DEF CommitAccept, Outcome
  <2>3. \A b \in Acceptors : accepts'[b].pc = "idle"
    BY <1>1 DEF CommitAccept, IdleAccept, IInv, TypeOK
  <2> QED BY <2>1, <2>2, <2>3
<1>2. ASSUME NEW e \in Savers, NEW r \in Revisions, CommitSave(e, r)
      PROVE  SoleInv'
  <2>1. /\ rows'[r] = ChildOf(r, current)
        /\ \A q \in Revisions \ {r} : rows'[q] = rows[q]
    BY <1>2, CommitSaveEffect
  <2>2. rows'[r].status = "draft"
    BY <2>1 DEF ChildOf
  <2> QED BY <1>2, <2>1, <2>2 DEF CommitSave
<1>3. ASSUME NEW a \in Acceptors, UNCHANGED rows,
             \/ \E r \in Revisions : CheckCurrent(a, r)
             \/ AbortAccept(a)
      PROVE  SoleInv'
  <2>1. accepts'[a].pc \in {"idle", "checked"}
    <3>1. CASE AbortAccept(a)
      BY <3>1 DEF AbortAccept, IdleAccept, IInv, TypeOK
    <3>2. ASSUME NEW r \in Revisions, CheckCurrent(a, r)
          PROVE  accepts'[a].pc = "checked"
      BY <3>2 DEF CheckCurrent, IdleAccept, IInv, TypeOK
    <3> QED BY <1>3, <3>1, <3>2
  <2> QED BY <1>3, <2>1
<1>4. ASSUME NEW a \in Acceptors, SelectOthers(a)
      PROVE  SoleInv'
  BY <1>4 DEF SelectOthers, OthersThan, Existing, IInv, TypeOK
<1>5. ASSUME NEW a \in Acceptors, NEW q \in Revisions, SupersedeRow(a, q)
      PROVE  SoleInv'
  BY <1>5 DEF SupersedeRow, IInv, TypeOK
<1>6. ASSUME NEW a \in Acceptors, MarkAccepted(a)
      PROVE  SoleInv'
  BY <1>6 DEF MarkAccepted, IInv, TypeOK
<1>7. ASSUME UNCHANGED <<rows, accepts>>
      PROVE  SoleInv'
  BY <1>7
<1> QED BY <1>1, <1>2, <1>3, <1>4, <1>5, <1>6, <1>7 DEF Next, Saving,
    Accepting, ReduceCommands, RefuseSave, CheckCurrent, AbortAccept,
    ReportCompleted, vars

\* Without concurrent accepts, at most one revision is authoritative; two
\* concurrent ones break it, as the run accept_twice shows.
THEOREM SoleAcceptorIsExclusive ==
  ASSUME \A a, b \in Acceptors : a = b
  PROVE  Spec => []AtMostOneAccepted
<1>1. Init => SoleInv
  BY DEF Init, SoleInv, AtMostOneAccepted, IdleAccept, AbsentRow
<1>2. IInv /\ SoleInv /\ [Next]_vars => SoleInv'
  BY SoleStep
<1>3. SoleInv => AtMostOneAccepted
  BY DEF SoleInv
<1> QED BY <1>1, <1>2, <1>3, Invariance, PTL DEF Spec

-----------------------------------------------------------------------------

\* The history's entry at a version is the one revision that has it.
HistoryInv ==
  \A v \in 1..Top :
    /\ History[v] \in Existing /\ rows[History[v]].version = v
    /\ \A r \in Existing : rows[r].version = v => r = History[v]

\* That characterises the history in every state of the invariant.
LEMMA HistoryAt == IInv => HistoryInv
<1> SUFFICES ASSUME IInv, NEW v \in 1..Top
             PROVE  /\ History[v] \in Existing /\ rows[History[v]].version = v
                    /\ \A r \in Existing : rows[r].version = v => r = History[v]
  BY DEF HistoryInv
<1>1. rows[current].edits = Existing
  BY DEF IInv, HeadInv
<1>2. History[v] = CHOOSE r \in Existing : rows[r].version = v
  BY <1>1 DEF History, Top
<1>3. \E r \in Existing : rows[r].version = v
  BY DEF IInv, VersionInv
<1>4. History[v] \in Existing /\ rows[History[v]].version = v
  BY <1>2, <1>3
<1> QED BY <1>4 DEF IInv, VersionInv

\* It is a sequence of revisions, as long as the current version says.
LEMMA HistoryType ==
  ASSUME IInv
  PROVE  /\ Top \in Nat /\ History \in Seq(Revisions)
         /\ Len(History) = Top /\ DOMAIN History = 1..Top
<1>1. Top \in Nat
  BY DEF Top, IInv, TypeOK, RowType
<1>2. DOMAIN History = 1..Top /\ History = [v \in 1..Top |-> History[v]]
  BY DEF History, Top
<1>3. \A v \in 1..Top : History[v] \in Revisions
  BY HistoryAt DEF HistoryInv, Existing
<1>4. History \in [1..Top -> Revisions]
  BY <1>2, <1>3
<1>5. History \in Seq(Revisions)
  BY <1>1, <1>4
<1> QED BY <1>1, <1>2, <1>5

\* A step that creates no revision leaves the history as it is.
LEMMA HistoryStutter ==
  ASSUME IInv, IInv', HistoryInv', Existing' = Existing, current' = current,
         \A r \in Existing : rows'[r].version = rows[r].version
  PROVE  History' = History
<1>1. Top' = Top
  BY DEF IInv, HeadInv, Top
<1>2. /\ DOMAIN History = 1..Top /\ History = [v \in 1..Top |-> History[v]]
      /\ History' = [v \in 1..Top |-> History'[v]]
  BY <1>1 DEF History, Top
<1>3. ASSUME NEW v \in 1..Top PROVE History'[v] = History[v]
  <2>1. History[v] \in Existing /\ rows[History[v]].version = v
    BY HistoryAt DEF HistoryInv
  <2>2. \A r \in Existing' : rows'[r].version = v => r = History'[v]
    BY <1>1 DEF HistoryInv
  <2> QED BY <2>1, <2>2
<1> QED BY <1>2, <1>3

\* A save that commits appends its revision to the history.
LEMMA HistorySave ==
  ASSUME IInv, IInv', HistoryInv',
         NEW e \in Savers, NEW r \in Revisions, CommitSave(e, r)
  PROVE  Plan!Save(r)
<1>1. /\ r \notin Existing /\ Existing' = Existing \cup {r}
      /\ rows'[r] = ChildOf(r, current)
      /\ \A q \in Revisions \ {r} : rows'[q] = rows[q]
      /\ Top' = Top + 1 /\ Top \in Nat
  BY CommitSaveEffect
<1>2. /\ History \in Seq(Revisions) /\ Len(History) = Top
      /\ DOMAIN History = 1..Top
  BY HistoryType
<1>3. \A v \in 1..Top : History[v] \in Existing /\ rows[History[v]].version = v
  BY HistoryAt DEF HistoryInv
<1>4. \A v \in 1..Top : History'[v] = History[v]
  <2> TAKE v \in 1..Top
  <2>1. History[v] \in Existing' /\ v \in 1..Top'
    BY <1>1, <1>3
  <2>2. rows'[History[v]].version = v
    BY <1>1, <1>3 DEF Existing
  <2> QED BY <2>1, <2>2 DEF HistoryInv
<1>5. History'[Top + 1] = r
  <2>1. rows'[r].version = Top + 1
    BY <1>1 DEF ChildOf, Top
  <2>2. Top + 1 \in 1..Top' /\ r \in Existing'
    BY <1>1
  <2> QED BY <2>1, <2>2 DEF HistoryInv
<1>6. History' = [v \in 1..Top' |-> History'[v]]
  BY DEF History, Top
<1>7. History' = Append(History, r)
  <2>1. Append(History, r) = [v \in 1..Top + 1 |->
                                IF v = Top + 1 THEN r ELSE History[v]]
    <3>1. /\ Append(History, r) \in Seq(Revisions)
          /\ Len(Append(History, r)) = Top + 1
          /\ \A v \in 1..Top : Append(History, r)[v] = History[v]
          /\ Append(History, r)[Top + 1] = r
      BY <1>2, AppendProperties
    <3>2. Append(History, r) = [v \in 1..Top + 1 |-> Append(History, r)[v]]
      <4>1. Append(History, r) \in [1..Top + 1 -> Revisions]
        BY <3>1, LenProperties
      <4> QED BY <4>1
    <3>3. \A v \in 1..Top + 1 :
            Append(History, r)[v] = IF v = Top + 1 THEN r ELSE History[v]
      <4>1. \A v \in 1..Top + 1 : v \in 1..Top \/ v = Top + 1
        BY <1>1
      <4> QED BY <4>1, <3>1, <1>1
    <3> QED BY <3>2, <3>3
  <2>2. \A v \in 1..Top + 1 : History'[v] = IF v = Top + 1 THEN r ELSE History[v]
    <3>1. \A v \in 1..Top + 1 : v \in 1..Top \/ v = Top + 1
      BY <1>1
    <3> QED BY <3>1, <1>1, <1>4, <1>5
  <2> QED BY <1>1, <1>6, <2>1, <2>2
<1> QED BY <1>1, <1>2, <1>3, <1>7 DEF Plan!Save

\* Saving implements the linear history, whatever accepts do beside it.
LEMMA HistoryStep ==
  ASSUME IInv, IInv', HistoryInv', [Next]_vars
  PROVE  [Plan!Next]_History
<1>1. ASSUME NEW e \in Savers, NEW r \in Revisions, CommitSave(e, r)
      PROVE  [Plan!Next]_History
  BY <1>1, HistorySave DEF Plan!Next
<1>2. ASSUME NEW a \in Acceptors, CommitAccept(a)
      PROVE  [Plan!Next]_History
  <2>1. /\ \A r \in Revisions : rows'[r].version = rows[r].version
        /\ Existing' = Existing /\ current' = current
    BY <1>2, CommitAcceptEffect DEF CommitAccept
  <2> QED BY <2>1, HistoryStutter DEF Existing
<1>3. ASSUME UNCHANGED <<rows, current>>
      PROVE  [Plan!Next]_History
  <2>1. Existing' = Existing
    BY <1>3 DEF Existing
  <2> QED BY <1>3, <2>1, HistoryStutter
<1> QED BY <1>1, <1>2, <1>3 DEF Next, Saving, Accepting, ReduceCommands,
    RefuseSave, CheckCurrent, SelectOthers, SupersedeRow, MarkAccepted,
    AbortAccept, ReportCompleted, vars

\* The plan has one straight history: each acknowledged save is its new head.
THEOREM Refinement == Spec => ImplementsHistory
<1>1. Init => Plan!Init
  <2> SUFFICES ASSUME Init PROVE History = <<Root>>
    BY DEF Plan!Init
  <2>1. rows[current].version = 1 /\ rows[current].edits = {Root}
    BY RevisionsAssumption DEF Init
  <2>2. rows[Root].version = 1
    BY RevisionsAssumption DEF Init
  <2>3. History = [v \in 1..1 |-> CHOOSE r \in {Root} : rows[r].version = v]
    BY <2>1 DEF History
  <2>4. \A v \in 1..1 : (CHOOSE r \in {Root} : rows[r].version = v) = Root
    BY <2>2
  <2> QED BY <2>3, <2>4
<1>2. HistoryInv' /\ IInv' /\ IInv /\ [Next]_vars => [Plan!Next]_History
  BY HistoryStep
<1>3. Spec => []HistoryInv
  BY HistoryAt, Invariance, PTL
<1> QED BY <1>1, <1>2, <1>3, Invariance, PTL
        DEF Spec, ImplementsHistory, Plan!Spec
=============================================================================
