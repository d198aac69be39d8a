------------------------------ MODULE PlanEditing ------------------------------
(***************************************************************************)
(* Corrections to a plan: browser pages that keep a list of typed commands *)
(* over the revision they loaded and preview its effect, the API's reducer *)
(* that turns the list into the next revision, and other API clients.      *)
(*                                                                         *)
(* An opening has one dimension and a host wall or none; room names, types *)
(* and offsets behave like the dimension and are left out, and so are      *)
(* values that the schema refuses and unknown walls.  Of the quality       *)
(* findings only those on unattached openings are kept, since no other is  *)
(* written by the reducer.  The races of the saving transaction are in     *)
(* PlanRevisions: here it is one step.  An answer may be lost, and its     *)
(* request may still be served.                                            *)
(***************************************************************************)
EXTENDS Naturals, Sequences, FiniteSets, SequencesExt

CONSTANTS
  Editors,       \* browser pages on the plan
  Import,        \* openings of the first revision
  Reported,      \* those that its findings call unattached
  Sizes,         \* dimensions the schema accepts
  MaxEdits,      \* commands pushed over a behaviour (bound)
  MaxRevisions,  \* revisions of the plan (bound)
  MaxClient,     \* requests of other API clients (bound)
  MaxInFlight,   \* save requests in flight at a time (bound)
  None

VARIABLES
  revisions,     \* payloads by version: openings, findings and author
  measurements,  \* measurements recorded: opening, dimension, revision
  requests,      \* save requests in flight
  editors,       \* state of each page
  edits,         \* commands pushed so far
  posted         \* requests of other clients so far

vars == <<revisions, measurements, requests, editors, edits, posted>>

\* An opening is <<revision that added it, index>>, a previewed one <<0, index>>.
Ids == Nat \X (Nat \ {0})
Dimensions == Sizes \cup {"not_processed"}
Opening == [id : Ids, host : {"wall", "none"}, size : Dimensions, verified : BOOLEAN]

ASSUME EditingAssumption ==
  /\ {MaxEdits, MaxClient, MaxInFlight} \subseteq Nat /\ MaxRevisions \in Nat \ {0}
  /\ None \notin Editors \cup Ids
  /\ {"not_processed", "other"} \cap Sizes = {}
  /\ Import \in Seq(Opening)
  /\ \A i \in DOMAIN Import : Import[i].id = <<1, i>> /\ ~Import[i].verified
  /\ Reported \subseteq Ids

CommandType ==
  [type : {"resize", "rehost", "add", "remove", "verify"}, id : Ids \cup {None},
   host : {"wall", "none"}, size : Dimensions, more : BOOLEAN]

SaveRequest == [owner : Editors \cup {None}, awaited : BOOLEAN,
                base : 1..MaxRevisions, commands : Seq(CommandType)]
EditorType == [pc : {"loading", "editing", "saving", "reloading"}, base : 0..MaxRevisions,
               commands : Seq(CommandType),
               notice : {"none", "saved", "conflict"},   \* on the screen
               touched : BOOLEAN,   \* history: changed since Save was pressed
               unsure : BOOLEAN]    \* history: an answer or a reload was lost

Revision == [openings : Seq(Opening), unattached : SUBSET Ids, author : Editors \cup {None}]

TypeOK ==
  /\ revisions \in Seq(Revision) /\ Len(revisions) \in 1..MaxRevisions
  /\ \A n \in DOMAIN revisions : \A i, j \in DOMAIN revisions[n].openings :
       revisions[n].openings[i].id = revisions[n].openings[j].id => i = j
  /\ measurements \subseteq
       [id : Ids, size : Sizes \cup {"other"}, revision : 2..MaxRevisions]
  /\ requests \subseteq SaveRequest
  /\ editors \in [Editors -> EditorType]
  /\ edits \in 0..MaxEdits /\ posted \in 0..MaxClient

NewPage == [pc |-> "loading", base |-> 0, commands |-> <<>>, notice |-> "none",
            touched |-> FALSE, unsure |-> FALSE]

Init ==
  /\ revisions = <<[openings |-> Import, unattached |-> Reported, author |-> None]>>
  /\ measurements = {} /\ requests = {}
  /\ editors = [e \in Editors |-> NewPage]
  /\ edits = 0 /\ posted = 0

-----------------------------------------------------------------------------
(* applyCommands *)

Found(openings, id) == \E i \in DOMAIN openings : openings[i].id = id
\* What is kept of the first i openings.
Keep(openings, id) ==
  LET keep[i \in 0..Len(openings)] ==
        IF i = 0 THEN <<>>
        ELSE IF openings[i].id = id THEN keep[i-1] ELSE Append(keep[i-1], openings[i])
  IN keep
Keeping(openings, id) == Keep(openings, id)[Len(openings)]
With(openings, id, Change(_)) ==
  [i \in DOMAIN openings |->
     IF openings[i].id = id THEN Change(openings[i]) ELSE openings[i]]

Command(type, id) ==
  [type |-> type, id |-> id, host |-> "none", size |-> "not_processed", more |-> FALSE]

AddedOpening(c, id) == [id |-> id, host |-> c.host, size |-> c.size, verified |-> FALSE]

\* verifyOpening sets the dimension if it carries one, and `more` says that it
\* carries another, outside the model.
Measured(o, c) == IF c.size = "not_processed" THEN o.size ELSE c.size

\* Mistake: an opening can be verified without any dimension.
AcceptableUnmeasured(openings, c) ==
  c.type # "add" => Found(openings, c.id)
\* What the evolving payload must satisfy.
Acceptable(openings, c) ==
  /\ c.type # "add" => Found(openings, c.id)
  /\ c.type = "verify" => c.size # "not_processed" \/ c.more

Applied(openings, c, id) ==
  CASE c.type = "resize" -> With(openings, c.id, LAMBDA o : [o EXCEPT !.size = c.size])
    [] c.type = "rehost" -> With(openings, c.id, LAMBDA o : [o EXCEPT !.host = c.host])
    [] c.type = "add"    -> Append(openings, AddedOpening(c, id))
    [] c.type = "remove" -> Keeping(openings, c.id)
    [] c.type = "verify" -> With(openings, c.id,
                              LAMBDA o : [o EXCEPT !.size = Measured(o, c), !.verified = TRUE])

\* The values a command puts on record.
Verified(c) ==
  IF c.type # "verify" THEN {}
  ELSE ({c.size} \ {"not_processed"}) \cup IF c.more THEN {"other"} ELSE {}

Failed == [ok |-> FALSE, openings |-> <<>>, measured |-> {}]
Reduced(openings) == [ok |-> TRUE, openings |-> openings, measured |-> {}]

\* One command against the evolving payload of revision n.
ReducedBy(acc, c, n, i) ==
  IF ~acc.ok \/ ~Acceptable(acc.openings, c) THEN Failed
  ELSE [ok |-> TRUE,
        openings |-> Applied(acc.openings, c, <<n, i>>),
        measured |-> acc.measured \cup
          { [id |-> c.id, size |-> v, revision |-> n] : v \in Verified(c) }]

\* The payload after each command; the first that fails refuses the request.
Reductions(openings, commands, n) ==
  LET reduced[i \in 0..Len(commands)] ==
        IF i = 0 THEN Reduced(openings) ELSE ReducedBy(reduced[i-1], commands[i], n, i)
  IN reduced

\* Openings without a host wall: each has a finding in what the reducer returns.
Unattached(openings) == { openings[i].id : i \in {j \in DOMAIN openings : openings[j].host = "none"} }

Reduce(openings, commands, n) ==
  LET last == Reductions(openings, commands, n)[Len(commands)] IN
  [ok |-> last.ok, openings |-> last.openings, measured |-> last.measured,
   unattached |-> Unattached(last.openings)]

-----------------------------------------------------------------------------
(* The page *)

\* replay: commands about an opening that is not there do nothing.
Previewed(openings, c, id) ==
  CASE c.type = "resize" -> With(openings, c.id, LAMBDA o : [o EXCEPT !.size = c.size])
    [] c.type = "add"    -> Append(openings, AddedOpening(c, id))
    [] c.type = "remove" -> Keeping(openings, c.id)
    [] c.type = "verify" -> With(openings, c.id,
                              LAMBDA o : [o EXCEPT !.size = Measured(o, c), !.verified = TRUE])

\* What the page shows after each command.
Drafts(openings, commands) ==
  LET draft[i \in 0..Len(commands)] ==
        IF i = 0 THEN openings ELSE Previewed(draft[i-1], commands[i], <<0, i>>)
  IN draft
Replay(openings, commands) == Drafts(openings, commands)[Len(commands)]

Draft(e) == Replay(revisions[editors[e].base].openings, editors[e].commands)
\* replay leaves the findings of the loaded revision as they are.
Findings(e) == revisions[editors[e].base].unattached

Temporary(o) == o.id[1] = 0

\* The controls of one row.
RowCommands(o) ==
  IF Temporary(o) THEN {}
  ELSE { [Command("resize", o.id) EXCEPT !.size = s] : s \in Sizes }
       \cup {Command("remove", o.id)}
       \cup IF o.verified THEN {}
            ELSE {[Command("verify", o.id) EXCEPT !.size = o.size]}

AddCommands ==
  [type : {"add"}, id : {None}, host : {"wall", "none"}, size : Sizes, more : {FALSE}]

Controls(draft) == AddCommands \cup UNION { RowCommands(draft[i]) : i \in DOMAIN draft }
Offered(e) == Controls(Draft(e))

Busy(e) == editors[e].pc \in {"saving", "reloading"}

\* A change while a save is under way is not prevented.
Change(e, commands, notice) ==
  editors' = [editors EXCEPT ![e].commands = commands, ![e].touched = Busy(e),
                             ![e].notice = notice]

Push(e, c) ==
  /\ edits < MaxEdits
  /\ edits' = edits + 1
  /\ Change(e, Append(editors[e].commands, c), "none")
  /\ UNCHANGED <<revisions, measurements, requests, posted>>

Undo(e) ==
  /\ editors[e].commands # <<>>
  /\ Change(e, Front(editors[e].commands), editors[e].notice)
  /\ UNCHANGED <<revisions, measurements, requests, edits, posted>>

\* The page after a save, whatever became of it: what it says of one stays there.
Idle(page) == [page EXCEPT !.pc = "editing", !.touched = FALSE]

\* Mistake: the button is enabled again when the answer is there.
MaySaveEarly(e) == editors[e].pc \in {"editing", "reloading"}
MaySave(e) == editors[e].pc = "editing"

Save(e) ==
  LET r == [owner |-> e, awaited |-> TRUE, base |-> editors[e].base,
            commands |-> editors[e].commands] IN
  /\ MaySave(e) /\ editors[e].commands # <<>>
  /\ Cardinality(requests) < MaxInFlight
  /\ requests' = requests \cup {r}
  /\ editors' = [editors EXCEPT ![e].pc = "saving", ![e].touched = FALSE]
  /\ UNCHANGED <<revisions, measurements, edits, posted>>

\* The connection fails; the request may still reach the API or be at work there.
LoseAnswer(e) ==
  \E r \in requests :
    /\ r.owner = e /\ r.awaited
    /\ requests' = (requests \ {r}) \cup {[r EXCEPT !.awaited = FALSE]}
    /\ editors' = [editors EXCEPT ![e] = [Idle(@) EXCEPT !.unsure = TRUE]]
    /\ UNCHANGED <<revisions, measurements, edits, posted>>

\* Mistake: the corrections of the revision before stay on the list.
KeptOnLoad(e) == editors[e].commands
CommandsOnLoad(e) == <<>>

\* load: the current revision and an empty list.
Load(e) ==
  /\ editors[e].pc \in {"loading", "reloading"}
  /\ editors' = [editors EXCEPT
       ![e] = [Idle(@) EXCEPT !.base = Len(revisions), !.commands = CommandsOnLoad(e)]]
  /\ UNCHANGED <<revisions, measurements, requests, edits, posted>>

LoadFails(e) ==
  /\ editors[e].pc = "reloading"
  /\ editors' = [editors EXCEPT ![e] = [Idle(@) EXCEPT !.unsure = TRUE]]
  /\ UNCHANGED <<revisions, measurements, requests, edits, posted>>

-----------------------------------------------------------------------------
(* POST .../revisions *)

\* A client of its own attaches an opening to a wall, detaches it, or verifies the
\* dimension that is not modelled.
ClientCommands ==
  LET openings == revisions[Len(revisions)].openings IN
  UNION { { [Command("rehost", o.id) EXCEPT
               !.host = IF o.host = "wall" THEN "none" ELSE "wall"],
            [Command("verify", o.id) EXCEPT !.more = TRUE] } : o \in ToSet(openings) }

ClientPost(c) ==
  /\ posted < MaxClient /\ posted' = posted + 1
  /\ Cardinality(requests) < MaxInFlight
  /\ requests' = requests \cup {[owner |-> None, awaited |-> FALSE,
                                 base |-> Len(revisions), commands |-> <<c>>]}
  /\ UNCHANGED <<revisions, measurements, editors, edits>>

\* The page of an awaited request; a status of 409 also reloads the plan.
Answer(r, notice) ==
  IF ~r.awaited THEN UNCHANGED editors
  ELSE editors' = [editors EXCEPT ![r.owner] =
         IF notice = "none" THEN Idle(@)
                            ELSE [@ EXCEPT !.pc = "reloading", !.notice = notice]]

Stale(r) == r.base # Len(revisions)
Outcome(r) == Reduce(revisions[r.base].openings, r.commands, Len(revisions) + 1)

RefuseSave(r) ==
  /\ Stale(r) \/ ~Outcome(r).ok
  /\ requests' = requests \ {r}
  /\ Answer(r, IF Stale(r) THEN "conflict" ELSE "none")
  /\ UNCHANGED <<revisions, measurements, edits, posted>>

CommitSave(r) ==
  /\ ~Stale(r) /\ Outcome(r).ok
  /\ Len(revisions) < MaxRevisions
  /\ requests' = requests \ {r}
  /\ revisions' = Append(revisions, [openings |-> Outcome(r).openings,
                                     unattached |-> Outcome(r).unattached,
                                     author |-> r.owner])
  /\ measurements' = measurements \cup Outcome(r).measured
  /\ Answer(r, "saved")
  /\ UNCHANGED <<edits, posted>>

-----------------------------------------------------------------------------

PageStep(e) ==
  \/ editors[e].base # 0 /\ \E c \in Offered(e) : Push(e, c)
  \/ Undo(e) \/ Save(e) \/ LoseAnswer(e) \/ Load(e) \/ LoadFails(e)

Next ==
  \/ \E e \in Editors : PageStep(e)
  \/ \E c \in ClientCommands : ClientPost(c)
  \/ \E r \in requests : RefuseSave(r) \/ CommitSave(r)

Spec == Init /\ [][Next]_vars

-----------------------------------------------------------------------------
(* Properties *)

\* The same rows, up to the temporary ids of openings that are not saved.
SameRows(saved, shown) ==
  /\ Len(saved) = Len(shown)
  /\ \A i \in DOMAIN shown :
       saved[i] = IF Temporary(shown[i]) THEN [shown[i] EXCEPT !.id = saved[i].id]
                                         ELSE shown[i]

\* A list that a page may send: it verifies no opening that has no dimension.
Sendable(commands) ==
  \A i \in DOMAIN commands : commands[i].type = "verify" => commands[i].size # "not_processed"
Effect(page) == Reduce(revisions[page.base].openings, page.commands, page.base + 1)

\* A page's list, through pushes, undos, lost answers and reloads, is one that
\* the reducer accepts on the page's revision and turns into the rows that the
\* preview shows, unless it verifies an opening that has no dimension.  Once the
\* revision is one that was saved, the findings shown beside the preview are
\* those the reducer writes, except on openings that the list adds or removes:
\* the reducer recomputes them at its end, and replay never does.
PreviewIsHonest ==
  \A e \in Editors :
    LET page == editors[e]
        o == Effect(page)
    IN page.base # 0 /\ Sendable(page.commands) =>
         /\ o.ok /\ SameRows(o.openings, Draft(e))
         /\ page.base > 1 =>
              \A i \in DOMAIN Draft(e) :
                \/ Temporary(Draft(e)[i])
                \/ Draft(e)[i].id \in Findings(e) <=> Draft(e)[i].id \in o.unattached

\* "Corrections saved" is said when the page's draft is the next revision, or
\* the page was changed meanwhile; "Someone else saved a newer revision" when
\* somebody else did, or an answer or a reload of the page was lost.
NoticeIsTrue ==
  \A e \in Editors :
    LET page == editors[e] IN
    page.pc = "reloading" =>
      /\ page.notice = "saved" /\ ~page.touched =>
           /\ page.base < Len(revisions)
           /\ revisions[page.base + 1].author = e
           /\ SameRows(revisions[page.base + 1].openings, Draft(e))
      /\ page.notice = "conflict" =>
           \/ page.unsure
           \/ \E n \in (page.base + 1)..Len(revisions) : revisions[n].author # e

\* An opening is field-verified in a revision only if a measurement of it was
\* recorded with that revision or an earlier one, whoever verified it.
VerifiedHasProvenance ==
  \A n \in DOMAIN revisions : \A i \in DOMAIN revisions[n].openings :
    LET o == revisions[n].openings[i] IN
    o.verified => \E m \in measurements : m.id = o.id /\ m.revision <= n

-----------------------------------------------------------------------------
(* A label the code does not keep *)

\* "Measurements are preliminary estimates unless marked field_verified": a
\* verified opening shows what was measured last.
VerifiedIsMeasured ==
  LET o(n, i) == revisions[n].openings[i]
      Measurements(n, i) == { m \in measurements : /\ m.id = o(n, i).id /\ m.revision <= n
                                                   /\ m.size # "other" }
  IN \A n \in DOMAIN revisions : \A i \in DOMAIN revisions[n].openings :
       o(n, i).verified /\ Measurements(n, i) # {} =>
         \E m \in Measurements(n, i) :
           /\ \A k \in Measurements(n, i) : k.revision <= m.revision
           /\ m.size = o(n, i).size
=============================================================================
