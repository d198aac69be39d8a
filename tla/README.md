# Property Scanner: a verified model

This directory holds TLA+ models of the property-scanner monorepo, the TLC
configurations that check them on small instances, and proofs, checked by TLAPS,
of what holds for every instance. The source is the reference: each definition
that stands for code is listed with its lines in `PROJECT.json` ("map").

The property scanner turns a LiDAR capture of a building into a floor plan people
review. An iOS app captures rooms and uploads a bundle; an API server (Fastify)
keeps sessions, uploads, plans and media in PostgreSQL and object storage; a
worker imports bundles into plans and delivers webhooks; a web editor corrects
and accepts plans; StudioKL is a subscriber of the webhooks. There is no shared
memory between processes: everything they agree on is a row, a stored object or
an HTTP answer. What can go wrong is therefore in the gaps between statements.

## Inventory

For each part: its state, its operations, who it meets, what is hard, and what
makes it correct.

**Scan sessions** (`repositories/scanSessions.ts`, `routes/scanSessions.ts`).
State: `scan_sessions.status`, `plan_id`, `failure_reason`. Operations: create,
report a status, submit, and the importer's two outcomes, all through one guarded
UPDATE. Device, web client, API requests and workers all move the same row.
Hard: legal sequences of reports reach states an import should produce.
Correct: only legal moves; at most one plan, attached by the move that reveals it.

**Capture upload** (`routes/scanSessions.ts` 258-482, `captureArtifacts.ts`).
State: the artifact row, part rows, objects in storage. Operations: register, put
a part or the whole, ask what is missing, verify and complete. Hard: row and bytes
are separate, PUT is never locked out, parts are assembled once, uploads resume
after re-registration. Correct: what is imported is what was verified.

**Session completion and job queue** (`jobs.ts`, `importRuns.ts`, the `/complete`
route). State: `jobs`, `import_runs`. Operations: enqueue on a unique key, claim
with SKIP LOCKED, complete, fail into retry or dead-letter. Hard: requests race
between check and transaction; a worker dies holding a job; retries repeat work
that was done. Correct: one submission, one worker per job, bounded retries, and
a settled session behind every succeeded job.

**Import worker** (`worker.ts`, `importCapture.ts`). State: what a running job has
read so far. Operations: look up the artifact, fetch, check digests, preserve raw
files, parse, normalize, commit; or mark failed. Hard: every step may fail or be
the last; the world moves between the read of the row, of the bytes and the
commit. Correct: plans come from verified bytes, are linked, are announced only
once committed; a raw file is written once.

**Normalization and geometry** (`normalizeGeometry.ts`, `roomplanAdapter.ts`,
`packages/geometry`). Pure functions of the bundle: transforms, loop assembly, units.
Hard: points within a chain of tolerances, loops that do not close or close twice,
rounding that carries. Correct: a boundary outlines one ring of walls; the formatters
agree.

**Plan revisions** (`routes/plans.ts`, `repositories/plans.ts`). State:
`plans.current_revision_id`, `plan_revisions`. Operations: save a child revision
on a parent, accept the current revision. Editors and reviewers meet on one plan.
Hard: optimistic concurrency on saves, no lock on the check that an acceptance
makes, row locks taken in any order. Correct: one straight history, no
acknowledged edit lost, an authoritative revision that does not vanish.

**Plan commands** (`lib/applyCommands.ts`) and the **web editor**
(`app/plans/[planId]/page.tsx`). State: a page's base revision and list of unsaved
commands, replayed locally and reduced on the server. Hard: two reducers must agree;
commands typed during a save; answers lost after the save; verification marks that
outlive the value they were given for. Correct: what is previewed is what is saved,
findings included, what the page says of a save is so, a verified opening has a recorded measurement.

**Outbox, dispatcher, subscriber** (`outbox.ts`, `dispatchOutbox.ts`,
`integrations/studiokl`). State: `outbox_events`, `webhook_deliveries`, the
subscriber's seen events. Operations: append with the domain commit, fan out,
deliver, record; check seen, mark seen, act. Hard: every worker dispatches the
same rows without a claim; timeouts whose request was served; a dispatch cut short.
Correct: nothing committed is lost on the way; an event is acted on
once; every pair settles.

**Idempotency keys** (`plugins/idempotency.ts`) and **handoff tokens**. State:
`idempotency_keys`, `scan_handoff_tokens`. Operations: reserve, look up, handle, complete
or release; issue and redeem. Hard: requests with one key overlap, a handler throws
after its insert, the process dies holding a reservation, an answer is lost. Correct:
one answer per key, one session per key as long as no handler fails late, a token
spent by one redemption, whatever becomes of its answer.

**Media** (`routes/media.ts`, `lib/imageMeta.ts`). State: the media row, the object,
the link. Operations: create, PUT, complete (digest, type, Exif removal), link. Hard: the
row is checked and written in separate statements, completion replaces the object it
has verified, the second verdict overwrites the first. Correct: a ready row describes
the object; what is linked is ready.

**Facades and measurements** (`routes/exterior.ts`, `facades.ts`, `measurements.ts`,
`entitlements.ts`). State: the entitlement, facades, openings, measurements. Hard: two
transactions denormalize into one opening and their rows carry the time they began; the
entitlement is asked for before the insert, or not at all. Correct: what is shown was
measured and is recent; nothing exists without an entitlement at some time.

**Authentication, organizations, properties, contracts, configuration, logging,
storage drivers, migrations, scripts**: look-ups, inserts and wiring without
behaviour over time.

`PROJECT.json` lists all of them with their status, and under "hazards" each
line where this code can go wrong in a way a test would hardly reach.

## Modules

| module | what it is |
|---|---|
| `ScanLifecycle` | abstract: what the session row promises its readers |
| `ImportPipeline` | from device reports and uploads to the committed plan and its events |
| `ImportPipelineProofs` | its theorems |
| `PlanHistory` | abstract: one straight history of saves |
| `PlanRevisions` | saving and accepting revisions of one plan |
| `PlanRevisionsProofs` | its theorems |
| `WebhookDelivery` | from an outbox row to a subscriber's action |
| `WebhookDeliveryProofs` | its theorems |
| `CaptureUpload`, `CaptureUploadProofs` | the resumable upload: device, upload routes, storage |
| `SessionStart`, `SessionStartProofs` | a session created under an idempotency key, and its handoff token |
| `PlanEditing`, `PlanEditingProofs` | browser pages, their previews, and the reducer that saves |
| `FacadeMeasurements`, `FacadeMeasurementsProofs` | measurements and the opening that shows them |
| `MediaLifecycle` | a photo from upload to link |
| `RoomGeometry` | the normalization of one room, and the display of dimensions |
| `MediaAndGeometryProofs` | the theorems of these two, which share induction over sequences |
| `MC...` | instances for TLC: symmetry sets, the reports clients send, sample zips, photos, walls |

`ScanLifecycle` and `PlanHistory` are the abstract specifications. The other modules
meet at rows that each models as it sees them: `SessionStart` ends where `ImportPipeline`
begins (a session in `draft`), `CaptureUpload` details the steps `ImportPipeline` takes
in a few (`RegisterUpload`, `PutBundle`, `VerifyUpload`, `MarkUploaded` there), `PlanEditing` takes as one
step the save that `PlanRevisions` takes apart, and `RoomGeometry` is what `CommitImport`
stores.

**Grain.** One SQL statement outside a transaction, one `withTransaction` block,
one storage call or one HTTP exchange is one step, except where the rows a
transaction locks matter: `acceptRevision` is modelled statement by statement,
the superseding UPDATE even row by row, with its snapshot and its row locks.
A `pc` field names the next step of each request, worker or handler.

**ImportPipeline.** `status`, `planId`, `reason` are columns of the session;
`artifact`, `runs`, `jobs`, `plans`, `outbox` are tables; `object` and `raw` are
storage. `verified` is the request that has compared a digest and not yet marked
the row. `requests` are `/complete` calls: `CheckSession`, `PickArtifact`,
`SubmitSession` or `RefuseSubmit`. A worker runs `ClaimNextJob`,
`StartImportRun`, `LookupArtifact`, `FetchBundle`, then for each raw file `CheckRaw` and, if
it is missing, `PutRaw`, then `CommitImport` or `RollBackImport`, `FailImport`, `CompleteJob`; `Fault` sends it
to `FailJob`, `Crash` drops what it held; either may cut a put of the filesystem driver short and
leave the file `Torn`. A file that is there is left alone. Bundles are members of `Contents`: the
digest of a bundle is the bundle, `Verifiable` those whose manifest and file
checksums are right, `Readable` those with a parsable room as well.

**PlanRevisions.** `rows` are the revisions, `current` the plan's pointer. A row's
`edits` are the revisions whose changes its payload contains, which is what "lost
edit" is about; `announced` are the acceptances whose transaction committed.

**WebhookDelivery.** `events` and `rows` are the tables, a row's number its
`created_at` order. A worker remembers what it selected (`todo`, `batch`), because
that is what it writes back. A handler belongs to a request that may outlive
the worker's timeout. `acted` counts actions, which only `Actionable` events have; `overlapped`
remembers the events that a subscriber was sent while it was serving them.

**CaptureUpload.** `device` is the state of `ResumableUploader.upload`: register, ask for
the status, send what is missing, complete. It waits for one request at a time but may
give it up, while the server goes on (`givenUp`): so two requests of different attempts
overlap. `zip` may be replaced between attempts (`BundlePackager` removes and rewrites the
file under the same capture id). Bytes are sequences of pieces `<<version, part>>`, and
`Torn` is a part file that `writeFile` has truncated and not filled. `refused` keeps what a
422 was about: the bytes that were put together and the version registered. `CheckParts`,
`ReadPart`, `PutAssembled`, `VerifyUpload` and `MarkUploaded` are completion, in its order.

**SessionStart.** `keys` is the table of keys; `ReserveKey` is the insert that does nothing on
conflict, `Replay` the look-up of the row in the way, `CreateScanSession` and
`RecordAuditEvent` the handler's statements, `HandlerThrows` and `ReleaseKey` the catch
branch, `RequestDies` the end of the process between two statements. `lateFailures` counts
handlers that threw after their insert. `RedeemHandoffToken` is one conditional UPDATE; a
device then waits (`redeeming`) for an answer that comes (`AnswerRedemption`) or is lost
(`LoseRedemption`), after which any device may ask again.

**MediaLifecycle.** `media` is the row, `object` what is stored under its key. A completion goes
`read`, `strip`, `ready` (or `reject`) and reads the row only once. `late`, `died`,
`overlapped` say what else happened, because the properties excuse nothing else.
`Stripped` is `stripJpegExif`: `Keep` says what remains of the first segments of a JPEG, and
nothing changes unless an Exif segment was among them.

**PlanEditing.** An editor has the `base` it loaded and its `commands`; `Draft` is `replay` on the
page (`Drafts`: what it shows after each command), `Reduce` is `applyCommands` at the API, with
the evolving payload (`ReducedBy`, `Reductions`), the error of the first command that fails, and
at the end the findings on unattached openings (`Unattached`), which the page shows as it loaded
them (`Findings`).
`Offered` are the controls the page shows, so that commands are
those a user can push. `LoseAnswer` leaves the request to be served later; `RefuseSave` and
`CommitSave` answer the page that still waits. `ClientPost` is an API client that sends what the page
has no control for.

**FacadeMeasurements.** A POST of a measurement is `FindFacadeOpening`, then a transaction:
`RecordMeasurement` (BEGIN and the insert), `ApplyMeasurement` (the UPDATE, which waits for
the row), `Commit`. `began` and `committed` order transactions.

**RoomGeometry.** A capture (`CaptureSpec`) grows by walls and openings; everything else is a
function of it. `AssembleClosedLoop` takes the code's steps in its order: `Clusters` gives the corners
after each wall, `Walks` the corners and the walls used after each step along the first unused edge,
`Areas` the sum of the shoelace formula; `NearZero` is the area the code takes for none. `Placed`
is the map of segments by identifier after each wall: a wall whose identifier is there takes the
place of the other. The formatters work on sixteenths of an inch.

**Refinement.** `ImportPipeline` implements `ScanLifecycle` (`ImplementsLifecycle`)
and `PlanRevisions` implements `PlanHistory` (`ImplementsHistory`); the mapping of
the second reads the history off the current revision's edits by version.

## Runs

| run | question | bounds |
|---|---|---|
| `pipeline_safety` | all safety properties of the pipeline, with every report the endpoint lets through | 2 workers, 2 requests, 2 bundles of 2 raw files on the filesystem, 2 attempts, 2 errors, 1 crash |
| `pipeline_liveness` | is a submitted session settled? | 2 workers, 2 captures, errors fewer than attempts, no crash, client reports only |
| `revision_safety` | history and authority under all races | 2 savers, 2 acceptors, 4 revisions |
| `webhook_delivery` | does an event arrive, and is it acted on once, with workers that share no claim? | 2 workers, 1 event, 1 remote endpoint serving 1 request at a time, 2 attempts, 1 interrupt |
| `capture_upload` | is only a whole zip marked uploaded, and what is wrong with one that is refused? | zips of 1, 2, 2 and 3 parts, 2 requests at the server, 3 attempts, both drivers |
| `session_start` | one answer per key, one session per key, one redemption per token? | 2 keys, 2 bodies, 2 requests at a time, 3 sessions, 2 failures, 2 devices |
| `media_lifecycle` | does a ready row describe the object, whatever overlaps? | 3 photos, 3 requests at a time, 6 in all, both drivers |
| `plan_editing` | is the preview honest, the notice true, a verified opening on record? | 1 imported opening, 2 pages, 2 commands pushed, 3 revisions, 1 request of another client, 2 saves in flight |
| `facade_measurements` | is what is shown measured, recent and paid for? | 1 opening, 2 values, 2 requests at a time, 5 in all |
| `room_geometry` | one ring of the walls as captured, equal displays? | 5 surfaces (an opening and a repeated identifier count two), 10 segments on a 4 cm grid, 5 widths |
| `accept_twice`, `verified_estimate` | a comment and a label the code does not keep | as small as the counterexample allows |

Type invariants are checked by the runs, except those of `PlanEditing` and
`RoomGeometry`, which are proved only.

Why the bounds are enough: the dangerous situations need two actors on one row and
one repetition. Two workers and two attempts give a retry that meets the first
attempt's effects; one error after the commit and one crash give each of those a
partial failure; two bundles give a good one and one without rooms that is put in its
place, before, between or after the raw files of an attempt; two raw files give a copy that stops
half-way; two captures give a choice of the newest. Four
revisions let a save land before, between and after two accepts. One session
suffices because the pipeline's steps never read another session's rows; the
theorems do not use that. Three upload attempts are one that is abandoned, one whose
zip is another and one that completes; four sizes of zip make the next one equal, shorter
and longer. Six media requests are two PUTs, two completions that overlap, a retry and a
link. Two commands on two pages meet in every order with a third client's save between
load and save. Five surfaces make triangles and quadrilaterals with a spare wall or a
wall replaced; among the segments are one corner on the line between others, a triangle of half a
square, and ends that are near one another in a chain. One endpoint has no fan-out that is partial
between endpoints, and a subscriber that serves one request at a time no overlap: both are left to
the theorems, as a second of either takes the liveness check out of reach. Symmetry is used in safety runs only, over values the model
treats alike.

Bounds in guards: `MaxFaults`, `MaxCrashes`, `MaxInterrupts`, `MaxFailures` limit errors
and deaths, `MaxCaptures` uploads per session, `Runs`, `Revisions`, `MaxRows` the rows
that can be inserted, `Handlers` the requests a subscriber serves at once. `MaxRequests`, `MaxSessions`, `MaxEdits`, `MaxClient`, `MaxInFlight`,
`MaxRevisions` and `MaxSurfaces` what clients do. `MaxRows`
is chosen so that it never stops an insert: each worker that has selected an
event inserts at most one row per endpoint, each interrupt adds at most that again.

**Fairness.** Weak fairness of each worker's step, in both liveness runs: `main.ts`
calls `tick` for ever, and a POST ends after `DELIVERY_TIMEOUT_MS` whatever the
subscriber does. Nothing is assumed of devices, requests or subscribers.
`EverySubmissionSettles` needs errors fewer than attempts, no death of a worker,
and clients that report only their own transitions; what happens otherwise is the
subject of "Seen on the way" below and of ADR 0002 (which defers leases).
The other modules state no fairness: their clients may stop at any point. The runs of uploads,
media, facades, editing and geometry therefore do not check for deadlock (their clients have
used up the bounds); the others do.

## What the runs found

- `accept_twice`: `acceptRevision` supersedes from a snapshot; when two accepts of
  successive revisions overlap, both end up accepted.
- `verified_estimate`: typing a dimension over a verified one leaves the opening
  `field_verified` with a value nobody measured.

## Seen on the way

Behaviours of the code that the models contain and that no run is about, for whoever
changes these parts:

- A job that runs out of attempts leaves its session in `processing` (`jobs.ts:57`).
- When the import commits and `completeJob` then fails, the retry announces
  `scan.failed` for a session that is up for review.
- Raw files are kept under the capture, not the bundle (`importCapture.ts:138-143`): if an attempt
  stops between two of them and the bundle is replaced and verified before the retry, the plan's
  raw files are of two bundles. With the filesystem driver one may be half written.
- The status endpoint lets `needs_review` be reported by a client.
- `acceptRevision` checks that a revision is current without a lock: a save may slip in.
- The StudioKL handler asks for a seen event and marks it in two awaited calls, before it acts: two
  requests about one event that overlap both act, and an action that failed is not repeated.
- With the filesystem driver a part counts as received while an abandoned PUT is still
  writing it (`scanSessions.ts:63`), so a resumed upload skips it; the assembled bundle is then kept
  for good, because completion assembles only while no bundle exists. So "every step safe to
  retry" (`ResumableUploader.swift:6-7`) does not hold there, even for a zip packaged once.
- A process that dies between reserving a key and completing it leaves the key at 409.
- `POST /v1/measurements` asks for no entitlement and has no idempotency key; its
  `supersedesId` is never passed on; one measured dimension verifies the whole opening.
- On the plan page, commands pushed while a save is under way are dropped by the reload after
  "Corrections saved"; a save whose answer was lost is followed by "Someone else saved"; verifying an
  opening without dimensions is offered and refused with 422.
- The page's `replay` is said to mirror "the server reducer's effects" (`page.tsx:51`) and does not
  recompute findings as `applyCommands.ts:135-150` does: an opening added without a wall is shown without
  its finding, and one removed keeps its own.
- Two walls of one identifier are both listed in the payload; the boundary is assembled from the
  second only (`normalizeGeometry.ts:97`).
- Not in the model: `normalizeGeometry.ts:218` throws for an opening on a wall that is a point in the
  plan, and the import fails for a room the other findings would have described.
- In `segments.ts` the corner a point falls into depends on the order of walls when
  tolerances chain. The reasons `corner_segment_count_mismatch` and
  `loop_does_not_close` are never given, for any walls (`ReasonsNeverGiven`, proved): the
  checks are redundant, and harmless.

## What is proved

`ImportPipelineProofs`, for any sets of sessions, workers, requests, bundles and
any attempts and errors, from `PipelineAssumption` (the inclusions between kinds of
bundles, reports taken from the transition table, at least one attempt, `None`
distinct from values): type correctness, at most one plan, plans linked, plans from
verified bytes, exclusive workers, settled sessions behind succeeded jobs, events
after commits, raw files written once, one submission, bounded retries, and the
refinement of `ScanLifecycle`.

The inductive invariant `IInv` adds to the properties what each step relies on. The
type is not inductive alone: claiming increments `attempts`, which stays in range
only because a queued job has an attempt left (`JobInv`). A worker's `key` names a
running job nobody else holds (`WorkerInv`): that is what makes workers exclusive,
and `CommitImport` trustworthy, as the facts established by `FetchBundle` travel with the worker's `pc`. A session with a plan is reviewable
(`PlanInv`), so a session in `processing` has none, which is why the guard on
the transition gives at most one plan. One lemma per action, combined in `NextIInv`.

Some properties have invariants of their own on top of `IInv`. `SubmitInv`: whatever has
an import run or an event has been submitted, which no step undoes, so a later
submission finds nothing of an earlier one. `RetryInv`: a queued job has had an error
for each attempt, and so has the worker about to call `failJob`. `CopyInv`: a worker at file n of
its loop has found or put every file before it, and two workers never copy files of one capture, as
a session has one job (`SubmitInv`). Hence between the `exists` and the `put` of a file nobody else
writes it, and a plan is committed only when every raw file is there.

`PlanRevisionsProofs`, for any number of revisions, savers and acceptors, from
`RevisionsAssumption`: type correctness, linear lineage, no lost edit, persistence
of authority, the refinement of `PlanHistory`, and exclusivity of acceptance under
the explicit hypothesis that accepts do not overlap (which the code does not
ensure: see `accept_twice`). The invariant says that the current revision contains
every edit, has the greatest version, and that versions from 1 up to it are each
used once; a child of the current revision then has a version and a parent of its
own. `AuthorityPersists` is inductive relative to `IInv`: acceptance writes its own row last.

`WebhookDeliveryProofs`, for any number of events, endpoints, workers and requests,
from `DeliveryAssumption`: type correctness, complete fan-out, that a recorded
success was acknowledged, and that an action is repeated only by requests that overlap. What a worker remembers must stay true while others write:
rows keep event and endpoint once inserted (`RowsKept`), subscribers forget nothing
(`SeenKept`), and a request keeps its subject until it answers (`RequestKept`). Hence
`WorkerInv`: the endpoints a worker has ticked off have their rows, and the request it
waits for is about its delivery. `AloneInv` is about an event that no subscriber was sent while
serving it: one request is about it at a time, and once one has acted the others do not pass the
check.

`SessionStartProofs`, for any keys, bodies, requests, tokens and devices, from
`StartAssumption`: type correctness and the three properties. A request past its
reservation owns its row, and only one does (`OneOwner`), so nobody else can complete or
release it; a row that is done never changes again, and every answer is the response of
such a row (`AnswerInv`). `CountInv` counts: the sessions of a key are at most one more than its late
failures, and no more than them while the row is absent or its owner has not inserted yet,
so an insert can only restore the one. Tokens have an invariant of their own: a token
that is not used is nobody's, one whose answer was lost is nobody's any more, and at most one device
waits for it or holds it.

`CaptureUploadProofs`, for any zips, part counts, requests and attempts, from
`UploadAssumption`: type correctness (what completion assembles is never longer than what was
registered), `UploadedWasHeldWhole` (a request about to mark the row carries a version whose
bytes the bundle object has been, and `held` only grows), and `MismatchHasACause`. The last rests
on `CauseInv`, which follows every piece from the device to the refusal: what a request carries,
a part object holds or completion has put together at place n is piece n of a version, or torn
(`PieceInv`); torn pieces take the filesystem driver and a request the device has given up, since
otherwise the device waits for the only request there is (`OneRequest`); and all versions are the
first one until the capture is packaged again (`VersionInv`). So bytes of the registered length
whose digest differs have a piece that is torn, or one of another version.

`FacadeMeasurementsProofs`, for any openings, values and requests, from
`FacadeAssumption`: type correctness and the three properties. A transaction that commits does so
after every measurement under way or on record has begun (`RequestInv`, `RecordInv`), which makes what
it displays recent; a request past a check of the entitlement was served when it had been granted
(`GrantInv`).

`PlanEditingProofs`, for any pages, openings, dimensions and numbers of revisions, from
`EditingAssumption`: the type, and the three properties of the pass run for lists of commands of any
length. What the
page holds is a list of which every command was offered for the draft of those before it
(`Pushed`), a fact that pushes extend and undos shorten. By induction over the list, the
reducer then accepts it, and its rows and those of the preview differ in temporary ids alone
(`SavedRowsShow`): this needs that ids are distinct, that openings keep the number of the revision that
added them (`RevisionInv`), and that no command is about a temporary opening. As no control moves an
opening from its wall, the findings of a saved revision stay those the reducer would write for the
openings that were in it. `PageInv` and
`RequestInv` carry this across the exchange: a page waits for at most one answer, about the list
it sent unless it was changed since, and while its answers arrive no revision after its base is
its own but the one reported as saved.
`VerifiedHasProvenance` is inductive with the type, command by command (`ReductionInv`).

`MediaAndGeometryProofs`, for `MediaLifecycle`, any photos, segments and requests, from
`MediaAssumption`: type correctness, `ReadyMatchesObject` and `RefusalHasACause`. A completion reads
the row once, so what it knows must survive the other requests: as long as no upload came late, the
object is what the completion has read or that stripped (`ObjectInv`), and stripping
twice changes nothing (`StrippedBytes`, by induction over the segments); so two completions that overlap
store the same bytes, and whichever marks the row, it describes them (`ReadyInv`). `UntouchedInv`
says that without a death, an overlap or a late upload there is one completion, of
an object some client sent whole, which a refused digest can only differ from if two photos
were sent.

The same module, for `RoomGeometry`, any walls at any points and any widths, from `GeometryAssumption`:
both properties of the run, and `ReasonsNeverGiven`. The bound on surfaces plays no part in
them. `BoundariesAreRings` compares the code with the ends of walls as captured, not with the corners
the code makes of them: unless tolerances are chained (`Clear`) the two are the same corners
(`CornersOfNodes`, `EdgeRingIsRing`). The rest is a theorem about graphs: the greedy walk finds the ring
exactly if there is one. Its invariant `WalkInv` says that no corner is met twice but the first (`Simple`), walls at
corners not met are unused (`Fresh`) and at corners passed are used (`Passed`), an open walk
has one wall left at either end (`EndsOpen`), a closed one none (`EndsClosed`), the walk runs
`Along` the walls it has used, and has used one for each step (`Counted`). Hence a walk that
is stuck is closed, and it has used every wall if and only if no set of corners is cut off. A walk
that has used every wall outlines them (`RunsOutline`), chained tolerances or not.
Reversing a polygon negates its area, so `ensureCcw` makes it positive. The case of too few
or too many walls is excluded by counting ends of walls in two ways (`AsManyWalls`).
`WidthsShownAlike` compares the two formatters by the eighths they have to show:
the one divides by a common divisor, the other knows the quarters and the half.

Induction: the library's theorems for it take an operator, which the provers here do not instantiate.
Both modules therefore prove an induction rule about sets of numbers (`NatSetInduction`) from the
well-founded order of the naturals, from it that a value and a step define a function
(`IteratesExist`), and then, for each recursive function of the models (`Keep`, `Reductions`,
`Drafts`, `Clusters`, `Walks`, `Areas`, `Placed`), the equations it was defined by.

Some theorems have no run: `RetriesAreBounded` (of the job queue), `SoleAcceptorIsExclusive` (under
its hypothesis on accepts), `ReasonsNeverGiven`, `EditingTypeCorrect` and `GeometryTypeCorrect`.

Every invariant and every action property of a passing run is now stated by a theorem, and so are
both refinements. Model-checked only: the liveness properties `EverySubmissionSettles` and
`EveryEventSettles`, as TLAPS reaches neither liveness under fairness nor ENABLED; and the two
findings, which are counterexamples.

## Abstractions to know about

- The raw prefix is keyed by capture; the code uses the manifest's `captureId`. All bundles list
  the same number of raw files. The import is run with the filesystem driver, which can do all that
  the S3 driver can and tear a file besides.
- Backoff only delays: a queued job or failed delivery may be taken at any time.
- An error takes effect as "statement had no effect". A commit whose answer was
  lost is an error at the following step.
- `RefuseSave` stands for the 409 and for the error a violated unique version gives.
- A plan is identified by the attempt that created it, a run's events by attempt.
- Query limits (10 events, 20 deliveries) are not reached. Secrets always decrypt; a delivery
  whose secret does not would throw out of its batch at every tick (`dispatchOutbox.ts:80`), and
  would not settle. A pair that has settled may be failed again by a worker that selected it before.
- The failing branch of `LookupArtifact` is there because the code has it; no
  reachable state of this model takes it.
- Webhook endpoints do not change during a run; whether remote ones are refused is chosen
  once, as the configuration is.
- `CaptureUpload`: whole contents and bundles are stored at once, only part files are torn here;
  the status of an upload is read in one step. `UploadQueue` is not modelled: nothing in the app
  calls it.
- `PlanEditing`: an opening has one dimension and a host or none; room names, other fields,
  values the schema refuses and unknown walls are left out. Of findings only those on unattached
  openings are kept, as no other is written by the reducer. A save is one step.
- `MediaLifecycle`: bytes are a type and a list of segments; image dimensions and the
  parsing of segment lengths are left out. Objects are stored at once, although the filesystem
  driver's `writeFile` may be cut short by a death of the process; such a write is modelled where it
  has consequences beyond one request, in `CaptureUpload` and for raw files.
- `FacadeMeasurements`: measurements of facade openings only.
- `RoomGeometry`: end points instead of transforms, on a 4 cm grid where the 5 cm tolerance joins
  neighbours and nothing else, and half a square, 8 cm2, is the only area but 0 below the 10 cm2 of
  `near_zero_area`; no floating point. Of openings only the width counts: the look-up of their wall,
  their offset along it and the findings about them are not modelled.
- Secrets, signatures, schemas, authorization and audit rows are left out.

## Not modelled, and why

Authentication and the API shell decide before any modelled step who may call; webhook
endpoint registration is one insert; contracts, configuration, logging and fixtures are data
and parsing; scripts are development tooling. Matrix transforms, offsets along walls and sill heights
are real arithmetic, which TLC does not have. The drawing, the text fields and the accept
button of the web editor, and the capture screens of the app, keep no state anyone else sees,
except the stale text of a dimension field (`page.tsx:105`), which stays a hazard without a property.

## Plan

Done, in order of what matters most: the pipeline, plan revisions and webhooks with their
proofs; then uploads, session start, media, editing, facades and geometry, and their
proofs. What is left, in order:

1. A bound on a delivery's attempts in `WebhookDelivery`: the workers that hold it when it is
   given up may each add one, so the proof has to count them.
2. The composition of `CaptureUpload` with the import: a refinement of the artifact steps of
   `ImportPipeline`.
3. The text fields and the accept button of the plan page in `PlanEditing`.
4. Transforms and offsets on an integer grid of right angles in `RoomGeometry`.
5. The device's state machine beside the server's, once the app runs `UploadQueue`.
