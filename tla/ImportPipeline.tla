--------------------------- MODULE ImportPipeline ----------------------------
(***************************************************************************)
(* The path of a scan from the device to a reviewable plan: the            *)
(* scan_sessions row, the capture artifacts and their bytes in object      *)
(* storage, the API's "complete session" request, the jobs table, the      *)
(* worker processes that run import_capture jobs, the plans they create    *)
(* and the outbox rows that announce it.                                   *)
(*                                                                         *)
(* Grain of atomicity: one SQL statement outside a transaction, one whole  *)
(* withTransaction block, or one storage call is one step.  A worker may   *)
(* get an error from any of them (Fault) or die between two (Crash).       *)
(***************************************************************************)
EXTENDS Naturals, FiniteSets

CONSTANTS
  Sessions,      \* scan_sessions rows
  Workers,       \* worker processes
  Requests,      \* "complete session" requests the API serves at a time
  Runs,          \* ids of import_runs rows
  Contents,      \* the bundles a device can upload; the digest is the content
  Verifiable,    \* bundles whose manifest and file checksums are right
  Readable,      \* bundles with at least one parsable room as well
  Driver,        \* STORAGE_DRIVER: "fs" or "s3"
  Files,         \* files a manifest lists (the number of them)
  Reportable,    \* the (from, to) pairs that reach the status endpoint
  MaxCaptures,   \* capture artifacts per session (bound)
  MaxAttempts,   \* jobs.max_attempts
  MaxFaults,     \* errors the database or storage gives the workers (bound)
  MaxCrashes,    \* worker deaths (bound)
  Torn,          \* a file whose writing was cut short
  None           \* SQL null, absent object, no value

VARIABLES
  status,        \* scan_sessions.status
  planId,        \* scan_sessions.plan_id
  reason,        \* whether scan_sessions.failure_reason is set
  artifact,      \* capture_artifacts rows
  object,        \* bytes stored under the artifact's object key
  raw,           \* per file under the capture's raw/ prefix, the bundle it is of
  verified,      \* digest an upload-complete request has just compared
  requests,      \* the API's in-flight "complete session" requests
  runs,          \* import_runs rows
  jobs,          \* jobs rows, by job_key
  workers,       \* control state of each worker process
  plans,         \* plans rows (each with its initial revision)
  outbox,        \* outbox_events rows
  faults, crashes

captureVars == <<artifact, object, verified>>
sessionVars == <<status, planId, reason>>
budgetVars == <<faults, crashes>>
vars == <<status, planId, reason, artifact, object, raw, verified, requests,
          runs, jobs, workers, plans, outbox, faults, crashes>>

-----------------------------------------------------------------------------
(* Values *)

Captures == Sessions \X (1..MaxCaptures)   \* in order of created_at
JobKeys == Sessions \X Contents            \* `import:<session>:<sha256>`

\* A plan is identified by the attempt of the job that created it; `sha` and
\* `bundle` are what that attempt read from the artifact row and from storage.
PlanRows == [session : Sessions, capture : Captures, attempt : 1..MaxAttempts,
             sha : Contents, bundle : Contents]

Lifecycle == INSTANCE ScanLifecycle WITH Plans <- PlanRows, NoPlan <- None

Statuses == Lifecycle!Statuses
EventRows == [type : {"scan.processing", "scan.needs_review", "scan.failed"},
              session : Sessions, run : Runs, attempt : 0..MaxAttempts]
ArtifactRows == [status : {"absent", "pending", "uploaded"},
                 sha : Contents \cup {None}]
RawFiles == [1..Files -> Contents \cup {None, Torn}]
RunRows == [status : {"absent", "queued", "running", "succeeded", "failed"},
            session : Sessions \cup {None}]
JobRows == [status : {"absent", "queued", "running", "succeeded", "dead"},
            attempts : 0..MaxAttempts, run : Runs \cup {None},
            capture : Captures \cup {None}]
RequestStates == [pc : {"idle", "checked", "picked"},
                  session : Sessions \cup {None},
                  capture : Captures \cup {None}, sha : Contents \cup {None}]
WorkerStates == [pc : {"idle", "start", "lookup", "fetch", "preserve",
                       "put", "import", "fail", "complete", "retry"},
                 key : JobKeys \cup {None}, file : 1..(Files + 1),
                 sha : Contents \cup {None}, bundle : Contents \cup {None}]

ASSUME PipelineAssumption ==
  /\ Readable \subseteq Verifiable
  /\ Verifiable \subseteq Contents
  /\ Reportable \subseteq Lifecycle!Transitions
  /\ MaxCaptures \in Nat /\ MaxAttempts \in Nat \ {0} /\ Files \in Nat \ {0}
  /\ MaxFaults \in Nat /\ MaxCrashes \in Nat
  /\ Driver \in {"fs", "s3"} /\ Torn # None
  /\ None \notin Contents \cup Sessions \cup Runs \cup Captures \cup JobKeys
  /\ None \notin PlanRows

TypeOK ==
  /\ status \in [Sessions -> Statuses]
  /\ planId \in [Sessions -> PlanRows \cup {None}]
  /\ reason \in [Sessions -> BOOLEAN]
  /\ artifact \in [Captures -> ArtifactRows]
  /\ object \in [Captures -> Contents \cup {None}]
  /\ raw \in [Captures -> RawFiles]
  /\ verified \in [Captures -> Contents \cup {None}]
  /\ requests \in [Requests -> RequestStates]
  /\ runs \in [Runs -> RunRows]
  /\ jobs \in [JobKeys -> JobRows]
  /\ workers \in [Workers -> WorkerStates]
  /\ plans \subseteq PlanRows
  /\ outbox \subseteq EventRows
  /\ faults \in 0..MaxFaults
  /\ crashes \in 0..MaxCrashes

IdleRequest == [pc |-> "idle", session |-> None, capture |-> None, sha |-> None]
IdleWorker == [pc |-> "idle", key |-> None, file |-> 1, sha |-> None, bundle |-> None]

\* createScanSession has inserted the session rows; nothing else exists yet.
Init ==
  /\ status = [s \in Sessions |-> "draft"]
  /\ planId = [s \in Sessions |-> None]
  /\ reason = [s \in Sessions |-> FALSE]
  /\ artifact = [c \in Captures |-> [status |-> "absent", sha |-> None]]
  /\ object = [c \in Captures |-> None]
  /\ raw = [c \in Captures |-> [n \in 1..Files |-> None]]
  /\ verified = [c \in Captures |-> None]
  /\ requests = [q \in Requests |-> IdleRequest]
  /\ runs = [r \in Runs |-> [status |-> "absent", session |-> None]]
  /\ jobs = [k \in JobKeys |-> [status |-> "absent", attempts |-> 0,
                                run |-> None, capture |-> None]]
  /\ workers = [w \in Workers |-> IdleWorker]
  /\ plans = {}
  /\ outbox = {}
  /\ faults = 0
  /\ crashes = 0

-----------------------------------------------------------------------------
(* Shared repository helpers *)

\* Mistakes the mutant runs put in its place: no WHERE clause on the status,
\* or one that only spares sessions the user has completed.
MatchesAny(s, from) == TRUE
MatchesUnlessCompleted(s, from) == status[s] # "completed"

\* transitionScanSession's WHERE clause: the row must still be in `from`.
Matches(s, from) == status[s] = from

Event(type, s, r, n) == [type |-> type, session |-> s, run |-> r, attempt |-> n]

\* enqueueJob: a second insert of the same key returns the row already there.
Enqueue(k, r, c) ==
  jobs' = IF jobs[k].status = "absent"
            THEN [jobs EXCEPT ![k] = [status |-> "queued", attempts |-> 0,
                                      run |-> r, capture |-> c]]
            ELSE jobs

\* finishImportRun: overwrites whatever status the run has.
FinishRun(r, outcome) == runs' = [runs EXCEPT ![r].status = outcome]

-----------------------------------------------------------------------------
(* The device, through the API *)

\* POST .../status: one guarded UPDATE of a pair the endpoint accepts.
ReportStatus(s, to) ==
  /\ <<status[s], to>> \in Reportable
  /\ status' = [status EXCEPT ![s] = to]
  /\ UNCHANGED <<planId, reason, captureVars, raw, requests, runs, jobs,
                 workers, plans, outbox, budgetVars>>

\* POST .../uploads: the next capture of the session gets a pending row.
RegisterUpload(c) ==
  /\ artifact[c].status = "absent"
  /\ \A n \in 1..MaxCaptures :
       n < c[2] => artifact[<<c[1], n>>].status # "absent"
  /\ artifact' = [artifact EXCEPT ![c].status = "pending"]
  /\ UNCHANGED <<sessionVars, object, verified, raw, requests, runs, jobs,
                 workers, plans, outbox, budgetVars>>

\* PUT .../content, or the presigned URL: neither looks at the row's status.
PutBundle(c, b) ==
  /\ artifact[c].status # "absent"
  /\ object' = [object EXCEPT ![c] = b]
  /\ UNCHANGED <<sessionVars, artifact, verified, raw, requests, runs, jobs,
                 workers, plans, outbox, budgetVars>>

\* POST .../uploads/complete, first half: the stored bytes have the digest
\* the device declared (otherwise 409 or 422, and nothing changes).
VerifyUpload(c) ==
  /\ object[c] # None
  /\ verified' = [verified EXCEPT ![c] = object[c]]
  /\ UNCHANGED <<sessionVars, artifact, object, raw, requests, runs, jobs,
                 workers, plans, outbox, budgetVars>>

\* ... and second half: the row is marked with that digest.
MarkUploaded(c) ==
  /\ verified[c] # None
  /\ artifact' = [artifact EXCEPT ![c] = [status |-> "uploaded",
                                          sha |-> verified[c]]]
  /\ verified' = [verified EXCEPT ![c] = None]
  /\ UNCHANGED <<sessionVars, object, raw, requests, runs, jobs, workers,
                 plans, outbox, budgetVars>>

-----------------------------------------------------------------------------
(* POST .../complete: three steps of one API request *)

CheckSession(q, s) ==
  /\ requests[q].pc = "idle"
  /\ status[s] = "uploading"
  /\ requests' = [requests EXCEPT ![q] = [IdleRequest EXCEPT !.pc = "checked",
                                                             !.session = s]]
  /\ UNCHANGED <<sessionVars, captureVars, raw, runs, jobs, workers, plans,
                 outbox, budgetVars>>

UploadedOf(s) == { c \in Captures : c[1] = s /\ artifact[c].status = "uploaded" }

\* The newest uploaded artifact, read before the transaction begins.
PickArtifact(q, c) ==
  /\ requests[q].pc = "checked"
  /\ c \in UploadedOf(requests[q].session)
  /\ \A d \in UploadedOf(requests[q].session) : d[2] <= c[2]
  /\ requests' = [requests EXCEPT ![q] = [@ EXCEPT !.pc = "picked",
                                                  !.capture = c,
                                                  !.sha = artifact[c].sha]]
  /\ UNCHANGED <<sessionVars, captureVars, raw, runs, jobs, workers, plans,
                 outbox, budgetVars>>

\* The transaction: status, import run, job and event, or nothing at all.
SubmitSession(q, r) ==
  LET s == requests[q].session IN
  /\ requests[q].pc = "picked"
  /\ Matches(s, "uploading")
  /\ runs[r].status = "absent"
  /\ status' = [status EXCEPT ![s] = "processing"]
  /\ runs' = [runs EXCEPT ![r] = [status |-> "queued", session |-> s]]
  /\ Enqueue(<<s, requests[q].sha>>, r, requests[q].capture)
  /\ outbox' = outbox \cup {Event("scan.processing", s, r, 0)}
  /\ requests' = [requests EXCEPT ![q] = IdleRequest]
  /\ UNCHANGED <<planId, reason, captureVars, raw, workers, plans, budgetVars>>

\* 409: nothing uploaded yet, or the session moved on since it was checked.
RefuseSubmit(q) ==
  /\ \/ requests[q].pc = "checked" /\ UploadedOf(requests[q].session) = {}
     \/ requests[q].pc = "picked" /\ ~Matches(requests[q].session, "uploading")
  /\ requests' = [requests EXCEPT ![q] = IdleRequest]
  /\ UNCHANGED <<sessionVars, captureVars, raw, runs, jobs, workers, plans,
                 outbox, budgetVars>>

-----------------------------------------------------------------------------
(* A worker process: claimNextJob, processImportCapture, completeJob *)

At(w, pc) == workers[w].pc = pc
Goto(w, pc) == workers' = [workers EXCEPT ![w].pc = pc]
JobOf(w) == jobs[workers[w].key]
RunOf(w) == JobOf(w).run
SessionOf(w) == workers[w].key[1]

\* Mistake: a row another worker is running can be claimed again.
ClaimableTwice(k) == jobs[k].status \in {"queued", "running"}
Claimable(k) == jobs[k].status = "queued"

\* FOR UPDATE SKIP LOCKED: a queued row goes to one worker only.  The backoff
\* in run_at only delays a retry, so any queued job may be the next one.
ClaimNextJob(w, k) ==
  /\ At(w, "idle")
  /\ Claimable(k)
  /\ jobs' = [jobs EXCEPT ![k].status = "running",
                          ![k].attempts = @ + 1]
  /\ workers' = [workers EXCEPT ![w] = [IdleWorker EXCEPT !.pc = "start",
                                                          !.key = k]]
  /\ UNCHANGED <<sessionVars, captureVars, raw, requests, runs, plans, outbox,
                 budgetVars>>

StartImportRun(w) ==
  /\ At(w, "start")
  /\ runs' = IF runs[RunOf(w)].status = "queued"
               THEN [runs EXCEPT ![RunOf(w)].status = "running"] ELSE runs
  /\ Goto(w, "lookup")
  /\ UNCHANGED <<sessionVars, captureVars, raw, requests, jobs, plans, outbox,
                 budgetVars>>

\* The artifact row is read here and its bytes only in the next step.
LookupArtifact(w) ==
  LET row == artifact[JobOf(w).capture] IN
  /\ At(w, "lookup")
  /\ workers' = [workers EXCEPT ![w] =
       [@ EXCEPT !.pc = IF row.status = "uploaded" THEN "fetch" ELSE "fail",
                 !.sha = row.sha]]
  /\ UNCHANGED <<sessionVars, captureVars, raw, requests, runs, jobs, plans,
                 outbox, budgetVars>>

\* Mistake: the manifest is trusted and the bundle's own digest is not compared.
ChecksPassUncompared(w, bytes) == bytes \in Verifiable

\* Bundle digest against the row, then the manifest and every declared file.
ChecksPass(w, bytes) == bytes = workers[w].sha /\ bytes \in Verifiable

\* Mistake: a bundle that fails its checks is logged and the job goes on.
FetchBundleQuietly(w) ==
  LET bytes == object[JobOf(w).capture] IN
  /\ At(w, "fetch")
  /\ workers' = [workers EXCEPT ![w] =
       [@ EXCEPT !.pc = IF ChecksPass(w, bytes) THEN "preserve" ELSE "complete",
                 !.bundle = bytes]]
  /\ UNCHANGED <<sessionVars, captureVars, raw, requests, runs, jobs, plans,
                 outbox, budgetVars>>

FetchBundle(w) ==
  LET bytes == object[JobOf(w).capture] IN
  /\ At(w, "fetch")
  /\ workers' = [workers EXCEPT ![w] =
       [@ EXCEPT !.pc = IF ChecksPass(w, bytes) THEN "preserve" ELSE "fail",
                 !.bundle = bytes]]
  /\ UNCHANGED <<sessionVars, captureVars, raw, requests, runs, jobs, plans,
                 outbox, budgetVars>>

\* The loop over the manifest's files goes on; after the last one the rooms
\* are parsed.
Advance(w) ==
  LET n == workers[w].file + 1 IN
  workers' = [workers EXCEPT ![w] =
    [@ EXCEPT !.file = n,
              !.pc = IF n <= Files THEN "preserve"
                     ELSE IF workers[w].bundle \in Readable THEN "import" ELSE "fail"]]

\* storage.exists, asked of one file.
Missing(c, n) == raw[c][n] = None

\* A file that an earlier attempt has put there is left alone, torn or of a
\* bundle since replaced: the raw files of a capture may be of several bundles.
CheckRaw(w) ==
  /\ At(w, "preserve")
  /\ IF Missing(JobOf(w).capture, workers[w].file) THEN Goto(w, "put") ELSE Advance(w)
  /\ UNCHANGED <<sessionVars, captureVars, raw, requests, runs, jobs, plans,
                 outbox, budgetVars>>

PutRaw(w) ==
  /\ At(w, "put")
  /\ raw' = [raw EXCEPT ![JobOf(w).capture][workers[w].file] = workers[w].bundle]
  /\ Advance(w)
  /\ UNCHANGED <<sessionVars, captureVars, requests, runs, jobs, plans, outbox,
                 budgetVars>>

\* The import transaction: plan, session, run and event commit together.
CommitImport(w) ==
  LET s == SessionOf(w)
      p == [session |-> s, capture |-> JobOf(w).capture,
            attempt |-> JobOf(w).attempts,
            sha |-> workers[w].sha, bundle |-> workers[w].bundle] IN
  /\ At(w, "import")
  /\ Matches(s, "processing")
  /\ plans' = plans \cup {p}
  /\ status' = [status EXCEPT ![s] = "needs_review"]
  /\ planId' = [planId EXCEPT ![s] = p]
  /\ FinishRun(RunOf(w), "succeeded")
  /\ outbox' = outbox \cup
       {Event("scan.needs_review", s, RunOf(w), JobOf(w).attempts)}
  /\ Goto(w, "complete")
  /\ UNCHANGED <<reason, captureVars, raw, requests, jobs, budgetVars>>

\* Mistake: the event is appended outside the transaction and outlives it.
RollBackButAnnounce(w) ==
  /\ At(w, "import")
  /\ ~Matches(SessionOf(w), "processing")
  /\ outbox' = outbox \cup {Event("scan.needs_review", SessionOf(w), RunOf(w),
                                 JobOf(w).attempts)}
  /\ Goto(w, "fail")
  /\ UNCHANGED <<sessionVars, captureVars, raw, requests, runs, jobs, plans,
                 budgetVars>>

\* The guarded UPDATE matched no row: ImportError, and everything rolls back.
RollBackImport(w) ==
  /\ At(w, "import")
  /\ ~Matches(SessionOf(w), "processing")
  /\ Goto(w, "fail")
  /\ UNCHANGED <<sessionVars, captureVars, raw, requests, runs, jobs, plans,
                 outbox, budgetVars>>

\* failImportCapture: the run and the event change whether or not the session
\* was still "processing"; only the session's own UPDATE is guarded.
FailImport(w) ==
  LET s == SessionOf(w) IN
  /\ At(w, "fail")
  /\ FinishRun(RunOf(w), "failed")
  /\ status' = IF Matches(s, "processing")
                 THEN [status EXCEPT ![s] = "failed"] ELSE status
  /\ reason' = IF Matches(s, "processing")
                 THEN [reason EXCEPT ![s] = TRUE] ELSE reason
  /\ outbox' = outbox \cup
       {Event("scan.failed", s, RunOf(w), JobOf(w).attempts)}
  /\ Goto(w, "complete")
  /\ UNCHANGED <<planId, captureVars, raw, requests, jobs, plans, budgetVars>>

CompleteJob(w) ==
  /\ At(w, "complete")
  /\ jobs' = [jobs EXCEPT ![workers[w].key].status = "succeeded"]
  /\ workers' = [workers EXCEPT ![w] = IdleWorker]
  /\ UNCHANGED <<sessionVars, captureVars, raw, requests, runs, plans, outbox,
                 budgetVars>>

\* Mistakes: one attempt too many, one too few.
ExhaustedLate(w) == JobOf(w).attempts > MaxAttempts
ExhaustedEarly(w) == JobOf(w).attempts + 1 >= MaxAttempts
Exhausted(w) == JobOf(w).attempts >= MaxAttempts

\* failJob: back to the queue, or to the dead-letter state after the last try.
FailJob(w) ==
  /\ At(w, "retry")
  /\ jobs' = [jobs EXCEPT ![workers[w].key].status =
                IF Exhausted(w) THEN "dead" ELSE "queued"]
  /\ workers' = [workers EXCEPT ![w] = IdleWorker]
  /\ UNCHANGED <<sessionVars, captureVars, raw, requests, runs, plans, outbox,
                 budgetVars>>

-----------------------------------------------------------------------------
(* What the infrastructure may do to a worker *)

\* S3 stores an object whole or not at all; the filesystem driver's writeFile
\* may have been cut short.
LeavesRaw(w) ==
  \/ UNCHANGED raw
  \/ /\ At(w, "put") /\ Driver = "fs"
     /\ raw' = [raw EXCEPT ![JobOf(w).capture][workers[w].file] = Torn]

\* Any awaited call may reject with an error that is not an ImportError; the
\* statement or transaction has no effect and tick's catch calls failJob.
Fault(w) ==
  /\ workers[w].pc \notin {"idle", "retry"}
  /\ faults < MaxFaults
  /\ faults' = faults + 1
  /\ LeavesRaw(w)
  /\ Goto(w, "retry")
  /\ UNCHANGED <<sessionVars, captureVars, requests, runs, jobs, plans,
                 outbox, crashes>>

\* The process dies, or failJob itself rejects and ends it.  Its replacement
\* starts idle; no lease gives the job's row back to the queue.
Crash(w) ==
  /\ ~At(w, "idle")
  /\ crashes < MaxCrashes
  /\ crashes' = crashes + 1
  /\ LeavesRaw(w)
  /\ workers' = [workers EXCEPT ![w] = IdleWorker]
  /\ UNCHANGED <<sessionVars, captureVars, requests, runs, jobs, plans,
                 outbox, faults>>

-----------------------------------------------------------------------------

Device ==
  \/ \E s \in Sessions, to \in Statuses : ReportStatus(s, to)
  \/ \E c \in Captures : RegisterUpload(c) \/ VerifyUpload(c) \/ MarkUploaded(c)
  \/ \E c \in Captures, b \in Contents : PutBundle(c, b)

Api ==
  \E q \in Requests :
    \/ \E s \in Sessions : CheckSession(q, s)
    \/ \E c \in Captures : PickArtifact(q, c)
    \/ \E r \in Runs : SubmitSession(q, r)
    \/ RefuseSubmit(q)

\* One iteration of the worker's loop is made of these.
WorkerStep(w) ==
  \/ \E k \in JobKeys : ClaimNextJob(w, k)
  \/ StartImportRun(w)
  \/ LookupArtifact(w)
  \/ FetchBundle(w)
  \/ CheckRaw(w)
  \/ PutRaw(w)
  \/ CommitImport(w)
  \/ RollBackImport(w)
  \/ FailImport(w)
  \/ CompleteJob(w)
  \/ FailJob(w)

Infrastructure == \E w \in Workers : Fault(w) \/ Crash(w)

Next ==
  \/ Device
  \/ Api
  \/ \E w \in Workers : WorkerStep(w)
  \/ Infrastructure

Spec == Init /\ [][Next]_vars

\* main.ts keeps calling tick while the process lives, so a worker that can
\* take its next step takes it.  Nothing obliges a device or a request.
FairSpec == Spec /\ \A w \in Workers : WF_vars(WorkerStep(w))

-----------------------------------------------------------------------------
(* Properties *)

\* A session gets at most one plan, whatever is retried, redelivered or raced:
\* the import transaction creates one only while the session is "processing".
AtMostOnePlan ==
  \A p, q \in plans : p.session = q.session => p = q

\* A plan row exists only together with a session that links to it and is up
\* for review or completed; no attempt leaves an orphan plan behind.
PlanIsLinked ==
  \A p \in plans : /\ planId[p.session] = p
                   /\ status[p.session] \in Lifecycle!Reviewable

\* "scan.needs_review" is in the outbox only for a run whose plan is committed
\* and linked: no consumer is told of a plan it cannot read.
NoEventBeforeCommit ==
  \A e \in outbox : e.type = "scan.needs_review" =>
    \E p \in plans : /\ p.session = e.session /\ p.attempt = e.attempt
                     /\ planId[e.session] = p

\* A plan is only ever built from bytes that had the recorded digest and passed
\* every check, and each raw file of its capture has been put in storage.
PlanIsFromVerifiedBytes ==
  \A p \in plans : /\ p.bundle = p.sha /\ p.bundle \in Readable
                   /\ \A n \in 1..Files : raw[p.capture][n] # None

\* Two workers never run the same job, in spite of retries and crashes.
OneWorkerPerJob ==
  \A v, w \in Workers :
    /\ workers[w].key # None => JobOf(w).status = "running"
    /\ v # w /\ workers[v].key = workers[w].key => workers[w].key = None

\* However many "complete session" requests race, one of them submits: the
\* session has one import run, one job and one "scan.processing" event.
SubmittedOnce ==
  /\ \A q, r \in Runs : runs[q].session = runs[r].session
                          => q = r \/ runs[q].session = None
  /\ \A j, k \in JobKeys : j[1] = k[1] /\ jobs[j].status # "absent"
                             /\ jobs[k].status # "absent" => j = k
  /\ \A d, e \in outbox : d.type = "scan.processing" /\ e.type = d.type
                             /\ d.session = e.session => d = e

\* A job that is recorded as succeeded has settled its session: the user never
\* waits on a session whose job claims to be done.
SucceededJobSettledSession ==
  \A k \in JobKeys : jobs[k].status = "succeeded" =>
    status[k[1]] \in {"needs_review", "completed", "failed"}

\* Retries are bounded: a job is tried again only after an error, never more
\* than MaxAttempts times, and is dead only after all of them.
BoundedRetries ==
  \A k \in JobKeys : /\ jobs[k].attempts <= faults + 1
                     /\ jobs[k].status = "dead" => jobs[k].attempts = MaxAttempts

\* A raw file is written at most once: an exists and a put are two calls, and
\* neither a retry nor another attempt's put may come in between and replace a
\* file that is there.
RawIsImmutable ==
  [][\A c \in Captures, n \in 1..Files :
       raw[c][n] # None => raw'[c][n] = raw[c][n]]_vars

\* The whole pipeline implements the promise of the session row: only legal
\* moves, and the plan attached once, with the move to "needs_review".
ImplementsLifecycle == Lifecycle!Spec

\* While errors are fewer than a job's attempts and no worker dies, a session
\* in "processing" is settled.
EverySubmissionSettles ==
  \A s \in Sessions : status[s] = "processing" ~> status[s] # "processing"
=============================================================================
