------------------------ MODULE ImportPipelineProofs -------------------------
(* Proofs about ImportPipeline for every value of its constants. *)
EXTENDS ImportPipeline, TLAPS

(***************************************************************************)
(* The inductive invariant.  TypeOK alone is not inductive: a claimed job  *)
(* must have had an attempt left, and a picked artifact a digest.          *)
(***************************************************************************)

Settled == {"needs_review", "completed", "failed"}

ArtifactInv ==
  \A c \in Captures : artifact[c].status = "uploaded" => artifact[c].sha \in Contents

RequestInv ==
  \A q \in Requests :
    /\ requests[q].pc # "idle" => requests[q].session \in Sessions
    /\ requests[q].pc = "picked" => /\ requests[q].capture \in Captures
                                    /\ requests[q].sha \in Contents

\* A job row has a payload, its session has been submitted, and a queued job
\* has an attempt left; one that succeeded has settled its session.
JobInv ==
  \A k \in JobKeys :
    /\ jobs[k].status # "absent" => /\ jobs[k].run \in Runs
                                    /\ jobs[k].capture \in Captures
                                    /\ status[k[1]] \in Lifecycle!Submitted
    /\ jobs[k].status \in {"absent", "queued"} => jobs[k].attempts < MaxAttempts
    /\ jobs[k].status \notin {"absent", "queued"} => jobs[k].attempts >= 1
    /\ jobs[k].status = "succeeded" => status[k[1]] \in Settled

\* A busy worker holds a running job nobody else holds; what it has read is
\* what the checks on the way to its step have established.
WorkerInv ==
  \A w \in Workers :
    /\ workers[w].pc # "idle" => /\ workers[w].key \in JobKeys
                                 /\ jobs[workers[w].key].status = "running"
    /\ workers[w].pc = "idle" => workers[w].key = None
    /\ \A v \in Workers : v # w /\ workers[v].key = workers[w].key
                            => workers[w].key = None
    /\ workers[w].pc \in {"start", "lookup", "fetch"} => workers[w].file = 1
    /\ workers[w].pc \in {"preserve", "put"} => /\ workers[w].file \in 1..Files
                                               /\ workers[w].bundle \in Contents
                                               /\ workers[w].bundle = workers[w].sha
    /\ workers[w].pc = "import" => /\ workers[w].bundle \in Readable
                                   /\ workers[w].bundle = workers[w].sha
    /\ workers[w].pc = "complete" => status[workers[w].key[1]] \in Settled

VerifiedPlans == \A p \in plans : p.bundle = p.sha /\ p.bundle \in Readable

PlanInv ==
  /\ PlanIsLinked
  /\ VerifiedPlans
  /\ \A s \in Sessions : planId[s] # None => status[s] \in Lifecycle!Reviewable

IInv == TypeOK /\ ArtifactInv /\ RequestInv /\ JobInv /\ WorkerInv /\ PlanInv

-----------------------------------------------------------------------------

\* A fresh database satisfies the inductive invariant.
LEMMA InitIInv == Init => IInv
<1> SUFFICES ASSUME Init PROVE IInv
  OBVIOUS
<1> USE PipelineAssumption DEF Init
<1>1. TypeOK
  BY DEF TypeOK, Statuses, Lifecycle!Statuses, ArtifactRows, RunRows, JobRows,
         RequestStates, WorkerStates, RawFiles, IdleRequest, IdleWorker
<1>2. ArtifactInv /\ RequestInv
  BY DEF ArtifactInv, RequestInv, IdleRequest
<1>3. JobInv
  BY DEF JobInv
<1>4. WorkerInv
  BY DEF WorkerInv, IdleWorker
<1>5. PlanInv
  BY DEF PlanInv, PlanIsLinked, VerifiedPlans
<1> QED BY <1>1, <1>2, <1>3, <1>4, <1>5 DEF IInv

\* Job keys and captures name the session they belong to.
LEMMA KeyFacts ==
  /\ \A k \in JobKeys : k[1] \in Sessions
  /\ \A c \in Captures : c[1] \in Sessions
  /\ \A s \in Sessions, d \in Contents : <<s, d>> \in JobKeys /\ <<s, d>>[1] = s
BY DEF JobKeys, Captures

\* What a busy worker's job row says.
LEMMA BusyWorker ==
  ASSUME IInv, NEW w \in Workers, workers[w].pc # "idle"
  PROVE  /\ workers[w].key \in JobKeys
         /\ SessionOf(w) \in Sessions
         /\ RunOf(w) \in Runs
         /\ JobOf(w).capture \in Captures
         /\ JobOf(w).attempts \in 1..MaxAttempts
         /\ JobOf(w).status = "running"
<1>1. workers[w].key \in JobKeys /\ jobs[workers[w].key].status = "running"
  BY DEF IInv, WorkerInv
<1>2. jobs[workers[w].key] \in JobRows
  BY <1>1 DEF IInv, TypeOK
<1> QED
  BY <1>1, <1>2, KeyFacts, PipelineAssumption
  DEF IInv, JobInv, JobRows, SessionOf, RunOf, JobOf

\* Moving a worker's program counter keeps its record well-typed.
LEMMA GotoType ==
  ASSUME TypeOK, NEW w \in Workers,
         NEW pc \in {"start", "lookup", "fetch", "preserve", "put", "import",
                     "fail", "complete", "retry"},
         Goto(w, pc)
  PROVE  workers' \in [Workers -> WorkerStates]
<1>1. workers \in [Workers -> WorkerStates]
  BY DEF TypeOK
<1> QED BY <1>1 DEF Goto, WorkerStates

\* finishImportRun keeps the run rows well-typed.
LEMMA FinishType ==
  ASSUME TypeOK, NEW r \in Runs, NEW outcome \in {"succeeded", "failed"},
         FinishRun(r, outcome)
  PROVE  runs' \in [Runs -> RunRows]
BY DEF TypeOK, FinishRun, RunRows

\* So does what a request picks,
LEMMA PickType ==
  ASSUME NEW x \in RequestStates, NEW c \in Captures, NEW d \in Contents
  PROVE  [x EXCEPT !.pc = "picked", !.capture = c, !.sha = d] \in RequestStates
BY DEF RequestStates

\* changing a job's status,
LEMMA JobStatusType ==
  ASSUME TypeOK, NEW k \in JobKeys,
         NEW to \in {"queued", "dead", "succeeded"},
         jobs' = [jobs EXCEPT ![k].status = to]
  PROVE  jobs' \in [JobKeys -> JobRows]
BY DEF TypeOK, JobRows

\* and what a worker reads before its next step.
LEMMA ReadType ==
  ASSUME TypeOK, NEW w \in Workers, NEW d \in Contents \cup {None},
         NEW pc \in {"fetch", "preserve", "fail"}
  PROVE  /\ [workers[w] EXCEPT !.pc = pc, !.sha = d] \in WorkerStates
         /\ [workers[w] EXCEPT !.pc = pc, !.bundle = d] \in WorkerStates
BY DEF TypeOK, WorkerStates

\* A busy worker that only reads keeps what WorkerInv says of everyone.
LEMMA ReadWorkerInv ==
  ASSUME WorkerInv, NEW w \in Workers, workers[w].pc # "idle",
         UNCHANGED <<status, jobs>>,
         workers'[w].pc \in {"fetch", "preserve", "fail"},
         workers'[w].key = workers[w].key, workers'[w].file = 1,
         workers'[w].pc = "preserve" => /\ workers'[w].bundle \in Contents
                                        /\ workers'[w].bundle = workers'[w].sha,
         \A v \in Workers : v # w => workers'[v] = workers[v]
  PROVE  WorkerInv'
BY PipelineAssumption DEF WorkerInv

\* The device's status report keeps the invariant: a submitted session stays
\* submitted, and a settled one settled.
LEMMA ReportStatusStep ==
  ASSUME IInv, NEW s \in Sessions, NEW to \in Statuses, ReportStatus(s, to)
  PROVE  IInv'
<1> USE PipelineAssumption, KeyFacts DEF IInv, ReportStatus,
        captureVars, sessionVars, budgetVars
<1>1. TypeOK'
  BY DEF TypeOK
<1>2. ArtifactInv'
  BY DEF ArtifactInv
<1>3. RequestInv'
  BY DEF RequestInv
<1>4. JobInv'
  BY DEF JobInv, Lifecycle!Submitted, Lifecycle!Transitions, Settled, TypeOK
<1>5. WorkerInv'
  BY DEF WorkerInv, JobInv, Settled, Lifecycle!Transitions, TypeOK
<1>6. PlanInv'
  BY DEF PlanInv, PlanIsLinked, VerifiedPlans, Lifecycle!Reviewable, Lifecycle!Transitions, TypeOK
<1> QED BY <1>1, <1>2, <1>3, <1>4, <1>5, <1>6

\* Registering a capture artifact keeps the invariant.
LEMMA RegisterUploadStep ==
  ASSUME IInv, NEW c \in Captures, RegisterUpload(c)
  PROVE  IInv'
<1> USE PipelineAssumption, KeyFacts DEF IInv, RegisterUpload,
        captureVars, sessionVars, budgetVars
<1>1. TypeOK'
  BY DEF TypeOK, ArtifactRows
<1>2. ArtifactInv'
  BY DEF ArtifactInv, TypeOK
<1>3. RequestInv'
  BY DEF RequestInv
<1>4. JobInv'
  BY DEF JobInv
<1>5. WorkerInv'
  BY DEF WorkerInv
<1>6. PlanInv'
  BY DEF PlanInv, PlanIsLinked, VerifiedPlans
<1> QED BY <1>1, <1>2, <1>3, <1>4, <1>5, <1>6

\* Storing bytes keeps the invariant: what a worker read is its own copy.
LEMMA PutBundleStep ==
  ASSUME IInv, NEW c \in Captures, NEW b \in Contents, PutBundle(c, b)
  PROVE  IInv'
<1> USE PipelineAssumption, KeyFacts DEF IInv, PutBundle,
        captureVars, sessionVars, budgetVars
<1>1. TypeOK'
  BY DEF TypeOK
<1>2. ArtifactInv'
  BY DEF ArtifactInv
<1>3. RequestInv'
  BY DEF RequestInv
<1>4. JobInv'
  BY DEF JobInv
<1>5. WorkerInv'
  BY DEF WorkerInv
<1>6. PlanInv'
  BY DEF PlanInv, PlanIsLinked, VerifiedPlans
<1> QED BY <1>1, <1>2, <1>3, <1>4, <1>5, <1>6

\* Comparing the stored digest keeps the invariant.
LEMMA VerifyUploadStep ==
  ASSUME IInv, NEW c \in Captures, VerifyUpload(c)
  PROVE  IInv'
<1> USE PipelineAssumption, KeyFacts DEF IInv, VerifyUpload,
        captureVars, sessionVars, budgetVars
<1>1. TypeOK'
  BY DEF TypeOK
<1>2. ArtifactInv'
  BY DEF ArtifactInv
<1>3. RequestInv'
  BY DEF RequestInv
<1>4. JobInv'
  BY DEF JobInv
<1>5. WorkerInv'
  BY DEF WorkerInv
<1>6. PlanInv'
  BY DEF PlanInv, PlanIsLinked, VerifiedPlans
<1> QED BY <1>1, <1>2, <1>3, <1>4, <1>5, <1>6

\* Marking an artifact uploaded keeps it: the row gets a digest.
LEMMA MarkUploadedStep ==
  ASSUME IInv, NEW c \in Captures, MarkUploaded(c)
  PROVE  IInv'
<1> USE PipelineAssumption, KeyFacts DEF IInv, MarkUploaded,
        captureVars, sessionVars, budgetVars
<1>1. TypeOK'
  BY DEF TypeOK, ArtifactRows
<1>2. ArtifactInv'
  BY DEF ArtifactInv, TypeOK
<1>3. RequestInv'
  BY DEF RequestInv
<1>4. JobInv'
  BY DEF JobInv
<1>5. WorkerInv'
  BY DEF WorkerInv
<1>6. PlanInv'
  BY DEF PlanInv, PlanIsLinked, VerifiedPlans
<1> QED BY <1>1, <1>2, <1>3, <1>4, <1>5, <1>6

\* The first read of a completion request keeps the invariant.
LEMMA CheckSessionStep ==
  ASSUME IInv, NEW q \in Requests, NEW s \in Sessions, CheckSession(q, s)
  PROVE  IInv'
<1> USE PipelineAssumption, KeyFacts DEF IInv, CheckSession,
        captureVars, sessionVars, budgetVars, IdleRequest
<1>1. TypeOK'
  BY DEF TypeOK, RequestStates
<1>2. ArtifactInv'
  BY DEF ArtifactInv
<1>3. RequestInv'
  BY DEF RequestInv, TypeOK
<1>4. JobInv'
  BY DEF JobInv
<1>5. WorkerInv'
  BY DEF WorkerInv
<1>6. PlanInv'
  BY DEF PlanInv, PlanIsLinked, VerifiedPlans
<1> QED BY <1>1, <1>2, <1>3, <1>4, <1>5, <1>6

\* Picking an artifact keeps it: the pick has a digest.
LEMMA PickArtifactStep ==
  ASSUME IInv, NEW q \in Requests, NEW c \in Captures, PickArtifact(q, c)
  PROVE  IInv'
<1> USE PipelineAssumption, KeyFacts DEF IInv, PickArtifact,
        captureVars, sessionVars, budgetVars, UploadedOf
<1>1. TypeOK'
  <2>1. artifact[c].sha \in Contents
    BY DEF ArtifactInv
  <2>2. [requests[q] EXCEPT !.pc = "picked", !.capture = c,
                            !.sha = artifact[c].sha] \in RequestStates
    BY <2>1, PickType DEF TypeOK
  <2>3. requests' \in [Requests -> RequestStates]
    BY <2>2 DEF TypeOK
  <2> QED BY <2>3 DEF TypeOK
<1>2. ArtifactInv'
  BY DEF ArtifactInv
<1>3. RequestInv'
  BY DEF RequestInv, ArtifactInv, TypeOK
<1>4. JobInv'
  BY DEF JobInv
<1>5. WorkerInv'
  BY DEF WorkerInv
<1>6. PlanInv'
  BY DEF PlanInv, PlanIsLinked, VerifiedPlans
<1> QED BY <1>1, <1>2, <1>3, <1>4, <1>5, <1>6

\* The submit transaction keeps it: its job has a payload and a submitted
\* session.
LEMMA SubmitSessionStep ==
  ASSUME IInv, NEW q \in Requests, NEW r \in Runs, SubmitSession(q, r)
  PROVE  IInv'
<1> USE PipelineAssumption, KeyFacts DEF IInv, SubmitSession,
        captureVars, sessionVars, budgetVars, Matches, Enqueue, IdleRequest, Lifecycle!Submitted, Settled
<1>1. TypeOK'
  BY DEF TypeOK, Statuses, Lifecycle!Statuses, RunRows, JobRows, RequestStates,
     EventRows, Event, RequestInv
<1>2. ArtifactInv'
  BY DEF ArtifactInv
<1>3. RequestInv'
  BY DEF RequestInv, TypeOK
<1>4. JobInv'
  BY DEF JobInv, RequestInv, TypeOK
<1>5. WorkerInv'
  BY DEF WorkerInv, JobInv, TypeOK
<1>6. PlanInv'
  BY DEF PlanInv, PlanIsLinked, VerifiedPlans, Lifecycle!Reviewable, TypeOK
<1> QED BY <1>1, <1>2, <1>3, <1>4, <1>5, <1>6

\* A 409 keeps the invariant.
LEMMA RefuseSubmitStep ==
  ASSUME IInv, NEW q \in Requests, RefuseSubmit(q)
  PROVE  IInv'
<1> USE PipelineAssumption, KeyFacts DEF IInv, RefuseSubmit,
        captureVars, sessionVars, budgetVars, IdleRequest
<1>1. TypeOK'
  BY DEF TypeOK, RequestStates
<1>2. ArtifactInv'
  BY DEF ArtifactInv
<1>3. RequestInv'
  BY DEF RequestInv, TypeOK
<1>4. JobInv'
  BY DEF JobInv
<1>5. WorkerInv'
  BY DEF WorkerInv
<1>6. PlanInv'
  BY DEF PlanInv, PlanIsLinked, VerifiedPlans
<1> QED BY <1>1, <1>2, <1>3, <1>4, <1>5, <1>6

\* What claiming writes is well-typed.
LEMMA ClaimTypes ==
  /\ \A k \in JobKeys : [IdleWorker EXCEPT !.pc = "start", !.key = k] \in WorkerStates
  /\ \A j \in JobRows : j.attempts < MaxAttempts =>
       [j EXCEPT !.status = "running", !.attempts = j.attempts + 1] \in JobRows
<1>1. MaxAttempts \in Nat /\ 1 \in 1..(Files + 1)
  BY PipelineAssumption
<1>2. ASSUME NEW k \in JobKeys
      PROVE  [IdleWorker EXCEPT !.pc = "start", !.key = k] \in WorkerStates
  BY <1>1 DEF IdleWorker, WorkerStates
<1>3. ASSUME NEW j \in JobRows, j.attempts < MaxAttempts
      PROVE  [j EXCEPT !.status = "running", !.attempts = j.attempts + 1] \in JobRows
  <2>1. PICK n \in 0..MaxAttempts : n = j.attempts + 1
    BY <1>1, <1>3 DEF JobRows
  <2>2. [j EXCEPT !.status = "running", !.attempts = n] \in JobRows
    BY DEF JobRows
  <2> QED BY <2>1, <2>2
<1> QED BY <1>2, <1>3

\* Claiming keeps it: nobody else holds a job that was queued.
LEMMA ClaimNextJobStep ==
  ASSUME IInv, NEW w \in Workers, NEW k \in JobKeys, ClaimNextJob(w, k)
  PROVE  IInv'
<1> USE PipelineAssumption, KeyFacts DEF IInv, ClaimNextJob, Claimable,
        captureVars, sessionVars, budgetVars, At, IdleWorker
<1>a. /\ jobs[k] \in JobRows /\ jobs[k].status = "queued"
      /\ jobs[k].attempts < MaxAttempts
      /\ jobs' = [jobs EXCEPT ![k] = [jobs[k] EXCEPT !.status = "running",
                                     !.attempts = jobs[k].attempts + 1]]
  <2>1. jobs[k] \in JobRows
    BY DEF TypeOK
  <2>2. jobs[k].attempts < MaxAttempts
    BY DEF JobInv
  <2> QED BY <2>1, <2>2
<1>b. /\ jobs[k].attempts \in Nat
      /\ jobs'[k] = [jobs[k] EXCEPT !.status = "running",
                                   !.attempts = jobs[k].attempts + 1]
      /\ jobs'[k].status = "running" /\ jobs'[k].run = jobs[k].run
      /\ jobs'[k].capture = jobs[k].capture
      /\ jobs'[k].attempts = jobs[k].attempts + 1
      /\ \A j \in JobKeys : j # k => jobs'[j] = jobs[j]
  BY <1>a DEF TypeOK, JobRows
<1>1. TypeOK'
  <2>1. jobs' \in [JobKeys -> JobRows]
    <3>1. [jobs[k] EXCEPT !.status = "running", !.attempts = jobs[k].attempts + 1]
            \in JobRows
      BY <1>a, ClaimTypes
    <3> QED BY <1>a, <3>1 DEF TypeOK
  <2>2. workers' \in [Workers -> WorkerStates]
    <3>1. [IdleWorker EXCEPT !.pc = "start", !.key = k] \in WorkerStates
      BY ClaimTypes
    <3> QED BY <3>1 DEF TypeOK
  <2> QED BY <2>1, <2>2 DEF TypeOK
<1>2. ArtifactInv'
  BY DEF ArtifactInv
<1>3. RequestInv'
  BY DEF RequestInv
<1>4. JobInv'
  BY <1>b DEF TypeOK, JobInv
<1>5. WorkerInv'
  BY <1>b DEF TypeOK, WorkerInv, WorkerStates
<1>6. PlanInv'
  BY DEF PlanInv, PlanIsLinked, VerifiedPlans
<1> QED BY <1>1, <1>2, <1>3, <1>4, <1>5, <1>6

\* startImportRun keeps the invariant.
LEMMA StartImportRunStep ==
  ASSUME IInv, NEW w \in Workers, StartImportRun(w)
  PROVE  IInv'
<1> USE PipelineAssumption, KeyFacts DEF IInv, StartImportRun,
        captureVars, sessionVars, budgetVars, At, Goto
<1>1. TypeOK'
  <2>1. workers' \in [Workers -> WorkerStates]
    BY GotoType DEF TypeOK
  <2>2. runs' \in [Runs -> RunRows]
    <3>1. RunOf(w) \in Runs
      BY BusyWorker
    <3>2. runs[RunOf(w)] \in RunRows
      BY <3>1 DEF TypeOK
    <3> QED BY <3>1, <3>2 DEF TypeOK, RunRows
  <2> QED BY <2>1, <2>2 DEF TypeOK
<1>2. ArtifactInv'
  BY DEF ArtifactInv
<1>3. RequestInv'
  BY DEF RequestInv
<1>4. JobInv'
  BY DEF JobInv
<1>5. WorkerInv'
  BY DEF WorkerInv, TypeOK
<1>6. PlanInv'
  BY DEF PlanInv, PlanIsLinked, VerifiedPlans
<1> QED BY <1>1, <1>2, <1>3, <1>4, <1>5, <1>6

\* Reading the artifact row keeps the invariant.
LEMMA LookupArtifactStep ==
  ASSUME IInv, NEW w \in Workers, LookupArtifact(w)
  PROVE  IInv'
<1> USE PipelineAssumption, KeyFacts DEF IInv, LookupArtifact,
        captureVars, sessionVars, budgetVars, At
<1>1. TypeOK'
  <2>1. artifact[JobOf(w).capture] \in ArtifactRows
    BY BusyWorker DEF TypeOK
  <2>2. workers' \in [Workers -> WorkerStates]
    BY <2>1, ReadType DEF TypeOK, ArtifactRows
  <2> QED BY <2>2 DEF TypeOK
<1>2. ArtifactInv'
  BY DEF ArtifactInv
<1>3. RequestInv'
  BY DEF RequestInv
<1>4. JobInv'
  BY DEF JobInv
<1>5. WorkerInv'
  <2>1. /\ workers'[w].pc \in {"fetch", "fail"}
        /\ workers'[w].key = workers[w].key /\ workers'[w].file = 1
        /\ \A v \in Workers : v # w => workers'[v] = workers[v]
    BY DEF TypeOK, WorkerStates, WorkerInv
  <2> QED BY <2>1, ReadWorkerInv
<1>6. PlanInv'
  BY DEF PlanInv, PlanIsLinked, VerifiedPlans
<1> QED BY <1>1, <1>2, <1>3, <1>4, <1>5, <1>6

\* Fetching the bundle keeps it: only verified bytes go on.
LEMMA FetchBundleStep ==
  ASSUME IInv, NEW w \in Workers, FetchBundle(w)
  PROVE  IInv'
<1> USE PipelineAssumption, KeyFacts DEF IInv, FetchBundle,
        captureVars, sessionVars, budgetVars, At
<1>1. TypeOK'
  <2>1. object[JobOf(w).capture] \in Contents \cup {None}
    BY BusyWorker DEF TypeOK
  <2>2. workers' \in [Workers -> WorkerStates]
    BY <2>1, ReadType DEF TypeOK
  <2> QED BY <2>2 DEF TypeOK
<1>2. ArtifactInv'
  BY DEF ArtifactInv
<1>3. RequestInv'
  BY DEF RequestInv
<1>4. JobInv'
  BY DEF JobInv
<1>5. WorkerInv'
  <2>1. /\ workers'[w].pc \in {"preserve", "fail"}
        /\ workers'[w].key = workers[w].key /\ workers'[w].file = 1
        /\ workers'[w].pc = "preserve" => /\ workers'[w].bundle \in Contents
                                          /\ workers'[w].bundle = workers'[w].sha
        /\ \A v \in Workers : v # w => workers'[v] = workers[v]
    BY DEF TypeOK, WorkerStates, WorkerInv, ChecksPass
  <2> QED BY <2>1, ReadWorkerInv
<1>6. PlanInv'
  BY DEF PlanInv, PlanIsLinked, VerifiedPlans
<1> QED BY <1>1, <1>2, <1>3, <1>4, <1>5, <1>6

\* A raw file that is written is one of the capture's.
LEMMA RawWrite ==
  ASSUME NEW r \in [Captures -> RawFiles], NEW c \in Captures, NEW n \in 1..Files,
         NEW x \in Contents \cup {None, Torn}
  PROVE  [r EXCEPT ![c][n] = x] \in [Captures -> RawFiles]
BY DEF RawFiles

\* Going on to the next file, or to the rooms, changes one worker.
LEMMA AdvanceFacts ==
  ASSUME IInv, NEW w \in Workers, workers[w].pc \in {"preserve", "put"}, Advance(w)
  PROVE  /\ workers' \in [Workers -> WorkerStates]
         /\ \A v \in Workers : v # w => workers'[v] = workers[v]
         /\ workers'[w].pc \in {"preserve", "import", "fail"}
         /\ workers'[w].key = workers[w].key
         /\ workers'[w].sha = workers[w].sha /\ workers'[w].bundle = workers[w].bundle
         /\ workers'[w].file = workers[w].file + 1
         /\ workers'[w].pc = "preserve" => workers'[w].file \in 1..Files
         /\ workers'[w].pc = "import" => /\ workers[w].file = Files
                                         /\ workers[w].bundle \in Readable
<1>1. workers[w].file \in 1..Files /\ workers[w] \in WorkerStates /\ Files \in Nat
  BY PipelineAssumption DEF IInv, TypeOK, WorkerInv
<1>2. PICK n \in 1..(Files + 1) : n = workers[w].file + 1
  BY <1>1
<1>3. PICK pc \in {"preserve", "import", "fail"} :
        /\ workers' = [workers EXCEPT ![w] = [workers[w] EXCEPT !.file = n, !.pc = pc]]
        /\ pc = "preserve" <=> n <= Files
        /\ pc = "import" => workers[w].bundle \in Readable
  BY <1>2 DEF Advance
<1>4. [workers[w] EXCEPT !.file = n, !.pc = pc] \in WorkerStates
  BY <1>1 DEF WorkerStates
<1>5. /\ workers'[w] = [workers[w] EXCEPT !.file = n, !.pc = pc]
      /\ \A v \in Workers : v # w => workers'[v] = workers[v]
      /\ workers' \in [Workers -> WorkerStates]
  BY <1>3, <1>4 DEF IInv, TypeOK
<1>6. /\ workers'[w].pc = pc /\ workers'[w].file = n /\ workers'[w].key = workers[w].key
      /\ workers'[w].sha = workers[w].sha /\ workers'[w].bundle = workers[w].bundle
  BY <1>1, <1>5 DEF WorkerStates
<1> QED BY <1>1, <1>2, <1>3, <1>5, <1>6

\* The loop over the raw files keeps the invariant.
LEMMA CopyRawStep ==
  ASSUME IInv, NEW w \in Workers, CheckRaw(w) \/ PutRaw(w)
  PROVE  IInv'
<1> USE PipelineAssumption, KeyFacts DEF IInv, CheckRaw, PutRaw,
        captureVars, sessionVars, budgetVars, At
<1>a. workers[w].pc \in {"preserve", "put"}
  OBVIOUS
<1>b. ASSUME Goto(w, "put")
      PROVE  workers' \in [Workers -> WorkerStates] /\ WorkerInv'
  <2>1. workers' \in [Workers -> WorkerStates]
    BY <1>b, GotoType
  <2>2. WorkerInv'
    BY <1>a, <1>b DEF WorkerInv, Goto, TypeOK, WorkerStates
  <2> QED BY <2>1, <2>2
<1>c. ASSUME Advance(w)
      PROVE  workers' \in [Workers -> WorkerStates] /\ WorkerInv'
  <2>1. workers' \in [Workers -> WorkerStates]
    BY <1>a, <1>c, AdvanceFacts
  <2>2. /\ \A v \in Workers : v # w => workers'[v] = workers[v]
        /\ workers'[w].pc \in {"preserve", "import", "fail"}
        /\ workers'[w].key = workers[w].key
        /\ workers'[w].sha = workers[w].sha /\ workers'[w].bundle = workers[w].bundle
        /\ workers'[w].pc = "preserve" => workers'[w].file \in 1..Files
        /\ workers'[w].pc = "import" => workers[w].bundle \in Readable
    BY <1>a, <1>c, AdvanceFacts
  <2>3. WorkerInv'
    BY <1>a, <2>2 DEF WorkerInv
  <2> QED BY <2>1, <2>3
<1>1. TypeOK' /\ WorkerInv'
  <2>1. raw' \in [Captures -> RawFiles]
    BY RawWrite, BusyWorker DEF TypeOK, WorkerInv
  <2>2. workers' \in [Workers -> WorkerStates] /\ WorkerInv'
    BY <1>b, <1>c
  <2> QED BY <2>1, <2>2 DEF TypeOK
<1>2. ArtifactInv'
  BY DEF ArtifactInv
<1>3. RequestInv'
  BY DEF RequestInv
<1>4. JobInv'
  BY DEF JobInv
<1>6. PlanInv'
  BY DEF PlanInv, PlanIsLinked, VerifiedPlans
<1> QED BY <1>1, <1>2, <1>3, <1>4, <1>6

\* The import transaction keeps it: its session had no plan.
LEMMA CommitImportStep ==
  ASSUME IInv, NEW w \in Workers, CommitImport(w)
  PROVE  IInv'
<1> USE PipelineAssumption, KeyFacts DEF IInv, CommitImport,
        captureVars, sessionVars, budgetVars, At, Goto, Matches, JobOf, SessionOf, Settled
<1> DEFINE s == SessionOf(w)
           p == [session |-> s, capture |-> JobOf(w).capture,
                 attempt |-> JobOf(w).attempts,
                 sha |-> workers[w].sha, bundle |-> workers[w].bundle]
<1>1. TypeOK'
  <2>1. workers' \in [Workers -> WorkerStates]
    BY GotoType DEF TypeOK
  <2>2. runs' \in [Runs -> RunRows]
    BY BusyWorker, FinishType
  <2>3. p \in PlanRows
    BY BusyWorker DEF PlanRows, WorkerInv
  <2>4. Event("scan.needs_review", s, RunOf(w), JobOf(w).attempts) \in EventRows
    BY BusyWorker DEF EventRows, Event
  <2>5. plans' \subseteq PlanRows /\ planId' \in [Sessions -> PlanRows \cup {None}]
    BY <2>3 DEF TypeOK
  <2>6. status' \in [Sessions -> Statuses]
    BY DEF TypeOK, Statuses, Lifecycle!Statuses
  <2> QED BY <2>1, <2>2, <2>4, <2>5, <2>6 DEF TypeOK
<1>2. ArtifactInv'
  BY DEF ArtifactInv
<1>3. RequestInv'
  BY DEF RequestInv
<1>4. JobInv'
  BY DEF JobInv, WorkerInv, TypeOK, Lifecycle!Submitted
<1>5. WorkerInv'
  BY DEF WorkerInv, TypeOK
<1>6. PlanInv'
  BY DEF PlanInv, PlanIsLinked, VerifiedPlans, WorkerInv, JobInv, TypeOK, Lifecycle!Reviewable
<1> QED BY <1>1, <1>2, <1>3, <1>4, <1>5, <1>6

\* A rolled-back import keeps the invariant.
LEMMA RollBackImportStep ==
  ASSUME IInv, NEW w \in Workers, RollBackImport(w)
  PROVE  IInv'
<1> USE PipelineAssumption, KeyFacts DEF IInv, RollBackImport,
        captureVars, sessionVars, budgetVars, At, Goto
<1>1. TypeOK'
  BY GotoType DEF TypeOK
<1>2. ArtifactInv'
  BY DEF ArtifactInv
<1>3. RequestInv'
  BY DEF RequestInv
<1>4. JobInv'
  BY DEF JobInv
<1>5. WorkerInv'
  BY DEF WorkerInv, TypeOK
<1>6. PlanInv'
  BY DEF PlanInv, PlanIsLinked, VerifiedPlans
<1> QED BY <1>1, <1>2, <1>3, <1>4, <1>5, <1>6

\* failImportCapture keeps it: afterwards the session is settled, by this
\* call or by whoever moved it before.
LEMMA FailImportStep ==
  ASSUME IInv, NEW w \in Workers, FailImport(w)
  PROVE  IInv'
<1> USE PipelineAssumption, KeyFacts DEF IInv, FailImport,
        captureVars, sessionVars, budgetVars, At, Goto, Matches, SessionOf, Settled
<1>1. TypeOK'
  <2>1. workers' \in [Workers -> WorkerStates]
    BY GotoType DEF TypeOK
  <2>2. runs' \in [Runs -> RunRows]
    BY BusyWorker, FinishType
  <2>3. Event("scan.failed", SessionOf(w), RunOf(w), JobOf(w).attempts) \in EventRows
    BY BusyWorker DEF EventRows, Event
  <2>4. status' \in [Sessions -> Statuses] /\ reason' \in [Sessions -> BOOLEAN]
    BY DEF TypeOK, Statuses, Lifecycle!Statuses
  <2> QED BY <2>1, <2>2, <2>3, <2>4 DEF TypeOK
<1>2. ArtifactInv'
  BY DEF ArtifactInv
<1>3. RequestInv'
  BY DEF RequestInv
<1>4. JobInv'
  BY DEF JobInv, WorkerInv, TypeOK, Lifecycle!Submitted
<1>5. WorkerInv'
  BY DEF WorkerInv, JobInv, TypeOK, Lifecycle!Submitted
<1>6. PlanInv'
  BY DEF PlanInv, PlanIsLinked, VerifiedPlans, TypeOK, Lifecycle!Reviewable
<1> QED BY <1>1, <1>2, <1>3, <1>4, <1>5, <1>6

\* completeJob keeps it: the session of the job is settled.
LEMMA CompleteJobStep ==
  ASSUME IInv, NEW w \in Workers, CompleteJob(w)
  PROVE  IInv'
<1> USE PipelineAssumption, KeyFacts DEF IInv, CompleteJob,
        captureVars, sessionVars, budgetVars, At, IdleWorker
<1>1. TypeOK'
  <2>1. jobs' \in [JobKeys -> JobRows]
    BY BusyWorker, JobStatusType
  <2>2. workers' \in [Workers -> WorkerStates]
    BY DEF TypeOK, WorkerStates
  <2> QED BY <2>1, <2>2 DEF TypeOK
<1>2. ArtifactInv'
  BY DEF ArtifactInv
<1>3. RequestInv'
  BY DEF RequestInv
<1>4. JobInv'
  BY DEF JobInv, WorkerInv, TypeOK
<1>5. WorkerInv'
  BY DEF WorkerInv, TypeOK
<1>6. PlanInv'
  BY DEF PlanInv, PlanIsLinked, VerifiedPlans
<1> QED BY <1>1, <1>2, <1>3, <1>4, <1>5, <1>6

\* failJob keeps it: only a job with attempts left goes back to the queue.
LEMMA FailJobStep ==
  ASSUME IInv, NEW w \in Workers, FailJob(w)
  PROVE  IInv'
<1> USE PipelineAssumption, KeyFacts DEF IInv, FailJob, Exhausted,
        captureVars, sessionVars, budgetVars, At, IdleWorker, JobOf
<1>1. TypeOK'
  <2>1. jobs' \in [JobKeys -> JobRows]
    BY BusyWorker, JobStatusType
  <2>2. workers' \in [Workers -> WorkerStates]
    BY DEF TypeOK, WorkerStates
  <2> QED BY <2>1, <2>2 DEF TypeOK
<1>2. ArtifactInv'
  BY DEF ArtifactInv
<1>3. RequestInv'
  BY DEF RequestInv
<1>4. JobInv'
  <2> DEFINE k == workers[w].key
             to == IF JobOf(w).attempts >= MaxAttempts THEN "dead" ELSE "queued"
  <2>1. k \in JobKeys /\ JobOf(w).status = "running" /\ JobOf(w).attempts \in 1..MaxAttempts
    BY BusyWorker
  <2>2. /\ jobs'[k].status = to /\ jobs'[k].run = jobs[k].run
        /\ jobs'[k].capture = jobs[k].capture
        /\ jobs'[k].attempts = jobs[k].attempts
        /\ \A j \in JobKeys : j # k => jobs'[j] = jobs[j]
    BY <2>1 DEF TypeOK, JobRows
  <2> QED BY <2>1, <2>2 DEF JobInv
<1>5. WorkerInv'
  BY DEF WorkerInv, TypeOK
<1>6. PlanInv'
  BY DEF PlanInv, PlanIsLinked, VerifiedPlans
<1> QED BY <1>1, <1>2, <1>3, <1>4, <1>5, <1>6

\* A torn file is one of the capture's.
LEMMA LeavesRawType ==
  ASSUME IInv, NEW w \in Workers, LeavesRaw(w)
  PROVE  raw' \in [Captures -> RawFiles]
<1>1. At(w, "put") => JobOf(w).capture \in Captures /\ workers[w].file \in 1..Files
  BY BusyWorker DEF At, IInv, WorkerInv
<1>2. raw \in [Captures -> RawFiles]
  BY DEF IInv, TypeOK
<1>3. At(w, "put") =>
        [raw EXCEPT ![JobOf(w).capture][workers[w].file] = Torn] \in [Captures -> RawFiles]
  BY <1>1, <1>2, RawWrite
<1> QED BY <1>2, <1>3 DEF LeavesRaw

\* An infrastructure error keeps the invariant.
LEMMA FaultStep ==
  ASSUME IInv, NEW w \in Workers, Fault(w)
  PROVE  IInv'
<1> USE PipelineAssumption, KeyFacts DEF IInv, Fault,
        captureVars, sessionVars, budgetVars, Goto
<1>1. TypeOK'
  <2>1. workers' \in [Workers -> WorkerStates]
    BY GotoType DEF TypeOK
  <2>2. faults' \in 0..MaxFaults
    BY DEF TypeOK
  <2>3. raw' \in [Captures -> RawFiles]
    BY LeavesRawType
  <2> QED BY <2>1, <2>2, <2>3 DEF TypeOK
<1>2. ArtifactInv'
  BY DEF ArtifactInv
<1>3. RequestInv'
  BY DEF RequestInv
<1>4. JobInv'
  BY DEF JobInv
<1>5. WorkerInv'
  BY DEF WorkerInv, TypeOK
<1>6. PlanInv'
  BY DEF PlanInv, PlanIsLinked, VerifiedPlans
<1> QED BY <1>1, <1>2, <1>3, <1>4, <1>5, <1>6

\* The death of a worker keeps the invariant.
LEMMA CrashStep ==
  ASSUME IInv, NEW w \in Workers, Crash(w)
  PROVE  IInv'
<1> USE PipelineAssumption, KeyFacts DEF IInv, Crash,
        captureVars, sessionVars, budgetVars, At, IdleWorker
<1>1. TypeOK'
  <2>1. raw' \in [Captures -> RawFiles]
    BY LeavesRawType
  <2> QED BY <2>1 DEF TypeOK, WorkerStates
<1>2. ArtifactInv'
  BY DEF ArtifactInv
<1>3. RequestInv'
  BY DEF RequestInv
<1>4. JobInv'
  BY DEF JobInv
<1>5. WorkerInv'
  BY DEF WorkerInv, TypeOK
<1>6. PlanInv'
  BY DEF PlanInv, PlanIsLinked, VerifiedPlans
<1> QED BY <1>1, <1>2, <1>3, <1>4, <1>5, <1>6

-----------------------------------------------------------------------------

\* The invariant is preserved by every step.
LEMMA NextIInv == IInv /\ [Next]_vars => IInv'
<1> SUFFICES ASSUME IInv, [Next]_vars PROVE IInv'
  OBVIOUS
<1>1. CASE Device
  BY <1>1, ReportStatusStep, RegisterUploadStep, VerifyUploadStep,
     MarkUploadedStep, PutBundleStep DEF Device
<1>2. CASE Api
  BY <1>2, CheckSessionStep, PickArtifactStep, SubmitSessionStep,
     RefuseSubmitStep DEF Api
<1>3. CASE \E w \in Workers : WorkerStep(w)
  BY <1>3, ClaimNextJobStep, StartImportRunStep, LookupArtifactStep,
     FetchBundleStep, CopyRawStep, CommitImportStep, RollBackImportStep,
     FailImportStep, CompleteJobStep, FailJobStep DEF WorkerStep
<1>4. CASE Infrastructure
  BY <1>4, FaultStep, CrashStep DEF Infrastructure
<1>5. CASE UNCHANGED vars
  <2> USE <1>5 DEF vars, IInv
  <2>1. TypeOK'
    BY DEF TypeOK
  <2>2. ArtifactInv' /\ RequestInv' /\ JobInv'
    BY DEF ArtifactInv, RequestInv, JobInv
  <2>3. WorkerInv'
    BY DEF WorkerInv
  <2>4. PlanInv'
    BY DEF PlanInv, PlanIsLinked, VerifiedPlans
  <2> QED BY <2>1, <2>2, <2>3, <2>4
<1> QED BY <1>1, <1>2, <1>3, <1>4, <1>5 DEF Next

\* The inductive invariant holds in every reachable state.
THEOREM Invariance == Spec => []IInv
BY InitIInv, NextIInv, PTL DEF Spec

\* Every row keeps the shape its table declares.
THEOREM TypeCorrect == Spec => []TypeOK
<1>1. IInv => TypeOK
  BY DEF IInv
<1> QED BY <1>1, Invariance, PTL

\* However jobs are retried or redelivered, a session has at most one plan.
THEOREM OnePlanPerSession == Spec => []AtMostOnePlan
<1>1. IInv => AtMostOnePlan
  BY DEF IInv, TypeOK, PlanInv, PlanIsLinked, AtMostOnePlan
<1> QED BY <1>1, Invariance, PTL

\* No import leaves an orphan plan, or a plan whose session is not reviewable.
THEOREM PlansAreLinked == Spec => []PlanIsLinked
<1>1. IInv => PlanIsLinked
  BY DEF IInv, PlanInv
<1> QED BY <1>1, Invariance, PTL

\* claimNextJob gives a job to one worker at a time.
THEOREM ExclusiveWorkers == Spec => []OneWorkerPerJob
<1>1. IInv => OneWorkerPerJob
  BY DEF IInv, TypeOK, WorkerInv, OneWorkerPerJob, JobOf
<1> QED BY <1>1, Invariance, PTL

\* A job is marked succeeded only once its session is settled.
THEOREM SucceededMeansSettled == Spec => []SucceededJobSettledSession
<1>1. IInv => SucceededJobSettledSession
  BY DEF IInv, JobInv, Settled, SucceededJobSettledSession
<1> QED BY <1>1, Invariance, PTL

-----------------------------------------------------------------------------

\* NoEventBeforeCommit is inductive relative to IInv: a plan stays linked
\* because the import transaction needs a session that has none.
LEMMA EventStep ==
  ASSUME IInv, NoEventBeforeCommit, [Next]_vars
  PROVE  NoEventBeforeCommit'
<1> USE DEF captureVars, sessionVars, budgetVars
<1>1. ASSUME NEW w \in Workers, CommitImport(w)
      PROVE  NoEventBeforeCommit'
  <2> DEFINE s == SessionOf(w)
             n == JobOf(w).attempts
             p == [session |-> s, capture |-> JobOf(w).capture, attempt |-> n,
                   sha |-> workers[w].sha, bundle |-> workers[w].bundle]
  <2>1. s \in Sessions /\ status[s] = "processing"
    BY <1>1, BusyWorker DEF CommitImport, At, Matches
  <2>2. plans' = plans \cup {p} /\ planId' = [planId EXCEPT ![s] = p]
    BY <1>1 DEF CommitImport
  <2>3. ASSUME NEW e \in outbox', e.type = "scan.needs_review"
        PROVE  \E q \in plans' : /\ q.session = e.session
                                 /\ q.attempt = e.attempt
                                 /\ planId'[e.session] = q
    <3>1. CASE e \in outbox
      <4>1. PICK q \in plans : /\ q.session = e.session
                               /\ q.attempt = e.attempt
                               /\ planId[e.session] = q
        BY <2>3, <3>1 DEF NoEventBeforeCommit
      <4>2. e.session # s /\ e.session \in Sessions
        BY <4>1, <2>1
        DEF IInv, TypeOK, EventRows, PlanRows, PlanInv, PlanIsLinked,
            Lifecycle!Reviewable
      <4> QED BY <4>1, <4>2, <2>2 DEF IInv, TypeOK
    <3>2. CASE e = Event("scan.needs_review", s, RunOf(w), n)
      <4>1. e.session = s /\ e.attempt = n
        BY <3>2 DEF Event
      <4>2. p.session = s /\ p.attempt = n /\ planId'[s] = p /\ p \in plans'
        BY <2>1, <2>2 DEF IInv, TypeOK
      <4> QED BY <4>1, <4>2
    <3> QED BY <1>1, <2>3, <3>1, <3>2 DEF CommitImport
  <2> QED BY <2>3 DEF NoEventBeforeCommit
<1>2. ASSUME UNCHANGED <<plans, planId>>,
             \A e \in outbox' : e \in outbox \/ e.type # "scan.needs_review"
      PROVE  NoEventBeforeCommit'
  BY <1>2 DEF NoEventBeforeCommit
<1>3. CASE Device
  BY <1>3, <1>2 DEF Device, ReportStatus, RegisterUpload, VerifyUpload,
     MarkUploaded, PutBundle
<1>4. CASE Api
  <2>1. ASSUME NEW q \in Requests, NEW r \in Runs, SubmitSession(q, r)
        PROVE  NoEventBeforeCommit'
    BY <2>1, <1>2 DEF SubmitSession, Event
  <2> QED BY <1>4, <2>1, <1>2 DEF Api, CheckSession, PickArtifact, RefuseSubmit
<1>5. ASSUME NEW w \in Workers, WorkerStep(w)
      PROVE  NoEventBeforeCommit'
  <2>1. ASSUME FailImport(w) PROVE NoEventBeforeCommit'
    BY <2>1, <1>2 DEF FailImport, Event
  <2> QED BY <1>5, <1>1, <1>2, <2>1 DEF WorkerStep, ClaimNextJob,
             StartImportRun, LookupArtifact, FetchBundle, CheckRaw, PutRaw,
             RollBackImport, CompleteJob, FailJob
<1>6. CASE Infrastructure
  BY <1>6, <1>2 DEF Infrastructure, Fault, Crash
<1>7. CASE UNCHANGED vars
  BY <1>7, <1>2 DEF vars
<1> QED BY <1>3, <1>4, <1>5, <1>6, <1>7 DEF Next

\* No consumer hears of a review before the plan it announces is committed.
THEOREM EventsFollowCommits == Spec => []NoEventBeforeCommit
<1>1. Init => NoEventBeforeCommit
  BY DEF Init, NoEventBeforeCommit
<1>2. IInv /\ NoEventBeforeCommit /\ [Next]_vars => NoEventBeforeCommit'
  BY EventStep
<1> QED BY <1>1, <1>2, Invariance, PTL DEF Spec

-----------------------------------------------------------------------------

\* Every step of the pipeline is a step of the session's lifecycle or leaves
\* status and plan_id alone.
LEMMA LifecycleStep ==
  ASSUME IInv, [Next]_vars
  PROVE  [Lifecycle!Next]_<<status, planId>>
<1> USE DEF captureVars, sessionVars, budgetVars
<1>1. ASSUME NEW s \in Sessions, NEW to \in Statuses, planId' = planId,
             <<status[s], to>> \in Lifecycle!Transitions,
             status' = [status EXCEPT ![s] = to]
      PROVE  Lifecycle!Next
  BY <1>1 DEF Lifecycle!Next, Lifecycle!Move, Statuses
<1>2. ASSUME UNCHANGED <<status, planId>>
      PROVE  [Lifecycle!Next]_<<status, planId>>
  BY <1>2
<1>3. CASE Device
  <2>1. ASSUME NEW s \in Sessions, NEW to \in Statuses, ReportStatus(s, to)
        PROVE  Lifecycle!Next
    BY <2>1, <1>1, PipelineAssumption DEF ReportStatus
  <2> QED BY <1>3, <2>1, <1>2 DEF Device, RegisterUpload, VerifyUpload,
             MarkUploaded, PutBundle
<1>4. CASE Api
  <2>1. ASSUME NEW q \in Requests, NEW r \in Runs, SubmitSession(q, r)
        PROVE  Lifecycle!Next
    BY <2>1, <1>1 DEF SubmitSession, Matches, IInv, RequestInv,
       Lifecycle!Transitions, Statuses, Lifecycle!Statuses
  <2> QED BY <1>4, <2>1, <1>2 DEF Api, CheckSession, PickArtifact, RefuseSubmit
<1>5. ASSUME NEW w \in Workers, WorkerStep(w)
      PROVE  [Lifecycle!Next]_<<status, planId>>
  <2>1. ASSUME CommitImport(w)
        PROVE  Lifecycle!Next
    <3> DEFINE s == SessionOf(w)
               p == [session |-> s, capture |-> JobOf(w).capture,
                     attempt |-> JobOf(w).attempts,
                     sha |-> workers[w].sha, bundle |-> workers[w].bundle]
    <3>1. s \in Sessions /\ status[s] = "processing"
      BY <2>1, BusyWorker DEF CommitImport, At, Matches
    <3>2. planId[s] = None
      BY <3>1 DEF IInv, PlanInv, Lifecycle!Reviewable
    <3>3. p \in PlanRows
      <4>1. workers[w].bundle \in Contents /\ workers[w].sha \in Contents
        BY <2>1, PipelineAssumption DEF CommitImport, At, IInv, WorkerInv
      <4>2. /\ JobOf(w).capture \in Captures
            /\ JobOf(w).attempts \in 1..MaxAttempts
        BY <2>1, BusyWorker DEF CommitImport, At
      <4> QED BY <3>1, <4>1, <4>2 DEF PlanRows
    <3>4. Lifecycle!AttachPlan(s, p)
      BY <2>1, <3>1, <3>2 DEF CommitImport, Lifecycle!AttachPlan
    <3> QED BY <3>1, <3>3, <3>4 DEF Lifecycle!Next
  <2>2. ASSUME FailImport(w)
        PROVE  [Lifecycle!Next]_<<status, planId>>
    <3>1. SessionOf(w) \in Sessions
      BY <2>2, BusyWorker DEF FailImport, At
    <3> QED BY <2>2, <3>1, <1>1, <1>2 DEF FailImport, Matches,
               Lifecycle!Transitions, Statuses, Lifecycle!Statuses
  <2> QED BY <1>5, <2>1, <2>2, <1>2 DEF WorkerStep, ClaimNextJob,
             StartImportRun, LookupArtifact, FetchBundle, CheckRaw, PutRaw,
             RollBackImport, CompleteJob, FailJob
<1>6. CASE Infrastructure
  BY <1>6, <1>2 DEF Infrastructure, Fault, Crash
<1>7. CASE UNCHANGED vars
  BY <1>7, <1>2 DEF vars
<1> QED BY <1>3, <1>4, <1>5, <1>6, <1>7 DEF Next

\* The pipeline implements the promise of the session row.
THEOREM Refinement == Spec => ImplementsLifecycle
<1>1. Init => Lifecycle!Init
  BY DEF Init, Lifecycle!Init
<1>2. IInv /\ [Next]_vars => [Lifecycle!Next]_<<status, planId>>
  BY LifecycleStep
<1> QED BY <1>1, <1>2, Invariance, PTL
        DEF Spec, ImplementsLifecycle, Lifecycle!Spec, Lifecycle!vars

-----------------------------------------------------------------------------

\* What makes a second submission impossible: whatever has a run or an event
\* has been submitted, and the compare-and-set wants a session that has not.
SubmitInv ==
  /\ \A r \in Runs : runs[r].session # None =>
       status[runs[r].session] \in Lifecycle!Submitted
  /\ \A e \in outbox : status[e.session] \in Lifecycle!Submitted
  /\ SubmittedOnce

\* A session that has been submitted never becomes unsubmitted.
LEMMA StaysSubmitted ==
  ASSUME IInv, [Next]_vars, NEW s \in Sessions,
         status[s] \in Lifecycle!Submitted
  PROVE  status'[s] \in Lifecycle!Submitted
<1>1. [Lifecycle!Next]_<<status, planId>>
  BY LifecycleStep
<1>2. status \in [Sessions -> Statuses]
  BY DEF IInv, TypeOK
<1>3. ASSUME NEW t \in Sessions, NEW to \in Lifecycle!Statuses,
             Lifecycle!Move(t, to)
      PROVE  status'[s] \in Lifecycle!Submitted
  BY <1>2, <1>3 DEF Lifecycle!Move, Lifecycle!Transitions, Lifecycle!Submitted
<1>4. ASSUME NEW t \in Sessions, NEW p \in PlanRows, Lifecycle!AttachPlan(t, p)
      PROVE  status'[s] \in Lifecycle!Submitted
  BY <1>2, <1>4 DEF Lifecycle!AttachPlan, Lifecycle!Submitted
<1> QED BY <1>1, <1>3, <1>4 DEF Lifecycle!Next

\* A step that creates no job, run or "scan.processing" event submits nothing.
LEMMA NoSubmission ==
  ASSUME IInv, SubmitInv, [Next]_vars,
         \A r \in Runs : runs'[r].session = runs[r].session,
         \A k \in JobKeys : jobs'[k].status # "absent" => jobs[k].status # "absent",
         \A e \in outbox' : \/ e \in outbox
                            \/ /\ e.type # "scan.processing"
                               /\ e.session \in Sessions
                               /\ status[e.session] \in Lifecycle!Submitted
  PROVE  SubmitInv'
<1>1. \A r \in Runs : runs[r].session \in Sessions \cup {None}
  BY DEF IInv, TypeOK, RunRows
<1>2. \A e \in outbox : e.session \in Sessions
  BY DEF IInv, TypeOK, EventRows
<1>3. \A r \in Runs : runs'[r].session # None =>
        status'[runs'[r].session] \in Lifecycle!Submitted
  BY <1>1, StaysSubmitted DEF SubmitInv
<1>4. \A e \in outbox' : status'[e.session] \in Lifecycle!Submitted
  BY <1>2, StaysSubmitted DEF SubmitInv
<1>5. SubmittedOnce'
  BY DEF SubmitInv, SubmittedOnce
<1> QED BY <1>3, <1>4, <1>5 DEF SubmitInv

\* The completion transaction submits a session nothing has been created for.
LEMMA SubmissionStep ==
  ASSUME IInv, SubmitInv, [Next]_vars, NEW q \in Requests, NEW r \in Runs,
         SubmitSession(q, r)
  PROVE  SubmitInv'
<1> DEFINE s == requests[q].session
           k == <<s, requests[q].sha>>
           x == Event("scan.processing", s, r, 0)
<1>1. s \in Sessions /\ k \in JobKeys /\ k[1] = s /\ status[s] = "uploading"
  BY KeyFacts DEF SubmitSession, Matches, IInv, RequestInv
<1>2. /\ status' = [status EXCEPT ![s] = "processing"]
      /\ runs' = [runs EXCEPT ![r] = [status |-> "queued", session |-> s]]
      /\ outbox' = outbox \cup {x}
      /\ Enqueue(k, r, requests[q].capture)
  BY DEF SubmitSession
<1>3. x.session = s /\ x.type = "scan.processing"
  BY DEF Event
<1>4. /\ \A p \in Runs : runs[p].session # s
      /\ \A e \in outbox : e.session # s
  BY <1>1, PipelineAssumption DEF SubmitInv, Lifecycle!Submitted
<1>5. \A j \in JobKeys : j[1] = s => jobs[j].status = "absent"
  BY <1>1 DEF IInv, JobInv, Lifecycle!Submitted
<1>6. \A j \in JobKeys \ {k} : jobs'[j] = jobs[j]
  BY <1>2 DEF Enqueue, IInv, TypeOK
<1>7. /\ runs'[r].session = s
      /\ \A p \in Runs \ {r} : runs'[p].session = runs[p].session
  BY <1>2 DEF IInv, TypeOK
<1>8. \A t \in Sessions : status[t] \in Lifecycle!Submitted
                            => status'[t] \in Lifecycle!Submitted
  BY StaysSubmitted
<1>9. status'[s] \in Lifecycle!Submitted
  BY <1>1, <1>2 DEF IInv, TypeOK, Lifecycle!Submitted
<1>10. \A p \in Runs : runs'[p].session # None =>
         status'[runs'[p].session] \in Lifecycle!Submitted
  <2>1. \A p \in Runs : runs[p].session \in Sessions \cup {None}
    BY DEF IInv, TypeOK, RunRows
  <2> QED BY <1>7, <1>8, <1>9, <2>1 DEF SubmitInv
<1>11. \A e \in outbox' : status'[e.session] \in Lifecycle!Submitted
  <2>1. \A e \in outbox : e.session \in Sessions
    BY DEF IInv, TypeOK, EventRows
  <2> QED BY <1>2, <1>3, <1>8, <1>9, <2>1 DEF SubmitInv
<1>12. SubmittedOnce'
  <2>1. \A p, t \in Runs : runs'[p].session = runs'[t].session
                             => p = t \/ runs'[p].session = None
    BY <1>4, <1>7 DEF SubmitInv, SubmittedOnce
  <2>2. \A i, j \in JobKeys : i[1] = j[1] /\ jobs'[i].status # "absent"
                                /\ jobs'[j].status # "absent" => i = j
    BY <1>1, <1>5, <1>6 DEF SubmitInv, SubmittedOnce
  <2>3. \A d, e \in outbox' : d.type = "scan.processing" /\ e.type = d.type
                                /\ d.session = e.session => d = e
    BY <1>2, <1>3, <1>4 DEF SubmitInv, SubmittedOnce
  <2> QED BY <2>1, <2>2, <2>3 DEF SubmittedOnce
<1> QED BY <1>10, <1>11, <1>12 DEF SubmitInv

\* Only the completion transaction submits; whatever a worker announces is
\* about a session that has been submitted.
LEMMA SubmitInvStep ==
  ASSUME IInv, SubmitInv, [Next]_vars
  PROVE  SubmitInv'
<1> USE DEF captureVars, sessionVars, budgetVars
<1>1. CASE UNCHANGED <<runs, jobs, outbox>>
  BY <1>1, NoSubmission
<1>2. CASE Device
  BY <1>1, <1>2 DEF Device, ReportStatus, RegisterUpload, VerifyUpload,
     MarkUploaded, PutBundle
<1>3. CASE Api
  BY <1>1, <1>3, SubmissionStep DEF Api, CheckSession, PickArtifact, RefuseSubmit
<1>4. ASSUME NEW w \in Workers, WorkerStep(w)
      PROVE  SubmitInv'
  <2>1. ASSUME NEW k \in JobKeys, ClaimNextJob(w, k)
        PROVE  SubmitInv'
    <3>1. \A j \in JobKeys : jobs'[j].status # "absent" => jobs[j].status # "absent"
      BY <2>1 DEF ClaimNextJob, Claimable, IInv, TypeOK
    <3> QED BY <2>1, <3>1, NoSubmission DEF ClaimNextJob
  <2>2. CASE StartImportRun(w)
    <3>1. \A r \in Runs : runs'[r].session = runs[r].session
      BY <2>2 DEF StartImportRun, IInv, TypeOK
    <3> QED BY <2>2, <3>1, NoSubmission DEF StartImportRun
  <2>3. CASE CommitImport(w) \/ FailImport(w)
    <3>1. At(w, "import") \/ At(w, "fail")
      BY <2>3 DEF CommitImport, FailImport
    <3>2. /\ SessionOf(w) \in Sessions
          /\ status[SessionOf(w)] \in Lifecycle!Submitted
      <4>1. /\ workers[w].key \in JobKeys
            /\ jobs[workers[w].key].status = "running"
        BY <3>1 DEF At, IInv, WorkerInv
      <4> QED BY <4>1, KeyFacts DEF IInv, JobInv, SessionOf
    <3>3. \A r \in Runs : runs'[r].session = runs[r].session
      <4>1. \E outcome \in {"succeeded", "failed"} : FinishRun(RunOf(w), outcome)
        BY <2>3 DEF CommitImport, FailImport
      <4> QED BY <4>1 DEF FinishRun, IInv, TypeOK, RunRows
    <3>4. \A e \in outbox' : \/ e \in outbox
                             \/ /\ e.type # "scan.processing"
                                /\ e.session = SessionOf(w)
      BY <2>3 DEF CommitImport, FailImport, Event
    <3>5. jobs' = jobs
      BY <2>3 DEF CommitImport, FailImport
    <3> QED BY <3>2, <3>3, <3>4, <3>5, NoSubmission
  <2>4. CASE CompleteJob(w) \/ FailJob(w)
    <3>1. ~At(w, "idle")
      BY <2>4 DEF CompleteJob, FailJob, At
    <3>2. \A j \in JobKeys : jobs'[j].status # "absent" => jobs[j].status # "absent"
      BY <2>4, <3>1 DEF At, CompleteJob, FailJob, IInv, TypeOK, WorkerInv
    <3>3. UNCHANGED <<runs, outbox>>
      BY <2>4 DEF CompleteJob, FailJob
    <3> QED BY <3>2, <3>3, NoSubmission
  <2> QED BY <1>1, <1>4, <2>1, <2>2, <2>3, <2>4 DEF WorkerStep, LookupArtifact,
             FetchBundle, CheckRaw, PutRaw, RollBackImport
<1>5. CASE Infrastructure
  BY <1>1, <1>5 DEF Infrastructure, Fault, Crash
<1>6. CASE UNCHANGED vars
  BY <1>1, <1>6 DEF vars
<1> QED BY <1>2, <1>3, <1>4, <1>5, <1>6 DEF Next

\* However many completion requests race, one of them submits the session.
THEOREM OneSubmission == Spec => []SubmittedOnce
<1>1. Init => SubmitInv
  BY DEF Init, SubmitInv, SubmittedOnce
<1>2. IInv /\ SubmitInv /\ [Next]_vars => SubmitInv'
  BY SubmitInvStep
<1>3. SubmitInv => SubmittedOnce
  BY DEF SubmitInv
<1> QED BY <1>1, <1>2, <1>3, Invariance, PTL DEF Spec

-----------------------------------------------------------------------------

\* The files the loop has passed are there; the file it is about to put is not.
Copied(c, m) == \A n \in 1..m : raw[c][n] # None

WorkerCopied(w) ==
  /\ workers[w].pc \in {"preserve", "put"} =>
       Copied(JobOf(w).capture, workers[w].file - 1)
  /\ workers[w].pc = "put" => raw[JobOf(w).capture][workers[w].file] = None
  /\ workers[w].pc = "import" => Copied(JobOf(w).capture, Files)

\* That nobody else puts it rests on the job being the only one of its session.
CopyInv ==
  /\ \A w \in Workers : WorkerCopied(w)
  /\ \A p \in plans : Copied(p.capture, Files)
  /\ \A q \in Requests : requests[q].pc = "picked" =>
                           requests[q].capture[1] = requests[q].session
  /\ \A k \in JobKeys : jobs[k].status # "absent" => jobs[k].capture[1] = k[1]

\* Two busy workers copy the files of two captures.
LEMMA OneCapture ==
  ASSUME IInv, SubmitInv, CopyInv, NEW v \in Workers, NEW w \in Workers, v # w,
         workers[v].pc # "idle", workers[w].pc # "idle"
  PROVE  JobOf(v).capture # JobOf(w).capture
<1> SUFFICES ASSUME JobOf(v).capture = JobOf(w).capture PROVE FALSE
  OBVIOUS
<1>1. /\ workers[v].key \in JobKeys /\ workers[w].key \in JobKeys
      /\ jobs[workers[v].key].status = "running" /\ jobs[workers[w].key].status = "running"
      /\ workers[v].key # workers[w].key
  BY PipelineAssumption DEF IInv, WorkerInv
<1>2. workers[v].key[1] = workers[w].key[1]
  BY <1>1 DEF CopyInv, JobOf
<1> QED BY <1>1, <1>2 DEF SubmitInv, SubmittedOnce

\* Writing the file worker w is about to put takes nothing from anyone.
LEMMA WriteKeeps ==
  ASSUME IInv, SubmitInv, CopyInv, NEW w \in Workers, workers[w].pc # "idle",
         \/ raw' = raw
         \/ /\ workers[w].pc = "put"
            /\ \E x \in Contents \cup {Torn} :
                 raw' = [raw EXCEPT ![JobOf(w).capture][workers[w].file] = x]
  PROVE  /\ \A c \in Captures, n \in 1..Files : raw[c][n] # None => raw'[c][n] = raw[c][n]
         /\ \A c \in Captures : c # JobOf(w).capture => raw'[c] = raw[c]
         /\ \A c \in Captures, n \in 1..Files : raw[c][n] # None => raw'[c][n] # None
         /\ workers[w].pc = "put" /\ raw' # raw =>
              raw'[JobOf(w).capture][workers[w].file] # None
<1>1. CASE raw' = raw
  BY <1>1
<1>2. CASE workers[w].pc = "put" /\ raw' # raw
  <2>1. /\ JobOf(w).capture \in Captures /\ workers[w].file \in 1..Files
        /\ raw[JobOf(w).capture][workers[w].file] = None
        /\ raw \in [Captures -> RawFiles]
    BY <1>2, BusyWorker DEF IInv, TypeOK, WorkerInv, CopyInv, WorkerCopied
  <2>2. PICK x \in Contents \cup {Torn} :
          raw' = [raw EXCEPT ![JobOf(w).capture][workers[w].file] = x]
    BY <1>2
  <2>3. x # None
    BY PipelineAssumption
  <2> QED BY <2>1, <2>2, <2>3 DEF RawFiles
<1> QED BY <1>1, <1>2

\* A step of worker w, which leaves the requests and the jobs' payloads alone.
LEMMA WorkerKeepsCopies ==
  ASSUME IInv, SubmitInv, CopyInv, NEW w \in Workers, workers[w].pc # "idle",
         \/ raw' = raw
         \/ /\ workers[w].pc = "put"
            /\ \E x \in Contents \cup {Torn} :
                 raw' = [raw EXCEPT ![JobOf(w).capture][workers[w].file] = x],
         \A v \in Workers : v # w => workers'[v] = workers[v],
         \A k \in JobKeys : /\ jobs'[k].capture = jobs[k].capture
                            /\ jobs'[k].status # "absent" => jobs[k].status # "absent",
         \A p \in plans' : p \in plans \/ (Copied(p.capture, Files) /\ p.capture \in Captures),
         requests' = requests, WorkerCopied(w)'
  PROVE  CopyInv'
<1>1. ASSUME NEW v \in Workers, v # w PROVE WorkerCopied(v)'
  <2>1. CASE workers[v].pc = "idle"
    BY <1>1, <2>1 DEF WorkerCopied
  <2>2. CASE workers[v].pc # "idle"
    <3>1. /\ JobOf(v).capture # JobOf(w).capture /\ JobOf(v).capture \in Captures
          /\ workers[v].key \in JobKeys
      BY <1>1, <2>2, OneCapture, BusyWorker
    <3>2. raw'[JobOf(v).capture] = raw[JobOf(v).capture]
      BY <3>1, WriteKeeps
    <3>3. JobOf(v)'.capture = JobOf(v).capture /\ workers'[v] = workers[v]
      BY <1>1, <3>1 DEF JobOf
    <3>4. WorkerCopied(v)
      BY DEF CopyInv
    <3> QED BY <3>2, <3>3, <3>4 DEF WorkerCopied, Copied
  <2> QED BY <2>1, <2>2
<1>2. ASSUME NEW p \in plans' PROVE Copied(p.capture, Files)'
  <2>1. Copied(p.capture, Files) /\ p.capture \in Captures
    BY DEF CopyInv, IInv, TypeOK, PlanRows
  <2> QED BY <2>1, WriteKeeps DEF Copied
<1> QED BY <1>1, <1>2 DEF CopyInv

\* A step that touches neither raw files, workers nor plans.
LEMMA OthersKeepCopies ==
  ASSUME CopyInv, IInv, UNCHANGED <<raw, workers, plans>>,
         \A k \in JobKeys : jobs[k].status # "absent" => jobs'[k].capture = jobs[k].capture,
         \A k \in JobKeys : jobs'[k].status # "absent" => jobs'[k].capture[1] = k[1],
         \A q \in Requests : requests'[q].pc = "picked" =>
                               requests'[q].capture[1] = requests'[q].session
  PROVE  CopyInv'
<1>1. ASSUME NEW w \in Workers PROVE WorkerCopied(w)'
  <2>1. CASE workers[w].pc = "idle"
    BY <2>1 DEF WorkerCopied
  <2>2. CASE workers[w].pc # "idle"
    <3>1. JobOf(w)'.capture = JobOf(w).capture
      BY <2>2, BusyWorker DEF JobOf
    <3> QED BY <3>1 DEF CopyInv, WorkerCopied, Copied
  <2> QED BY <2>1, <2>2
<1>2. ASSUME NEW p \in plans' PROVE Copied(p.capture, Files)'
  BY DEF CopyInv, Copied
<1> QED BY <1>1, <1>2 DEF CopyInv

\* The requests pick, and submit, captures of their own session.
LEMMA ApiKeepsCopies ==
  ASSUME IInv, CopyInv, Api
  PROVE  CopyInv'
<1> USE DEF captureVars, sessionVars, budgetVars
<1>1. ASSUME NEW q \in Requests, NEW r \in Runs, SubmitSession(q, r) PROVE CopyInv'
  <2> DEFINE k == <<requests[q].session, requests[q].sha>>
             c == requests[q].capture
  <2>1. k \in JobKeys /\ k[1] = requests[q].session /\ c[1] = requests[q].session
    BY <1>1, KeyFacts DEF SubmitSession, IInv, RequestInv, CopyInv
  <2>2. \A j \in JobKeys : \/ jobs'[j] = jobs[j]
                           \/ j = k /\ jobs[j].status = "absent" /\ jobs'[j].capture = c
    BY <1>1, <2>1 DEF SubmitSession, Enqueue, IInv, TypeOK
  <2>3. \A p \in Requests : requests'[p] = requests[p] \/ requests'[p].pc = "idle"
    BY <1>1 DEF SubmitSession, IdleRequest, IInv, TypeOK
  <2>4. UNCHANGED <<raw, workers, plans>>
    BY <1>1 DEF SubmitSession
  <2> QED BY <2>1, <2>2, <2>3, <2>4, OthersKeepCopies DEF CopyInv
<1>2. ASSUME NEW q \in Requests, NEW c \in Captures, PickArtifact(q, c) PROVE CopyInv'
  <2>1. requests[q] \in RequestStates /\ c[1] = requests[q].session
    BY <1>2 DEF PickArtifact, UploadedOf, IInv, TypeOK
  <2>2. \A p \in Requests : \/ requests'[p] = requests[p]
                            \/ /\ requests'[p].capture = c
                               /\ requests'[p].session = requests[q].session
    BY <1>2, <2>1 DEF PickArtifact, IInv, TypeOK, RequestStates
  <2>3. UNCHANGED <<raw, workers, plans, jobs>>
    BY <1>2 DEF PickArtifact
  <2> QED BY <2>1, <2>2, <2>3, OthersKeepCopies DEF CopyInv
<1>3. ASSUME NEW q \in Requests, RefuseSubmit(q) \/ \E s \in Sessions : CheckSession(q, s)
      PROVE  CopyInv'
  <2>1. \A p \in Requests : requests'[p] = requests[p] \/ requests'[p].pc # "picked"
    <3>1. CASE RefuseSubmit(q)
      BY <3>1 DEF RefuseSubmit, IdleRequest, IInv, TypeOK
    <3>2. ASSUME NEW s \in Sessions, CheckSession(q, s)
          PROVE  \A p \in Requests : requests'[p] = requests[p] \/ requests'[p].pc # "picked"
      BY <3>2 DEF CheckSession, IdleRequest, IInv, TypeOK
    <3> QED BY <1>3, <3>1, <3>2
  <2>2. UNCHANGED <<raw, workers, plans, jobs>>
    BY <1>3 DEF RefuseSubmit, CheckSession
  <2> QED BY <2>1, <2>2, OthersKeepCopies DEF CopyInv
<1> QED BY <1>1, <1>2, <1>3 DEF Api

\* A claim starts before any file; nobody else's file is touched.
LEMMA ClaimKeepsCopies ==
  ASSUME IInv, CopyInv, NEW w \in Workers, NEW k \in JobKeys, ClaimNextJob(w, k)
  PROVE  CopyInv'
<1>1. \A j \in JobKeys : /\ jobs'[j].capture = jobs[j].capture
                         /\ jobs'[j].status # "absent" => jobs[j].status # "absent"
  BY DEF ClaimNextJob, Claimable, IInv, TypeOK, JobRows
<1>2. workers'[w].pc = "start" /\ \A v \in Workers : v # w => workers'[v] = workers[v]
  BY DEF ClaimNextJob, IdleWorker, IInv, TypeOK
<1>3. UNCHANGED <<raw, plans, requests>>
  BY DEF ClaimNextJob
<1>4. ASSUME NEW v \in Workers PROVE WorkerCopied(v)'
  <2>1. CASE v = w \/ workers[v].pc = "idle"
    BY <1>2, <2>1 DEF WorkerCopied
  <2>2. CASE v # w /\ workers[v].pc # "idle"
    <3>1. JobOf(v)'.capture = JobOf(v).capture
      BY <1>1, <1>2, <2>2, BusyWorker DEF JobOf
    <3> QED BY <1>2, <1>3, <2>2, <3>1 DEF CopyInv, WorkerCopied, Copied
  <2> QED BY <2>1, <2>2
<1> QED BY <1>1, <1>3, <1>4 DEF CopyInv, Copied

\* What the loop over the files has passed is there.
LEMMA LoopKeepsCopies ==
  ASSUME IInv, SubmitInv, CopyInv, NEW w \in Workers, CheckRaw(w) \/ PutRaw(w)
  PROVE  CopyInv'
<1> DEFINE c == JobOf(w).capture
           n == workers[w].file
<1>1. /\ workers[w].pc \in {"preserve", "put"} /\ n \in 1..Files /\ c \in Captures
      /\ Files \in Nat /\ workers[w].bundle \in Contents /\ workers[w].key \in JobKeys
      /\ UNCHANGED <<jobs, plans, requests>>
  BY BusyWorker, PipelineAssumption DEF CheckRaw, PutRaw, At, IInv, WorkerInv
<1>2. \/ raw' = raw
      \/ /\ workers[w].pc = "put"
         /\ \E x \in Contents \cup {Torn} : raw' = [raw EXCEPT ![c][n] = x]
  BY <1>1 DEF CheckRaw, PutRaw, At
<1>3. Copied(c, n - 1)
  BY <1>1 DEF CopyInv, WorkerCopied
<1>4. CASE CheckRaw(w) /\ Goto(w, "put")
  <2>1. /\ workers'[w].pc = "put" /\ workers'[w].file = n /\ workers'[w].key = workers[w].key
        /\ \A v \in Workers : v # w => workers'[v] = workers[v]
    BY <1>4 DEF Goto, IInv, TypeOK, WorkerStates
  <2>2. raw' = raw /\ (raw[c][n] = None \/ Advance(w))
    BY <1>4 DEF CheckRaw, Missing
  <2>3. ~Advance(w)
    BY <1>1, <2>1, AdvanceFacts
  <2>4. WorkerCopied(w)'
    BY <1>1, <1>3, <2>1, <2>2, <2>3 DEF WorkerCopied, Copied, JobOf
  <2> QED BY <1>1, <2>1, <2>2, <2>4, WorkerKeepsCopies
<1>5. CASE Advance(w) /\ (CheckRaw(w) => raw[c][n] # None)
  <2>1. /\ \A v \in Workers : v # w => workers'[v] = workers[v]
        /\ workers'[w].pc \in {"preserve", "import", "fail"}
        /\ workers'[w].key = workers[w].key /\ workers'[w].file = n + 1
        /\ workers'[w].pc = "import" => n = Files
    BY <1>1, <1>5, AdvanceFacts
  <2>2. \A i \in 1..n : raw'[c][i] # None
    <3>1. \A i \in 1..Files : raw[c][i] # None => raw'[c][i] # None
      BY <1>1, <1>2, WriteKeeps
    <3>2. raw'[c][n] # None
      <4>1. CASE CheckRaw(w)
        BY <1>1, <1>5, <3>1, <4>1
      <4>2. CASE PutRaw(w)
        <5>1. raw' = [raw EXCEPT ![c][n] = workers[w].bundle] /\ raw \in [Captures -> RawFiles]
          BY <4>2 DEF PutRaw, IInv, TypeOK
        <5> QED BY <1>1, <5>1, PipelineAssumption DEF RawFiles
      <4> QED BY <4>1, <4>2
    <3>3. ASSUME NEW i \in 1..n PROVE raw'[c][i] # None
      <4>1. CASE i = n
        BY <3>2, <4>1
      <4>2. CASE i # n
        BY <1>1, <1>3, <3>1, <4>2 DEF Copied
      <4> QED BY <4>1, <4>2
    <3> QED BY <3>3
  <2>3. WorkerCopied(w)'
    BY <1>1, <2>1, <2>2 DEF WorkerCopied, Copied, JobOf
  <2> QED BY <1>1, <1>2, <2>1, <2>3, WorkerKeepsCopies
<1> QED BY <1>4, <1>5 DEF CheckRaw, PutRaw, Missing

\* The other steps of a worker, its errors and its death.
LEMMA StepKeepsCopies ==
  ASSUME IInv, SubmitInv, CopyInv, NEW w \in Workers,
         \/ StartImportRun(w) \/ LookupArtifact(w) \/ FetchBundle(w) \/ RollBackImport(w)
         \/ FailImport(w) \/ CompleteJob(w) \/ FailJob(w) \/ CommitImport(w)
         \/ Fault(w) \/ Crash(w)
  PROVE  CopyInv'
<1>1. workers[w].pc # "idle" /\ workers[w].key \in JobKeys
  BY BusyWorker DEF StartImportRun, LookupArtifact, FetchBundle, RollBackImport, FailImport,
     CompleteJob, FailJob, CommitImport, Fault, Crash, At
<1>2. \/ raw' = raw
      \/ /\ workers[w].pc = "put"
         /\ \E x \in Contents \cup {Torn} :
              raw' = [raw EXCEPT ![JobOf(w).capture][workers[w].file] = x]
  BY DEF StartImportRun, LookupArtifact, FetchBundle, RollBackImport, FailImport,
     CompleteJob, FailJob, CommitImport, Fault, Crash, LeavesRaw, At
<1>3. requests' = requests
  BY DEF StartImportRun, LookupArtifact, FetchBundle, RollBackImport, FailImport,
     CompleteJob, FailJob, CommitImport, Fault, Crash
<1>4. \A k \in JobKeys : /\ jobs'[k].capture = jobs[k].capture
                         /\ jobs'[k].status # "absent" => jobs[k].status # "absent"
  <2>1. CASE jobs' = jobs
    BY <2>1
  <2>2. CASE CompleteJob(w) \/ FailJob(w)
    <3>1. PICK to \in {"succeeded", "dead", "queued"} :
            jobs' = [jobs EXCEPT ![workers[w].key].status = to]
      BY <2>2 DEF CompleteJob, FailJob
    <3>2. jobs[workers[w].key].status = "running"
      BY <1>1 DEF IInv, WorkerInv
    <3> QED BY <1>1, <3>1, <3>2 DEF IInv, TypeOK, JobRows
  <2> QED BY <2>1, <2>2 DEF StartImportRun, LookupArtifact, FetchBundle, RollBackImport,
             FailImport, CommitImport, Fault, Crash
<1>5. /\ \A v \in Workers : v # w => workers'[v] = workers[v]
      /\ workers'[w].pc \notin {"put", "import"}
      /\ workers'[w].pc = "preserve" => workers'[w].file = 1
  <2>1. workers \in [Workers -> WorkerStates]
    BY DEF IInv, TypeOK
  <2>2. CASE LookupArtifact(w)
    BY <2>1, <2>2 DEF LookupArtifact, WorkerStates
  <2>3. CASE FetchBundle(w)
    <3>1. workers[w].file = 1
      BY <2>3 DEF FetchBundle, At, IInv, WorkerInv
    <3> QED BY <2>1, <2>3, <3>1 DEF FetchBundle, WorkerStates
  <2>4. CASE workers' = [workers EXCEPT ![w] = IdleWorker]
    BY <2>1, <2>4 DEF IdleWorker
  <2>5. CASE \E pc \in {"lookup", "fail", "complete", "retry"} : Goto(w, pc)
    BY <2>1, <2>5 DEF Goto, WorkerStates
  <2> QED BY <2>2, <2>3, <2>4, <2>5 DEF StartImportRun, RollBackImport, FailImport,
             CompleteJob, FailJob, CommitImport, Fault, Crash
<1>6. WorkerCopied(w)'
  BY <1>5 DEF WorkerCopied, Copied
<1>7. \A p \in plans' : p \in plans \/ (Copied(p.capture, Files) /\ p.capture \in Captures)
  <2>1. CASE CommitImport(w)
    <3>1. Copied(JobOf(w).capture, Files) /\ JobOf(w).capture \in Captures
      BY <1>1, <2>1, BusyWorker DEF CommitImport, At, CopyInv, WorkerCopied
    <3> QED BY <2>1, <3>1 DEF CommitImport
  <2>2. CASE plans' = plans
    BY <2>2
  <2> QED BY <2>1, <2>2 DEF StartImportRun, LookupArtifact, FetchBundle, RollBackImport,
             FailImport, CompleteJob, FailJob, Fault, Crash
<1> QED BY <1>1, <1>2, <1>3, <1>4, <1>5, <1>6, <1>7, WorkerKeepsCopies

LEMMA CopyInvStep ==
  ASSUME IInv, SubmitInv, CopyInv, [Next]_vars
  PROVE  CopyInv'
<1> USE DEF captureVars, sessionVars, budgetVars
<1>1. CASE UNCHANGED <<raw, workers, plans, jobs, requests>>
  BY <1>1, OthersKeepCopies DEF CopyInv
<1>2. CASE Device
  BY <1>1, <1>2 DEF Device, ReportStatus, RegisterUpload, VerifyUpload, MarkUploaded, PutBundle
<1>3. ASSUME NEW w \in Workers, WorkerStep(w) \/ Fault(w) \/ Crash(w) PROVE CopyInv'
  BY <1>3, ClaimKeepsCopies, LoopKeepsCopies, StepKeepsCopies DEF WorkerStep
<1>4. CASE UNCHANGED vars
  BY <1>1, <1>4 DEF vars
<1> QED BY <1>2, <1>3, <1>4, ApiKeepsCopies DEF Next, Infrastructure

\* What the loop needs holds always.
LEMMA CopiesInvariant == Spec => [](SubmitInv /\ CopyInv)
<1>1. Init => SubmitInv /\ CopyInv
  BY DEF Init, SubmitInv, SubmittedOnce, CopyInv, WorkerCopied, IdleWorker, IdleRequest
<1>2. IInv /\ SubmitInv /\ CopyInv /\ [Next]_vars => SubmitInv' /\ CopyInv'
  BY SubmitInvStep, CopyInvStep
<1> QED BY <1>1, <1>2, Invariance, PTL DEF Spec

\* Plans are built only from bundles that passed every check of the worker, and
\* when their raw files are all in storage.
THEOREM PlansAreVerified == Spec => []PlanIsFromVerifiedBytes
<1>1. IInv /\ CopyInv => PlanIsFromVerifiedBytes
  BY DEF IInv, PlanInv, VerifiedPlans, CopyInv, Copied, PlanIsFromVerifiedBytes
<1> QED BY <1>1, Invariance, CopiesInvariant, PTL

\* A raw file is written at most once, although storage is asked and written in
\* two calls: until the put, no other attempt works on the same capture.
THEOREM RawNeverOverwritten == Spec => RawIsImmutable
<1> DEFINE Keeps == \A c \in Captures, n \in 1..Files :
                      raw[c][n] # None => raw'[c][n] = raw[c][n]
<1>1. IInv /\ SubmitInv /\ CopyInv /\ [Next]_vars => Keeps
  <2> SUFFICES ASSUME IInv, SubmitInv, CopyInv, [Next]_vars PROVE Keeps
    OBVIOUS
  <2>1. ASSUME NEW w \in Workers, PutRaw(w) \/ Fault(w) \/ Crash(w)
        PROVE  Keeps
    <3>1. workers[w].pc # "idle"
      BY <2>1 DEF PutRaw, Fault, Crash, At
    <3>2. \/ raw' = raw
          \/ /\ workers[w].pc = "put"
             /\ \E x \in Contents \cup {Torn} :
                  raw' = [raw EXCEPT ![JobOf(w).capture][workers[w].file] = x]
      BY <2>1 DEF PutRaw, Fault, Crash, LeavesRaw, At, IInv, WorkerInv
    <3> QED BY <3>1, <3>2, WriteKeeps
  <2>2. CASE raw' = raw
    BY <2>2
  <2> QED
    BY <2>1, <2>2 DEF Next, Device, ReportStatus, RegisterUpload, VerifyUpload,
       MarkUploaded, PutBundle, Api, CheckSession, PickArtifact, SubmitSession,
       RefuseSubmit, WorkerStep, ClaimNextJob, StartImportRun, LookupArtifact,
       FetchBundle, CheckRaw, CommitImport, RollBackImport, FailImport, CompleteJob,
       FailJob, Infrastructure, vars
<1> QED BY <1>1, Invariance, CopiesInvariant, PTL DEF RawIsImmutable, Spec

-----------------------------------------------------------------------------

\* Every attempt but the last has been ended by an error of its own, or will
\* be: the worker that is about to call failJob has had its error already.
RetryInv ==
  /\ \A k \in JobKeys :
       /\ jobs[k].status \in {"absent", "queued"} => jobs[k].attempts <= faults
       /\ jobs[k].status = "dead" => jobs[k].attempts = MaxAttempts
       /\ jobs[k].attempts <= faults + 1
  /\ \A w \in Workers : workers[w].pc = "retry" => JobOf(w).attempts <= faults

\* A step of a worker that neither claims nor gives up a job counts nothing.
LEMMA SameAttempts ==
  ASSUME IInv, RetryInv, faults' = faults,
         \A k \in JobKeys : /\ jobs'[k].attempts = jobs[k].attempts
                            /\ jobs'[k].status \in {"absent", "queued", "dead"}
                                 => jobs'[k].status = jobs[k].status,
         \A w \in Workers : workers'[w].pc = "retry" =>
           workers[w].pc = "retry" /\ workers'[w].key = workers[w].key
  PROVE  RetryInv'
<1>1. \A w \in Workers : workers[w].pc = "retry" => workers[w].key \in JobKeys
  BY DEF IInv, WorkerInv
<1> QED BY <1>1 DEF RetryInv, JobOf

\* The one error budget pays for every attempt after the first.
LEMMA RetryStep ==
  ASSUME IInv, RetryInv, [Next]_vars
  PROVE  RetryInv'
<1> USE DEF captureVars, sessionVars, budgetVars
<1>1. CASE UNCHANGED <<jobs, workers, faults>>
  BY <1>1, SameAttempts
<1>2. CASE Device
  BY <1>1, <1>2 DEF Device, ReportStatus, RegisterUpload, VerifyUpload,
     MarkUploaded, PutBundle
<1>3. CASE Api
  <2>1. ASSUME NEW q \in Requests, NEW r \in Runs, SubmitSession(q, r)
        PROVE  RetryInv'
    <3> DEFINE k == <<requests[q].session, requests[q].sha>>
    <3>1. k \in JobKeys
      BY <2>1, KeyFacts DEF SubmitSession, IInv, RequestInv
    <3>2. /\ \A j \in JobKeys : \/ jobs'[j] = jobs[j]
                                \/ jobs'[j].status = "queued" /\ jobs'[j].attempts = 0
          /\ workers' = workers /\ faults' = faults
      BY <2>1, <3>1 DEF SubmitSession, Enqueue, IInv, TypeOK
    <3>3. \A w \in Workers : workers[w].pc = "retry" =>
            /\ workers[w].key \in JobKeys
            /\ jobs'[workers[w].key].attempts <= faults
      BY <3>2 DEF IInv, TypeOK, WorkerInv, RetryInv, JobOf
    <3>4. faults \in Nat
      BY PipelineAssumption DEF IInv, TypeOK
    <3> QED BY <3>2, <3>3, <3>4 DEF RetryInv, JobOf
  <2> QED BY <1>1, <1>3, <2>1 DEF Api, CheckSession, PickArtifact, RefuseSubmit
<1>4. ASSUME NEW w \in Workers, WorkerStep(w)
      PROVE  RetryInv'
  <2>1. ASSUME NEW k \in JobKeys, ClaimNextJob(w, k)
        PROVE  RetryInv'
    <3>1. /\ jobs[k].attempts <= faults /\ jobs[k].attempts \in Nat
          /\ jobs'[k].attempts = jobs[k].attempts + 1
          /\ jobs'[k].status = "running"
      BY <2>1, PipelineAssumption
      DEF ClaimNextJob, Claimable, RetryInv, IInv, TypeOK, JobRows
    <3>2. \A j \in JobKeys \ {k} : jobs'[j] = jobs[j]
      BY <2>1 DEF ClaimNextJob, IInv, TypeOK
    <3>3. \A v \in Workers : workers'[v].pc = "retry" =>
            /\ workers[v].pc = "retry" /\ workers'[v] = workers[v]
            /\ workers[v].key \in JobKeys \ {k}
      BY <2>1 DEF ClaimNextJob, Claimable, IInv, TypeOK, WorkerInv, IdleWorker
    <3>4. faults' = faults /\ faults \in Nat
      BY <2>1, PipelineAssumption DEF ClaimNextJob, IInv, TypeOK
    <3> QED BY <3>1, <3>2, <3>3, <3>4 DEF RetryInv, JobOf
  <2>2. ASSUME UNCHANGED <<jobs, faults>>,
               NEW pc \in {"start", "lookup", "fetch", "preserve", "put", "import",
                           "fail", "complete"},
               \A v \in Workers \ {w} : workers'[v] = workers[v],
               workers'[w].pc = pc
        PROVE  RetryInv'
    BY <2>2, SameAttempts
  <2>3. CASE StartImportRun(w) \/ LookupArtifact(w) \/ FetchBundle(w)
               \/ CheckRaw(w) \/ PutRaw(w) \/ CommitImport(w) \/ RollBackImport(w)
               \/ FailImport(w)
    <3>1. UNCHANGED <<jobs, faults>>
      BY <2>3 DEF StartImportRun, LookupArtifact, FetchBundle, CheckRaw, PutRaw,
                  CommitImport, RollBackImport, FailImport
    <3>2. /\ \A v \in Workers \ {w} : workers'[v] = workers[v]
          /\ workers'[w].pc \in {"start", "lookup", "fetch", "preserve", "put",
                                 "import", "fail", "complete"}
      <4>1. workers \in [Workers -> WorkerStates]
        BY DEF IInv, TypeOK
      <4>2. CASE LookupArtifact(w)
        BY <4>1, <4>2 DEF LookupArtifact, WorkerStates
      <4>3. CASE FetchBundle(w)
        BY <4>1, <4>3 DEF FetchBundle, ChecksPass, WorkerStates
      <4>4. CASE StartImportRun(w) \/ CommitImport(w) \/ RollBackImport(w)
                   \/ FailImport(w)
        <5>1. \E pc \in {"lookup", "fail", "complete"} : Goto(w, pc)
          BY <4>4 DEF StartImportRun, CommitImport, RollBackImport, FailImport
        <5> QED BY <4>1, <5>1 DEF Goto, WorkerStates
      <4>5. CASE CheckRaw(w) \/ PutRaw(w)
        <5>1. workers[w].pc \in {"preserve", "put"} /\ (Goto(w, "put") \/ Advance(w))
          BY <4>5 DEF CheckRaw, PutRaw, At
        <5>2. CASE Goto(w, "put")
          BY <4>1, <5>2 DEF Goto, WorkerStates
        <5>3. CASE Advance(w)
          BY <5>1, <5>3, AdvanceFacts
        <5> QED BY <5>1, <5>2, <5>3
      <4> QED BY <2>3, <4>2, <4>3, <4>4, <4>5
    <3> QED BY <2>2, <3>1, <3>2
  <2>4. ASSUME CompleteJob(w)
        PROVE  RetryInv'
    <3>1. \A k \in JobKeys : /\ jobs'[k].attempts = jobs[k].attempts
                             /\ jobs'[k].status \in {"absent", "queued", "dead"}
                                  => jobs'[k].status = jobs[k].status
      BY <2>4 DEF CompleteJob, IInv, TypeOK, JobRows
    <3>2. \A v \in Workers : workers'[v].pc = "retry" => workers'[v] = workers[v]
      BY <2>4 DEF CompleteJob, IdleWorker, IInv, TypeOK
    <3> QED BY <2>4, <3>1, <3>2, SameAttempts DEF CompleteJob
  <2>5. ASSUME FailJob(w)
        PROVE  RetryInv'
    <3> DEFINE k == workers[w].key
    <3>1. /\ k \in JobKeys /\ workers[w].pc = "retry"
          /\ jobs[k].attempts <= faults /\ jobs[k].attempts \in 1..MaxAttempts
      BY <2>5, BusyWorker DEF FailJob, At, RetryInv, JobOf
    <3>2. /\ \A j \in JobKeys \ {k} : jobs'[j] = jobs[j]
          /\ jobs'[k].attempts = jobs[k].attempts
          /\ jobs'[k].status = IF Exhausted(w) THEN "dead" ELSE "queued"
      BY <2>5, <3>1 DEF FailJob, IInv, TypeOK, JobRows
    <3>3. Exhausted(w) => jobs[k].attempts = MaxAttempts
      BY <3>1, PipelineAssumption DEF Exhausted, JobOf
    <3>4. \A v \in Workers : workers'[v].pc = "retry" =>
            /\ workers[v].pc = "retry" /\ workers'[v] = workers[v]
            /\ workers[v].key \in JobKeys
            /\ JobOf(v).attempts <= faults
      BY <2>5 DEF FailJob, IdleWorker, IInv, TypeOK, WorkerInv, RetryInv
    <3>5. faults' = faults /\ faults \in Nat
      BY <2>5, PipelineAssumption DEF FailJob, IInv, TypeOK
    <3> QED BY <3>1, <3>2, <3>3, <3>4, <3>5 DEF RetryInv, JobOf
  <2> QED BY <1>4, <2>1, <2>3, <2>4, <2>5 DEF WorkerStep
<1>5. ASSUME NEW w \in Workers, Fault(w)
      PROVE  RetryInv'
  <2>1. faults' = faults + 1 /\ faults \in Nat /\ jobs' = jobs
    BY <1>5, PipelineAssumption DEF Fault, IInv, TypeOK
  <2>2. \A v \in Workers : workers'[v].pc = "retry" =>
          workers'[v].key = workers[v].key /\ workers[v].key \in JobKeys
    BY <1>5 DEF Fault, Goto, IInv, TypeOK, WorkerStates, WorkerInv
  <2>3. \A k \in JobKeys : jobs[k].attempts \in Nat
    BY PipelineAssumption DEF IInv, TypeOK, JobRows
  <2> QED BY <2>1, <2>2, <2>3 DEF RetryInv, JobOf
<1>6. ASSUME NEW w \in Workers, Crash(w)
      PROVE  RetryInv'
  <2>1. \A v \in Workers : workers'[v].pc = "retry" => workers'[v] = workers[v]
    BY <1>6 DEF Crash, IdleWorker, IInv, TypeOK
  <2> QED BY <1>6, <2>1, SameAttempts DEF Crash
<1>7. CASE UNCHANGED vars
  BY <1>1, <1>7 DEF vars
<1> QED BY <1>2, <1>3, <1>4, <1>5, <1>6, <1>7 DEF Next, Infrastructure

\* A job is retried only after an error, and dead only after its last attempt.
THEOREM RetriesAreBounded == Spec => []BoundedRetries
<1>1. Init => RetryInv
  BY DEF Init, RetryInv, IdleWorker
<1>2. IInv /\ RetryInv /\ [Next]_vars => RetryInv'
  BY RetryStep
<1>3. RetryInv => BoundedRetries
  BY DEF RetryInv, BoundedRetries
<1> QED BY <1>1, <1>2, <1>3, Invariance, PTL DEF Spec
=============================================================================
