---------------------------- MODULE CaptureUpload ----------------------------
(***************************************************************************)
(* The resumable upload of one capture: the device's ResumableUploader,    *)
(* which registers the capture, asks which parts the server holds, sends   *)
(* the missing ones and completes with the digest of its own file; and the *)
(* upload routes of the API over the capture_artifacts row, the            *)
(* capture_upload_parts rows and the objects in storage.                   *)
(*                                                                         *)
(* Every write to the database or to storage is a step of its own.  The    *)
(* device may give a request up (no answer, a killed app) while the server *)
(* goes on with it, so requests of several attempts overlap.  Bytes are    *)
(* pieces: part n of the zip of version v; two digests are equal when the  *)
(* sequences of pieces are.                                                *)
(***************************************************************************)
EXTENDS Naturals, Sequences

CONSTANTS
  Versions,       \* zips BundlePackager.package may write for the capture
  PartsOf,        \* [Versions -> Nat \ {0}]: partCount(forByteSize:) of each
  MaxParts,       \* bound of PartsOf
  Requests,       \* requests the server works on at a time (bound)
  MaxAttempts,    \* calls of ResumableUploader.upload (bound)
  None

VARIABLES
  driver,         \* STORAGE_DRIVER: "fs", or "s3" with presigned URLs
  zip,            \* the version on the device's disk
  first,          \* history: the version packaged first
  device,         \* control state of ResumableUploader.upload
  attempts,       \* calls of upload so far
  givenUp,        \* the device has stopped waiting for a request
  artifact,       \* the capture_artifacts row
  partRows,       \* part numbers with a capture_upload_parts row
  partObjects,    \* the part objects in storage
  bundle,         \* the bundle object in storage
  requests,       \* control state of the server's requests
  refused,        \* history: the bytes and the version completion last
                  \* answered "Checksum mismatch" about
  held            \* history: what the bundle object has been

deviceVars == <<zip, first, device, attempts, givenUp>>
storeVars == <<partRows, partObjects, bundle, held>>
vars == <<driver, zip, first, device, attempts, givenUp, artifact, partRows,
          partObjects, bundle, requests, refused, held>>

PartNumbers == 1..MaxParts
Torn == <<None, 0>>                   \* a file that is still being written
Pieces == (Versions \X PartNumbers) \cup {Torn}
Bytes == UNION { [1..n -> Pieces] : n \in PartNumbers }

ASSUME UploadAssumption ==
  /\ MaxParts \in Nat \ {0} /\ MaxAttempts \in Nat
  /\ PartsOf \in [Versions -> PartNumbers]
  /\ None \notin Requests \cup Versions \cup Pieces \cup Bytes

ArtifactType == [status : {"absent", "pending", "uploaded"},
                 count : 0..MaxParts, sha : Versions \cup {None}]
DeviceType == [pc : {"idle", "register", "choose", "parts", "complete", "wait"},
               next : {"idle", "choose", "parts", "complete"},
               version : Versions \cup {None}, request : Requests \cup {None},
               missing : SUBSET PartNumbers]
RequestType == [pc : {"idle", "register", "part", "torn", "row", "content",
                      "complete", "assemble", "put", "verify", "mark"},
                version : Versions \cup {None}, part : 0..MaxParts,
                buffers : Bytes \cup {<<>>}]
RefusalType == [bytes : Bytes, version : Versions]

TypeOK ==
  /\ driver \in {"fs", "s3"}
  /\ {zip, first} \subseteq Versions
  /\ device \in DeviceType
  /\ attempts \in 0..MaxAttempts
  /\ givenUp \in BOOLEAN
  /\ artifact \in ArtifactType
  /\ partRows \subseteq PartNumbers
  /\ partObjects \in [PartNumbers -> Pieces \cup {None}]
  /\ bundle \in Bytes \cup {None}
  /\ requests \in [Requests -> RequestType]
  /\ refused \in RefusalType \cup {None}
  /\ held \subseteq Bytes

IdleDevice == [pc |-> "idle", next |-> "idle", version |-> None,
               request |-> None, missing |-> {}]
IdleRequest == [pc |-> "idle", version |-> None, part |-> 0, buffers |-> <<>>]

Init ==
  /\ driver \in {"fs", "s3"}
  /\ zip \in Versions /\ first = zip
  /\ device = IdleDevice
  /\ attempts = 0
  /\ givenUp = FALSE
  /\ artifact = [status |-> "absent", count |-> 0, sha |-> None]
  /\ partRows = {}
  /\ partObjects = [n \in PartNumbers |-> None]
  /\ bundle = None
  /\ requests = [q \in Requests |-> IdleRequest]
  /\ refused = None
  /\ held = {}

\* The bytes of a zip, and the bytes byteRange(forPart:) cuts out of it.
\* Mistakes: the first part is sent for every part; parts count from zero.
PieceRepeated(v, n) == <<v, 1>>
PieceShifted(v, n) == <<v, n + 1>>
Piece(v, n) == <<v, n>>
Whole(v) == [n \in 1..PartsOf[v] |-> <<v, n>>]

-----------------------------------------------------------------------------
(* The device *)

Device(pc) == device.pc = pc

\* BundlePackager.package removes the zip of the capture and writes another,
\* with other bytes.
Repackage(v) ==
  /\ Device("idle")
  /\ v \notin {zip, first}
  /\ zip' = v
  /\ UNCHANGED <<driver, first, device, attempts, givenUp, artifact, storeVars,
                 requests, refused>>

\* The attempt reads the zip once and keeps its bytes.
StartUpload ==
  /\ Device("idle")
  /\ attempts < MaxAttempts
  /\ attempts' = attempts + 1
  /\ device' = [IdleDevice EXCEPT !.pc = "register", !.version = zip]
  /\ UNCHANGED <<driver, zip, first, givenUp, artifact, storeVars, requests, refused>>

\* The device sends a request, and on its answer goes on at next.
Send(q, kind, n, next, missing) ==
  /\ requests[q].pc = "idle"
  /\ requests' = [requests EXCEPT ![q] =
       [IdleRequest EXCEPT !.pc = kind, !.part = n, !.version = device.version]]
  /\ device' = [device EXCEPT !.pc = "wait", !.next = next, !.request = q,
                              !.missing = missing]
  /\ UNCHANGED <<driver, zip, first, attempts, givenUp, artifact, storeVars, refused>>

Fail == /\ device' = IdleDevice
        /\ UNCHANGED <<driver, zip, first, attempts, givenUp, artifact, storeVars,
                       requests, refused>>

RegisterUpload(q) ==
  /\ Device("register")
  /\ Send(q, "register", 0, "choose", {})

\* One part here and at the server: the content URL.
PutContent(q) ==
  /\ Device("choose")
  /\ PartsOf[device.version] = 1 /\ artifact.count = 1
  /\ Send(q, "content", 1, "complete", {})

\* resolveUploadParts: a part is there if it has a row or an object.
Received == partRows \cup { n \in PartNumbers : partObjects[n] # None }
Missing == (1..artifact.count) \ Received

\* GET the status of the upload; only what is missing is sent.
UploadStatus ==
  /\ Device("choose")
  /\ ~(PartsOf[device.version] = 1 /\ artifact.count = 1)
  /\ device' = [device EXCEPT !.pc = "parts", !.missing = Missing]
  /\ UNCHANGED <<driver, zip, first, attempts, givenUp, artifact, storeVars, requests,
                 refused>>

NextPart(n) ==
  /\ Device("parts")
  /\ n \in device.missing
  /\ \A k \in device.missing : n <= k

\* Registered as one part there is no part URL; a part beyond the end of the
\* zip has no bytes.
Sendable(n) == artifact.count > 1 /\ n <= PartsOf[device.version]

PutPart(q, n) ==
  /\ NextPart(n)
  /\ Sendable(n)
  /\ Send(q, "part", n, "parts", device.missing \ {n})

PartUnsendable(n) == NextPart(n) /\ ~Sendable(n) /\ Fail

CompleteUpload(q) ==
  /\ Device("complete") \/ (Device("parts") /\ device.missing = {})
  /\ Send(q, "complete", 0, "idle", {})

\* No answer in time, or the app is killed.
GiveUp ==
  /\ Device("wait")
  /\ device' = IdleDevice
  /\ givenUp' = TRUE
  /\ UNCHANGED <<driver, zip, first, attempts, artifact, storeVars, requests, refused>>

-----------------------------------------------------------------------------
(* The upload routes *)

At(q, pc) == requests[q].pc = pc
Goto(q, pc) == requests' = [requests EXCEPT ![q].pc = pc]

\* The request ends; the device that still waits for it goes on, or fails.
Answer(q, ok) ==
  /\ requests' = [requests EXCEPT ![q] = IdleRequest]
  /\ device' = IF device.request # q THEN device
               ELSE IF ok /\ device.next # "idle"
                 THEN [device EXCEPT !.pc = device.next, !.request = None]
                 ELSE IdleDevice
  /\ UNCHANGED <<zip, first, attempts, givenUp>>

\* createOrGetCaptureArtifact: the first registration fixes part_count.
CountOf(v) == IF artifact.status = "absent" THEN PartsOf[v] ELSE artifact.count

HandleRegister(q) ==
  /\ At(q, "register")
  /\ artifact' = [artifact EXCEPT
       !.status = IF @ = "absent" THEN "pending" ELSE @,
       !.count = CountOf(requests[q].version)]
  /\ Answer(q, TRUE)
  /\ UNCHANGED <<driver, storeVars, refused>>

\* PUT to a presigned URL: the object is replaced at once, and the API sees
\* nothing of it.
StorePresigned(q) ==
  LET n == requests[q].part IN
  /\ At(q, "part") /\ driver = "s3"
  /\ partObjects' = [partObjects EXCEPT ![n] = Piece(requests[q].version, n)]
  /\ Answer(q, TRUE)
  /\ UNCHANGED <<driver, artifact, partRows, bundle, held, refused>>

\* PUT to the part route: writeFile of the filesystem driver truncates the
\* file and fills it; then the row is written.
BeginPartFile(q) ==
  LET n == requests[q].part IN
  /\ At(q, "part") /\ driver = "fs" /\ n <= artifact.count
  /\ partObjects' = [partObjects EXCEPT ![n] = Torn]
  /\ Goto(q, "torn")
  /\ UNCHANGED <<driver, deviceVars, artifact, partRows, bundle, held, refused>>

EndPartFile(q) ==
  LET n == requests[q].part IN
  /\ At(q, "torn")
  /\ partObjects' = [partObjects EXCEPT ![n] = Piece(requests[q].version, n)]
  /\ Goto(q, "row")
  /\ UNCHANGED <<driver, deviceVars, artifact, partRows, bundle, held, refused>>

RecordUploadPart(q) ==
  /\ At(q, "row")
  /\ partRows' = partRows \cup {requests[q].part}
  /\ Answer(q, TRUE)
  /\ UNCHANGED <<driver, artifact, partObjects, bundle, held, refused>>

Store(bytes) == bundle' = bytes /\ held' = held \cup {bytes}

\* PUT to the content route, or to its presigned URL.
StoreContent(q) ==
  /\ At(q, "content")
  /\ Store(Whole(requests[q].version))
  /\ Answer(q, TRUE)
  /\ UNCHANGED <<driver, artifact, partRows, partObjects, refused>>

\* Completion: assemble only while there is no bundle object.
CheckParts(q) ==
  /\ At(q, "complete")
  /\ IF artifact.count > 1 /\ bundle = None
       THEN IF Missing # {} THEN Answer(q, FALSE)
            ELSE Goto(q, "assemble") /\ UNCHANGED deviceVars
       ELSE Goto(q, "verify") /\ UNCHANGED deviceVars
  /\ UNCHANGED <<driver, artifact, storeVars, refused>>

\* The loop over the parts: the bytes, and a row where there is none.
ReadPart(q) ==
  LET n == Len(requests[q].buffers) + 1 IN
  /\ At(q, "assemble")
  /\ n <= artifact.count
  /\ IF partObjects[n] = None
       THEN Answer(q, FALSE) /\ UNCHANGED partRows
       ELSE /\ requests' = [requests EXCEPT ![q].buffers = Append(@, partObjects[n])]
            /\ partRows' = partRows \cup {n}
            /\ UNCHANGED deviceVars
  /\ UNCHANGED <<driver, artifact, partObjects, bundle, held, refused>>

PutAssembled(q) ==
  /\ At(q, "assemble")
  /\ Len(requests[q].buffers) = artifact.count
  /\ Store(requests[q].buffers)
  /\ requests' = [requests EXCEPT ![q] = [@ EXCEPT !.pc = "verify", !.buffers = <<>>]]
  /\ UNCHANGED <<driver, deviceVars, artifact, partRows, partObjects, refused>>

\* Mistake: the size alone is compared.
SizeMatches(q) == Len(bundle) = PartsOf[requests[q].version]
DigestMatches(q) == bundle = Whole(requests[q].version)

VerifyUpload(q) ==
  /\ At(q, "verify")
  /\ IF bundle = None THEN Answer(q, FALSE) /\ UNCHANGED refused
     ELSE IF DigestMatches(q)
       THEN Goto(q, "mark") /\ UNCHANGED <<deviceVars, refused>>
       ELSE /\ Answer(q, FALSE)
            /\ refused' = [bytes |-> bundle, version |-> requests[q].version]
  /\ UNCHANGED <<driver, artifact, storeVars>>

MarkUploaded(q) ==
  /\ At(q, "mark")
  /\ artifact' = [artifact EXCEPT !.status = "uploaded", !.sha = requests[q].version]
  /\ Answer(q, TRUE)
  /\ UNCHANGED <<driver, storeVars, refused>>

\* The process dies or a call rejects: what the request has stored stays.  A
\* device that waited has given up (GiveUp) by then.
RequestDies(q) ==
  /\ ~At(q, "idle")
  /\ device.request # q
  /\ requests' = [requests EXCEPT ![q] = IdleRequest]
  /\ UNCHANGED <<driver, deviceVars, artifact, storeVars, refused>>

-----------------------------------------------------------------------------

DeviceStep ==
  \/ \E v \in Versions : Repackage(v)
  \/ StartUpload
  \/ UploadStatus
  \/ GiveUp
  \/ \E q \in Requests :
       \/ RegisterUpload(q) \/ PutContent(q) \/ CompleteUpload(q)
       \/ \E n \in PartNumbers : PutPart(q, n)
  \/ \E n \in PartNumbers : PartUnsendable(n)

ServerStep(q) ==
  \/ HandleRegister(q) \/ StorePresigned(q) \/ BeginPartFile(q) \/ EndPartFile(q)
  \/ RecordUploadPart(q) \/ StoreContent(q) \/ CheckParts(q) \/ ReadPart(q)
  \/ PutAssembled(q) \/ VerifyUpload(q) \/ MarkUploaded(q) \/ RequestDies(q)

Next == DeviceStep \/ \E q \in Requests : ServerStep(q)

Spec == Init /\ [][Next]_vars

-----------------------------------------------------------------------------
(* Properties *)

\* A capture counts as uploaded only under the digest of a zip the server has
\* held whole, although its parts may come from several attempts, from zips
\* packaged one after the other, and from files still being written.
UploadedWasHeldWhole ==
  artifact.status = "uploaded" => artifact.sha # None /\ Whole(artifact.sha) \in held

HasTorn(bytes) == \E i \in DOMAIN bytes : bytes[i] = Torn
OfAnother(bytes, v) ==
  \/ Len(bytes) # PartsOf[v]
  \/ \E i \in DOMAIN bytes : bytes[i] # Torn /\ bytes[i][1] # v

\* A zip completion answers "Checksum mismatch" about has a part that was read
\* half written, which takes the filesystem driver and a request the device
\* gave up, or is in part another zip, which takes a capture packaged again.
\* A part never ends up in another's place, and none is missed or doubled.
MismatchHasACause ==
  refused # None =>
    \/ HasTorn(refused.bytes) /\ driver = "fs" /\ givenUp
    \/ OfAnother(refused.bytes, refused.version) /\ zip # first

=============================================================================
