-------------------------- MODULE CaptureUploadProofs --------------------------
(* What holds of CaptureUpload for any zips, requests and attempts. *)
EXTENDS CaptureUpload, TLAPS

(***************************************************************************)
(* A request carries the version it was sent for; completion assembles     *)
(* only captures of several parts, and marks a version whose bytes the     *)
(* bundle object has been, however many requests store a bundle meanwhile. *)
(***************************************************************************)
Sound(r) ==
  /\ r.pc # "idle" => r.version \in Versions
  /\ r.pc \in {"part", "torn", "row"} => r.part \in PartNumbers
  /\ r.pc = "assemble" => artifact.count > 1
  /\ r.pc = "mark" => Whole(r.version) \in held

RequestInv == \A q \in Requests : Sound(requests[q])
DeviceInv ==
  device.pc # "idle" \/ device.next # "idle" => device.version \in Versions
CountInv == artifact.status = "absent" => artifact.count = 0
HeldInv == bundle # None => bundle \in held

IInv == TypeOK /\ RequestInv /\ DeviceInv /\ CountInv /\ HeldInv /\ UploadedWasHeldWhole

-----------------------------------------------------------------------------

LEMMA BytesAreSequences ==
  ASSUME NEW b \in Bytes \cup {<<>>}
  PROVE  b \in Seq(Pieces) /\ Len(b) \in 0..MaxParts
<1>1. CASE b = <<>>
  BY <1>1, UploadAssumption
<1>2. CASE b \in Bytes
  <2>1. PICK n \in PartNumbers : b \in [1..n -> Pieces]
    BY <1>2 DEF Bytes
  <2>2. n \in Nat /\ n \in 0..MaxParts
    BY UploadAssumption DEF PartNumbers
  <2> QED BY <2>1, <2>2
<1> QED BY <1>1, <1>2

LEMMA SequencesAreBytes ==
  ASSUME NEW b \in Seq(Pieces), Len(b) \in PartNumbers
  PROVE  b \in Bytes
<1>1. b \in [1..Len(b) -> Pieces]
  OBVIOUS
<1> QED BY <1>1 DEF Bytes

LEMMA WholeIsBytes ==
  ASSUME NEW v \in Versions
  PROVE  Whole(v) \in Bytes
<1>1. PICK c \in PartNumbers : c = PartsOf[v]
  BY UploadAssumption
<1>2. \A n \in 1..c : <<v, n>> \in Pieces
  BY UploadAssumption DEF Pieces, PartNumbers
<1>3. [n \in 1..c |-> <<v, n>>] \in [1..c -> Pieces]
  BY <1>2
<1> QED BY <1>1, <1>3 DEF Whole, Bytes

LEMMA InitIInv == Init => IInv
<1> SUFFICES ASSUME Init PROVE IInv
  OBVIOUS
<1> USE DEF Init
<1>1. TypeOK
  <2>1. IdleDevice \in DeviceType /\ IdleRequest \in RequestType
    BY UploadAssumption DEF IdleDevice, DeviceType, IdleRequest, RequestType
  <2>2. artifact \in ArtifactType
    BY UploadAssumption DEF ArtifactType
  <2>3. requests \in [Requests -> RequestType] /\ attempts \in 0..MaxAttempts
        /\ partObjects \in [PartNumbers -> Pieces \cup {None}]
    BY <2>1, UploadAssumption
  <2> QED BY <2>1, <2>2, <2>3 DEF TypeOK
<1>2. RequestInv /\ DeviceInv
  BY DEF RequestInv, DeviceInv, Sound, IdleRequest, IdleDevice
<1> QED BY <1>1, <1>2 DEF IInv, CountInv, HeldInv, UploadedWasHeldWhole

-----------------------------------------------------------------------------

\* One request goes on; no count above one falls and nothing held is forgotten.
LEMMA RequestMoves ==
  ASSUME NEW q \in Requests, NEW n \in RequestType, TypeOK, RequestInv,
         requests' = [requests EXCEPT ![q] = n], Sound(n)',
         artifact.count > 1 => artifact'.count > 1, held \subseteq held'
  PROVE  requests' \in [Requests -> RequestType] /\ RequestInv'
<1>1. \A r \in Requests : requests'[r] = IF r = q THEN n ELSE requests[r]
  BY DEF TypeOK
<1>2. RequestInv'
  BY <1>1 DEF RequestInv, Sound
<1> QED BY <1>2 DEF TypeOK

\* A request ends; the device that waits for it goes on or fails.
LEMMA AnswerStep ==
  ASSUME NEW q \in Requests, NEW ok \in BOOLEAN, TypeOK, RequestInv, DeviceInv, Answer(q, ok),
         artifact.count > 1 => artifact'.count > 1, held \subseteq held'
  PROVE  /\ requests' \in [Requests -> RequestType] /\ RequestInv'
         /\ device' \in DeviceType /\ DeviceInv'
         /\ UNCHANGED <<zip, first, attempts, givenUp>>
<1>1. IdleRequest \in RequestType /\ IdleRequest.pc = "idle"
  BY UploadAssumption DEF IdleRequest, RequestType
<1>2. Sound(IdleRequest)'
  BY <1>1 DEF Sound
<1>3. requests' \in [Requests -> RequestType] /\ RequestInv'
  BY <1>1, <1>2, RequestMoves DEF Answer
<1>4. device \in DeviceType
  BY DEF TypeOK
<1>5. CASE device' = device
  BY <1>3, <1>4, <1>5 DEF Answer, DeviceInv
<1>6. CASE device' = IdleDevice
  <2>1. IdleDevice \in DeviceType /\ IdleDevice.pc = "idle" /\ IdleDevice.next = "idle"
    BY DEF IdleDevice, DeviceType
  <2>2. DeviceInv'
    BY <1>6, <2>1 DEF DeviceInv
  <2> QED BY <1>3, <1>6, <2>1, <2>2 DEF Answer
<1>7. CASE /\ device.next # "idle"
           /\ device' = [device EXCEPT !.pc = device.next, !.request = None]
  BY <1>3, <1>4, <1>7 DEF Answer, DeviceInv, DeviceType
<1> QED BY <1>5, <1>6, <1>7 DEF Answer

\* The device sends a request of the version it holds.
LEMMA SendStep ==
  ASSUME NEW q \in Requests, NEW kind \in {"register", "part", "content", "complete"},
         NEW n \in 0..MaxParts, NEW next \in {"idle", "choose", "parts", "complete"},
         NEW missing \in SUBSET PartNumbers, IInv, device.pc # "idle",
         kind = "part" => n \in PartNumbers,
         Send(q, kind, n, next, missing)
  PROVE  IInv'
<1>1. device \in DeviceType /\ device.version \in Versions
  BY DEF IInv, TypeOK, DeviceInv
<1>2. PICK r \in RequestType : r = [IdleRequest EXCEPT !.pc = kind, !.part = n,
                                                    !.version = device.version]
  BY <1>1 DEF IdleRequest, RequestType
<1>3. PICK e \in DeviceType : e = [device EXCEPT !.pc = "wait", !.next = next,
                                                !.request = q, !.missing = missing]
  BY <1>1 DEF DeviceType
<1>4. requests' = [requests EXCEPT ![q] = r] /\ device' = e
      /\ UNCHANGED <<driver, zip, first, attempts, givenUp, artifact, storeVars, refused>>
  BY <1>2, <1>3 DEF Send
<1>5. r.pc = kind /\ r.part = n /\ r.version \in Versions
  BY <1>1, <1>2 DEF IdleRequest
<1>6. Sound(r)'
  BY <1>4, <1>5 DEF Sound
<1>7. requests' \in [Requests -> RequestType] /\ RequestInv'
  BY <1>4, <1>6, RequestMoves DEF IInv, storeVars
<1>8. e.version \in Versions
  BY <1>1, <1>3 DEF DeviceType
<1>9. TypeOK'
  BY <1>4, <1>7 DEF IInv, TypeOK, storeVars
<1>10. DeviceInv' /\ CountInv' /\ HeldInv' /\ UploadedWasHeldWhole'
  BY <1>4, <1>8 DEF IInv, DeviceInv, CountInv, HeldInv, UploadedWasHeldWhole, Whole,
                    storeVars
<1> QED BY <1>7, <1>9, <1>10 DEF IInv

\* Neither the server nor its storage takes part in the other steps of the device.
LEMMA AloneStep ==
  ASSUME IInv, zip' \in Versions, device' \in DeviceType, DeviceInv',
         attempts' \in 0..MaxAttempts, givenUp' \in BOOLEAN,
         UNCHANGED <<driver, first, artifact, storeVars, requests, refused>>
  PROVE  IInv'
<1>1. TypeOK'
  BY DEF IInv, TypeOK, storeVars
<1>2. RequestInv' /\ CountInv' /\ HeldInv' /\ UploadedWasHeldWhole'
  BY DEF IInv, RequestInv, Sound, CountInv, HeldInv, UploadedWasHeldWhole, Whole, storeVars
<1> QED BY <1>1, <1>2 DEF IInv

LEMMA DeviceStepIInv ==
  ASSUME IInv, DeviceStep
  PROVE  IInv'
<1> USE UploadAssumption
<1>1. IdleDevice \in DeviceType /\ IdleDevice.pc = "idle" /\ IdleDevice.next = "idle"
  BY DEF IdleDevice, DeviceType
<1>2. device \in DeviceType /\ zip \in Versions /\ attempts \in 0..MaxAttempts
      /\ givenUp \in BOOLEAN
  BY DEF IInv, TypeOK
<1>3. artifact.count \in 0..MaxParts /\ Missing \in SUBSET PartNumbers
  <2>1. artifact.count \in 0..MaxParts
    BY DEF IInv, TypeOK, ArtifactType
  <2> QED BY <2>1 DEF Missing, PartNumbers
<1>4. ASSUME NEW v \in Versions, Repackage(v) PROVE IInv'
  BY <1>2, <1>4, AloneStep DEF Repackage, IInv, DeviceInv
<1>5. CASE StartUpload
  <2>1. PICK e \in DeviceType : e = [IdleDevice EXCEPT !.pc = "register", !.version = zip]
    BY <1>2 DEF IdleDevice, DeviceType
  <2>2. device' = e /\ e.version \in Versions /\ attempts' \in 0..MaxAttempts
    BY <1>2, <1>5, <2>1 DEF StartUpload, IdleDevice
  <2>3. DeviceInv'
    BY <2>2 DEF DeviceInv
  <2> QED BY <1>2, <1>5, <2>2, <2>3, AloneStep DEF StartUpload
<1>6. CASE UploadStatus
  <2>1. PICK e \in DeviceType : e = [device EXCEPT !.pc = "parts", !.missing = Missing]
    BY <1>2, <1>3 DEF DeviceType
  <2>2. device' = e /\ e.version = device.version /\ device.pc = "choose"
    BY <1>2, <1>6, <2>1 DEF UploadStatus, Device, DeviceType
  <2>3. DeviceInv'
    BY <2>2 DEF IInv, DeviceInv
  <2> QED BY <1>2, <1>6, <2>2, <2>3, AloneStep DEF UploadStatus
<1>7. CASE GiveUp
  <2>1. DeviceInv'
    BY <1>1, <1>7 DEF GiveUp, DeviceInv
  <2> QED BY <1>1, <1>2, <1>7, <2>1, AloneStep DEF GiveUp
<1>8. ASSUME NEW n \in PartNumbers, PartUnsendable(n) PROVE IInv'
  <2>1. DeviceInv'
    BY <1>1, <1>8 DEF PartUnsendable, Fail, DeviceInv
  <2> QED BY <1>1, <1>2, <1>8, <2>1, AloneStep DEF PartUnsendable, Fail
<1>9. ASSUME NEW q \in Requests, RegisterUpload(q) PROVE IInv'
  BY <1>9, SendStep DEF RegisterUpload, Device
<1>10. ASSUME NEW q \in Requests, PutContent(q) PROVE IInv'
  BY <1>10, SendStep DEF PutContent, Device
<1>11. ASSUME NEW q \in Requests, CompleteUpload(q) PROVE IInv'
  BY <1>11, SendStep DEF CompleteUpload, Device
<1>12. ASSUME NEW q \in Requests, NEW n \in PartNumbers, PutPart(q, n) PROVE IInv'
  <2>1. device.pc # "idle" /\ Send(q, "part", n, "parts", device.missing \ {n})
    BY <1>12 DEF PutPart, NextPart, Device
  <2>2. device.missing \ {n} \in SUBSET PartNumbers /\ n \in 0..MaxParts
    BY <1>2 DEF DeviceType, PartNumbers
  <2> QED BY <2>1, <2>2, SendStep
<1> QED BY <1>4, <1>5, <1>6, <1>7, <1>8, <1>9, <1>10, <1>11, <1>12 DEF DeviceStep

-----------------------------------------------------------------------------

\* What the database and the storage hold after a step, and what requests do.
LEMMA ServerKeeps ==
  ASSUME IInv, requests' \in [Requests -> RequestType], RequestInv',
         device' \in DeviceType, DeviceInv', UNCHANGED <<driver, zip, first, attempts, givenUp>>,
         artifact' \in ArtifactType, CountInv', UploadedWasHeldWhole',
         partRows' \subseteq PartNumbers, partObjects' \in [PartNumbers -> Pieces \cup {None}],
         \/ UNCHANGED <<bundle, held>>
         \/ \E bytes \in Bytes : Store(bytes),
         refused' \in RefusalType \cup {None}
  PROVE  IInv'
<1>1. bundle' \in Bytes \cup {None} /\ held' \subseteq Bytes /\ HeldInv'
  BY DEF Store, IInv, TypeOK, HeldInv
<1>2. TypeOK'
  BY <1>1 DEF IInv, TypeOK
<1> QED BY <1>1, <1>2 DEF IInv

\* The steps that leave the row of the capture alone.
LEMMA RowKept ==
  ASSUME IInv, UNCHANGED artifact, held \subseteq held'
  PROVE  artifact' \in ArtifactType /\ CountInv' /\ UploadedWasHeldWhole'
BY DEF IInv, TypeOK, CountInv, UploadedWasHeldWhole, Whole

LEMMA PieceType ==
  ASSUME NEW v \in Versions, NEW n \in PartNumbers
  PROVE  Piece(v, n) \in Pieces
BY DEF Piece, Pieces

LEMMA RegisterStep ==
  ASSUME NEW q \in Requests, IInv, HandleRegister(q)
  PROVE  IInv'
<1>1. artifact \in ArtifactType /\ requests[q].version \in Versions
  BY DEF IInv, TypeOK, RequestInv, Sound, HandleRegister, At
<1>2. PICK c \in 0..MaxParts :
        /\ c = CountOf(requests[q].version)
        /\ artifact.count > 1 => c > 1
  <2>1. PartsOf[requests[q].version] \in 0..MaxParts
    BY <1>1, UploadAssumption DEF PartNumbers
  <2>2. artifact.count \in 0..MaxParts /\ (artifact.status = "absent" => artifact.count = 0)
    BY <1>1 DEF ArtifactType, IInv, CountInv
  <2> QED BY <2>1, <2>2 DEF CountOf
<1>3. /\ artifact' \in ArtifactType /\ artifact'.count = c
      /\ artifact'.status = IF artifact.status = "absent" THEN "pending" ELSE artifact.status
      /\ artifact'.sha = artifact.sha
  <2>1. artifact' = [artifact EXCEPT
          !.status = IF artifact.status = "absent" THEN "pending" ELSE artifact.status,
          !.count = c]
    BY <1>2 DEF HandleRegister
  <2> QED BY <1>1, <2>1 DEF ArtifactType
<1>4. CountInv'
  BY <1>3 DEF CountInv
<1>5. UNCHANGED <<driver, storeVars, refused>>
  BY DEF HandleRegister
<1>6. UploadedWasHeldWhole'
  BY <1>3, <1>5 DEF IInv, UploadedWasHeldWhole, Whole, storeVars
<1>7. /\ requests' \in [Requests -> RequestType] /\ RequestInv'
      /\ device' \in DeviceType /\ DeviceInv' /\ UNCHANGED <<zip, first, attempts, givenUp>>
  <2>1. Answer(q, TRUE) /\ held' = held
    BY DEF HandleRegister, storeVars
  <2>2. artifact.count > 1 => artifact'.count > 1
    BY <1>2, <1>3
  <2> QED BY <2>1, <2>2, AnswerStep DEF IInv
<1> QED BY <1>3, <1>4, <1>5, <1>6, <1>7, ServerKeeps DEF IInv, TypeOK, storeVars

\* The requests that end with a write to storage or to the table of parts.
LEMMA StoreStep ==
  ASSUME NEW q \in Requests, IInv,
         StorePresigned(q) \/ RecordUploadPart(q) \/ StoreContent(q)
  PROVE  IInv'
<1>1. /\ requests[q].version \in Versions /\ UNCHANGED <<driver, artifact, refused>>
      /\ Answer(q, TRUE)
  BY DEF IInv, RequestInv, Sound, StorePresigned, RecordUploadPart, StoreContent, At
<1>2. held \subseteq held'
  BY DEF StorePresigned, RecordUploadPart, StoreContent, Store
<1>3. /\ requests' \in [Requests -> RequestType] /\ RequestInv'
      /\ device' \in DeviceType /\ DeviceInv' /\ UNCHANGED <<zip, first, attempts, givenUp>>
  BY <1>1, <1>2, AnswerStep DEF IInv
<1>4. partRows' \subseteq PartNumbers
  <2>1. CASE UNCHANGED partRows
    BY <2>1 DEF IInv, TypeOK
  <2>2. CASE RecordUploadPart(q)
    <3>1. requests[q].part \in PartNumbers
      BY <2>2 DEF IInv, RequestInv, Sound, RecordUploadPart, At
    <3> QED BY <2>2, <3>1 DEF RecordUploadPart, IInv, TypeOK
  <2> QED BY <2>1, <2>2 DEF StorePresigned, StoreContent
<1>5. partObjects' \in [PartNumbers -> Pieces \cup {None}]
  <2>1. CASE UNCHANGED partObjects
    BY <2>1 DEF IInv, TypeOK
  <2>2. CASE StorePresigned(q)
    <3>1. requests[q].part \in PartNumbers
      BY <2>2 DEF IInv, RequestInv, Sound, StorePresigned, At
    <3>2. Piece(requests[q].version, requests[q].part) \in Pieces
      BY <1>1, <3>1, PieceType
    <3> QED BY <2>2, <3>2 DEF StorePresigned, IInv, TypeOK
  <2> QED BY <2>1, <2>2 DEF RecordUploadPart, StoreContent
<1>6. UNCHANGED <<bundle, held>> \/ \E bytes \in Bytes : Store(bytes)
  BY <1>1, WholeIsBytes DEF StorePresigned, RecordUploadPart, StoreContent
<1> QED BY <1>1, <1>2, <1>3, <1>4, <1>5, <1>6, RowKept, ServerKeeps DEF IInv, TypeOK

\* writeFile: the file is torn between its beginning and its end.
LEMMA FileStep ==
  ASSUME NEW q \in Requests, IInv, BeginPartFile(q) \/ EndPartFile(q)
  PROVE  IInv'
<1>1. /\ requests[q].version \in Versions /\ requests[q].part \in PartNumbers
      /\ requests[q] \in RequestType
      /\ UNCHANGED <<driver, deviceVars, artifact, partRows, bundle, held, refused>>
  BY DEF IInv, TypeOK, RequestInv, Sound, BeginPartFile, EndPartFile, At
<1>2. PICK pc \in {"torn", "row"} : Goto(q, pc)
  BY DEF BeginPartFile, EndPartFile
<1>3. PICK n \in RequestType : n = [requests[q] EXCEPT !.pc = pc]
  BY <1>1, <1>2 DEF RequestType
<1>4. n.pc = pc /\ n.version \in Versions /\ n.part \in PartNumbers
      /\ requests' = [requests EXCEPT ![q] = n]
  BY <1>1, <1>2, <1>3 DEF RequestType, Goto
<1>5. Sound(n)'
  BY <1>2, <1>4 DEF Sound
<1>6. requests' \in [Requests -> RequestType] /\ RequestInv'
  BY <1>1, <1>4, <1>5, RequestMoves DEF IInv
<1>7. Torn \in Pieces /\ Piece(requests[q].version, requests[q].part) \in Pieces
  BY <1>1, PieceType DEF Pieces
<1>8. partObjects' \in [PartNumbers -> Pieces \cup {None}]
  BY <1>7 DEF BeginPartFile, EndPartFile, IInv, TypeOK
<1>9. device' \in DeviceType /\ DeviceInv'
  BY <1>1 DEF IInv, TypeOK, DeviceInv, deviceVars
<1> QED BY <1>1, <1>6, <1>8, <1>9, RowKept, ServerKeeps DEF IInv, TypeOK, deviceVars

\* The steps of completion that leave everything but parts to the bundle.
LEMMA CheckStep ==
  ASSUME NEW q \in Requests, IInv, CheckParts(q) \/ VerifyUpload(q)
  PROVE  IInv'
<1>1. /\ requests[q].version \in Versions /\ requests[q] \in RequestType
      /\ UNCHANGED <<driver, artifact, storeVars>>
      /\ refused' \in RefusalType \cup {None}
  <2>1. /\ requests[q].version \in Versions /\ requests[q] \in RequestType
        /\ UNCHANGED <<driver, artifact, storeVars>>
    BY DEF IInv, TypeOK, RequestInv, Sound, CheckParts, VerifyUpload, At
  <2>2. refused \in RefusalType \cup {None} /\ bundle \in Bytes \cup {None}
    BY DEF IInv, TypeOK
  <2>3. \A v \in Versions : bundle # None => [bytes |-> bundle, version |-> v] \in RefusalType
    BY <2>2 DEF RefusalType
  <2> QED BY <2>1, <2>2, <2>3 DEF CheckParts, VerifyUpload
<1>2. CASE Answer(q, FALSE)
  <2>1. /\ requests' \in [Requests -> RequestType] /\ RequestInv'
        /\ device' \in DeviceType /\ DeviceInv'
        /\ UNCHANGED <<zip, first, attempts, givenUp>>
    BY <1>1, <1>2, AnswerStep DEF IInv, storeVars
  <2> QED BY <1>1, <2>1, RowKept, ServerKeeps DEF IInv, TypeOK, storeVars
<1>3. ASSUME NEW pc \in {"assemble", "verify", "mark"}, Goto(q, pc), UNCHANGED deviceVars,
             pc = "assemble" => artifact.count > 1,
             pc = "mark" => Whole(requests[q].version) \in held
      PROVE  IInv'
  <2>1. PICK n \in RequestType : n = [requests[q] EXCEPT !.pc = pc]
    BY <1>1 DEF RequestType
  <2>2. n.pc = pc /\ n.version = requests[q].version /\ requests' = [requests EXCEPT ![q] = n]
    BY <1>1, <1>3, <2>1 DEF RequestType, Goto
  <2>3. Sound(n)'
    BY <1>1, <1>3, <2>2 DEF Sound, storeVars, Whole
  <2>4. requests' \in [Requests -> RequestType] /\ RequestInv'
    BY <1>1, <2>2, <2>3, RequestMoves DEF IInv, storeVars
  <2>5. device' \in DeviceType /\ DeviceInv'
    BY <1>3 DEF IInv, TypeOK, DeviceInv, deviceVars
  <2> QED BY <1>1, <1>3, <2>4, <2>5, RowKept, ServerKeeps
          DEF IInv, TypeOK, deviceVars, storeVars
<1>4. CASE CheckParts(q)
  BY <1>2, <1>3, <1>4 DEF CheckParts
<1>5. CASE VerifyUpload(q)
  <2>1. bundle # None /\ DigestMatches(q) => Whole(requests[q].version) \in held
    BY DEF IInv, HeldInv, DigestMatches
  <2> QED BY <1>2, <1>3, <1>5, <2>1 DEF VerifyUpload
<1> QED BY <1>4, <1>5

\* Assembly: one part after the other, and never more than were registered.
LEMMA ReadStep ==
  ASSUME NEW q \in Requests, IInv, ReadPart(q)
  PROVE  IInv'
<1>1. /\ requests[q].version \in Versions /\ requests[q] \in RequestType
      /\ requests[q].pc = "assemble" /\ artifact.count > 1 /\ artifact.count \in 0..MaxParts
      /\ UNCHANGED <<driver, artifact, partObjects, bundle, held, refused>>
  BY DEF IInv, TypeOK, ArtifactType, RequestInv, Sound, ReadPart, At
<1>2. requests[q].buffers \in Bytes \cup {<<>>}
  BY <1>1 DEF RequestType
<1>3. requests[q].buffers \in Seq(Pieces) /\ Len(requests[q].buffers) \in 0..MaxParts
  BY <1>2, BytesAreSequences
<1>4. PICK i \in PartNumbers : i = Len(requests[q].buffers) + 1
  BY <1>1, <1>3, UploadAssumption DEF ReadPart, PartNumbers
<1>5. partRows' \subseteq PartNumbers
  BY <1>4 DEF ReadPart, IInv, TypeOK
<1>6. CASE partObjects[i] = None
  <2>1. Answer(q, FALSE)
    BY <1>4, <1>6 DEF ReadPart
  <2>2. /\ requests' \in [Requests -> RequestType] /\ RequestInv'
        /\ device' \in DeviceType /\ DeviceInv'
        /\ UNCHANGED <<zip, first, attempts, givenUp>>
    BY <1>1, <2>1, AnswerStep DEF IInv
  <2> QED BY <1>1, <1>5, <2>2, RowKept, ServerKeeps DEF IInv, TypeOK
<1>7. CASE partObjects[i] # None
  <2>1. PICK b : b = Append(requests[q].buffers, partObjects[i])
    OBVIOUS
  <2>2. partObjects[i] \in Pieces
    BY <1>7 DEF IInv, TypeOK
  <2>3. b \in Seq(Pieces) /\ Len(b) = i
    BY <1>3, <1>4, <2>1, <2>2
  <2>4. b \in Bytes
    BY <2>3, SequencesAreBytes
  <2>5. PICK n \in RequestType : n = [requests[q] EXCEPT !.buffers = b]
    BY <1>1, <2>4 DEF RequestType
  <2>6. requests' = [requests EXCEPT ![q] = n] /\ UNCHANGED deviceVars
    BY <1>4, <1>7, <2>1, <2>5 DEF ReadPart
  <2>7. n.pc = "assemble" /\ n.version \in Versions
    BY <1>1, <2>5 DEF RequestType
  <2>8. Sound(n)'
    BY <1>1, <2>7 DEF Sound
  <2>9. requests' \in [Requests -> RequestType] /\ RequestInv'
    BY <1>1, <2>6, <2>8, RequestMoves DEF IInv
  <2>10. device' \in DeviceType /\ DeviceInv'
    BY <2>6 DEF IInv, TypeOK, DeviceInv, deviceVars
  <2> QED BY <1>1, <1>5, <2>6, <2>9, <2>10, RowKept, ServerKeeps DEF IInv, TypeOK, deviceVars
<1> QED BY <1>6, <1>7

LEMMA PutStep ==
  ASSUME NEW q \in Requests, IInv, PutAssembled(q)
  PROVE  IInv'
<1>1. /\ requests[q].version \in Versions /\ requests[q] \in RequestType
      /\ artifact.count > 1 /\ artifact.count \in 0..MaxParts
      /\ Len(requests[q].buffers) = artifact.count
      /\ UNCHANGED <<driver, deviceVars, artifact, partRows, partObjects, refused>>
  BY DEF IInv, TypeOK, ArtifactType, RequestInv, Sound, PutAssembled, At
<1>2. requests[q].buffers \in Bytes \cup {<<>>}
  BY <1>1 DEF RequestType
<1>3. requests[q].buffers \in Bytes
  BY <1>1, <1>2
<1>4. Store(requests[q].buffers) /\ held \subseteq held'
  BY DEF PutAssembled, Store
<1>5. PICK n \in RequestType : n = [requests[q] EXCEPT !.pc = "verify", !.buffers = <<>>]
  BY <1>1 DEF RequestType
<1>6. n.pc = "verify" /\ n.version \in Versions /\ requests' = [requests EXCEPT ![q] = n]
  BY <1>1, <1>5 DEF RequestType, PutAssembled
<1>7. Sound(n)'
  BY <1>6 DEF Sound
<1>8. requests' \in [Requests -> RequestType] /\ RequestInv'
  BY <1>1, <1>4, <1>6, <1>7, RequestMoves DEF IInv
<1>9. device' \in DeviceType /\ DeviceInv'
  BY <1>1 DEF IInv, TypeOK, DeviceInv, deviceVars
<1> QED BY <1>1, <1>3, <1>4, <1>8, <1>9, RowKept, ServerKeeps DEF IInv, TypeOK, deviceVars

\* The digest was compared while the bundle was held whole; whatever has been
\* stored since, the mark is of that version.
LEMMA MarkStep ==
  ASSUME NEW q \in Requests, IInv, MarkUploaded(q)
  PROVE  IInv'
<1>1. /\ requests[q].version \in Versions /\ Whole(requests[q].version) \in held
      /\ artifact \in ArtifactType /\ UNCHANGED <<driver, storeVars, refused>>
  BY DEF IInv, TypeOK, RequestInv, Sound, MarkUploaded, At
<1>2. /\ artifact' \in ArtifactType /\ artifact'.count = artifact.count
      /\ artifact'.status = "uploaded" /\ artifact'.sha = requests[q].version
  BY <1>1 DEF MarkUploaded, ArtifactType
<1>3. CountInv' /\ UploadedWasHeldWhole'
  BY <1>1, <1>2, UploadAssumption DEF CountInv, UploadedWasHeldWhole, Whole, storeVars
<1>4. /\ requests' \in [Requests -> RequestType] /\ RequestInv'
      /\ device' \in DeviceType /\ DeviceInv' /\ UNCHANGED <<zip, first, attempts, givenUp>>
  BY <1>1, <1>2, AnswerStep DEF IInv, MarkUploaded, storeVars
<1> QED BY <1>1, <1>2, <1>3, <1>4, ServerKeeps DEF IInv, TypeOK, storeVars

LEMMA DiesStep ==
  ASSUME NEW q \in Requests, IInv, RequestDies(q)
  PROVE  IInv'
<1>1. IdleRequest \in RequestType /\ IdleRequest.pc = "idle"
  BY UploadAssumption DEF IdleRequest, RequestType
<1>2. UNCHANGED <<driver, deviceVars, artifact, storeVars, refused>>
  BY DEF RequestDies
<1>3. Sound(IdleRequest)'
  BY <1>1 DEF Sound
<1>4. requests' \in [Requests -> RequestType] /\ RequestInv'
  BY <1>1, <1>2, <1>3, RequestMoves DEF IInv, RequestDies, storeVars
<1>5. device' \in DeviceType /\ DeviceInv'
  BY <1>2 DEF IInv, TypeOK, DeviceInv, deviceVars
<1> QED BY <1>2, <1>4, <1>5, RowKept, ServerKeeps DEF IInv, TypeOK, deviceVars, storeVars

LEMMA NextIInv ==
  ASSUME IInv, [Next]_vars
  PROVE  IInv'
<1>1. ASSUME NEW q \in Requests, ServerStep(q) PROVE IInv'
  BY <1>1, RegisterStep, StoreStep, FileStep, CheckStep, ReadStep, PutStep, MarkStep, DiesStep
     DEF ServerStep
<1>2. CASE UNCHANGED vars
  BY <1>2 DEF vars, IInv, TypeOK, RequestInv, Sound, DeviceInv, CountInv, HeldInv,
              UploadedWasHeldWhole, Whole, Missing
<1> QED BY <1>1, <1>2, DeviceStepIInv DEF Next

\* The inductive invariant of the specification.
THEOREM Invariance == Spec => []IInv
<1>1. IInv /\ [Next]_vars => IInv'
  BY NextIInv
<1> QED BY InitIInv, <1>1, PTL DEF Spec

\* Every variable keeps its type, for any zips, numbers of parts, requests and
\* attempts.
THEOREM TypeCorrect == Spec => []TypeOK
<1>1. IInv => TypeOK
  BY DEF IInv
<1> QED BY <1>1, Invariance, PTL

\* The digest a capture is marked uploaded with is that of a bundle the storage
\* has held whole (completion of an upload).
THEOREM UploadsWereWhole == Spec => []UploadedWasHeldWhole
<1>1. IInv => UploadedWasHeldWhole
  BY DEF IInv
<1> QED BY <1>1, Invariance, PTL

-----------------------------------------------------------------------------
(***************************************************************************)
(* What a part may be: of the zip that was packaged first, of another one  *)
(* if the capture was packaged again, or torn if a request the device gave *)
(* up may have been writing the file.  Both excuses last once they hold.   *)
(***************************************************************************)
OfCapture(v) == v = first \/ zip # first

Explained(p, n) ==
  \/ p = Torn /\ driver = "fs" /\ givenUp
  \/ \E v \in Versions : p = <<v, n>> /\ OfCapture(v)

AllExplained(b) == \A i \in 1..Len(b) : Explained(b[i], i)

Active(q) == requests[q].pc # "idle"

VersionInv ==
  /\ device.pc # "idle" \/ device.next # "idle" => OfCapture(device.version)
  /\ \A q \in Requests : Active(q) => OfCapture(requests[q].version)
  /\ artifact.count # 0 => artifact.count = PartsOf[first] \/ zip # first

\* The filesystem driver serves the device one request at a time until the
\* device gives one up.
OneRequest ==
  /\ driver = "fs" /\ ~givenUp =>
       \A q \in Requests : Active(q) => device.pc = "wait" /\ device.request = q
  /\ \A q \in Requests : At(q, "torn") => driver = "fs"

\* A file that is torn without excuse is the one a request is writing.
PieceInv ==
  /\ \A n \in PartNumbers :
       \/ partObjects[n] = None \/ Explained(partObjects[n], n)
       \/ /\ partObjects[n] = Torn
          /\ \E q \in Requests : At(q, "torn") /\ requests[q].part = n
  /\ \A q \in Requests : AllExplained(requests[q].buffers)
  /\ bundle # None => /\ AllExplained(bundle)
                      /\ Len(bundle) = PartsOf[first] \/ zip # first

CauseInv == VersionInv /\ OneRequest /\ PieceInv /\ MismatchHasACause

LEMMA WholeParts ==
  ASSUME NEW v \in Versions
  PROVE  /\ Len(Whole(v)) = PartsOf[v]
         /\ \A i \in 1..Len(Whole(v)) : Whole(v)[i] = <<v, i>>
<1>1. PICK c \in Nat : c = PartsOf[v]
  BY UploadAssumption DEF PartNumbers
<1>2. Whole(v) = [n \in 1..c |-> <<v, n>>]
  BY <1>1 DEF Whole
<1>3. Len(Whole(v)) = c
  BY <1>2
<1> QED BY <1>1, <1>2, <1>3

\* Bytes whose parts are explained, but which are not the zip they should be,
\* have a part that is torn, or are in part another zip.
LEMMA RefusalIsExplained ==
  ASSUME NEW v \in Versions, NEW b \in Bytes, b # Whole(v), OfCapture(v),
         first \in Versions, AllExplained(b), Len(b) = PartsOf[first] \/ zip # first
  PROVE  \/ HasTorn(b) /\ driver = "fs" /\ givenUp
         \/ OfAnother(b, v) /\ zip # first
<1>1. b \in Seq(Pieces) /\ DOMAIN b = 1..Len(b)
  BY BytesAreSequences
<1>2. \A w \in Versions, n \in PartNumbers : <<w, n>> # Torn
  BY UploadAssumption DEF Torn
<1>3. Len(b) \in 0..MaxParts
  BY BytesAreSequences
<1>4. \A i \in 1..Len(b) : i \in PartNumbers
  BY <1>3, UploadAssumption DEF PartNumbers
<1>5. CASE HasTorn(b)
  <2>1. PICK i \in 1..Len(b) : b[i] = Torn
    BY <1>1, <1>5 DEF HasTorn
  <2>2. driver = "fs" /\ givenUp
    BY <1>2, <1>4, <2>1 DEF AllExplained, Explained
  <2> QED BY <1>5, <2>2
<1>6. CASE ~HasTorn(b)
  <2>1. \A i \in 1..Len(b) : \E w \in Versions : b[i] = <<w, i>> /\ OfCapture(w)
    BY <1>1, <1>6 DEF HasTorn, AllExplained, Explained
  <2>2. OfAnother(b, v)
    <3> SUFFICES ASSUME ~OfAnother(b, v) PROVE FALSE
      OBVIOUS
    <3>1. Len(b) = PartsOf[v] /\ \A i \in 1..Len(b) : b[i][1] = v
      BY <1>1, <1>6 DEF OfAnother, HasTorn
    <3>2. \A i \in 1..Len(b) : b[i] = <<v, i>>
      BY <2>1, <3>1
    <3>3. b = [i \in 1..Len(b) |-> b[i]]
      BY <1>1
    <3> QED BY <3>1, <3>2, <3>3 DEF Whole
  <2>3. zip # first
    <3> SUFFICES ASSUME zip = first PROVE FALSE
      OBVIOUS
    <3>1. v = first /\ Len(b) = PartsOf[v]
      BY DEF OfCapture
    <3>2. \A i \in 1..Len(b) : b[i][1] = v
      BY <2>1, <3>1 DEF OfCapture
    <3> QED BY <1>1, <2>2, <3>1, <3>2 DEF OfAnother
  <2> QED BY <2>2, <2>3
<1> QED BY <1>5, <1>6

\* The excuses last: what has been explained stays so.
Lasts == /\ UNCHANGED <<driver, first>>
         /\ zip # first => zip' # first
         /\ givenUp => givenUp'

LEMMA ExcusesLast == ASSUME IInv, Next PROVE Lasts
<1>1. CASE DeviceStep
  BY <1>1 DEF Lasts, DeviceStep, Repackage, StartUpload, UploadStatus, GiveUp, RegisterUpload,
     PutContent, CompleteUpload, PutPart, PartUnsendable, Send, Fail, IInv, TypeOK
<1>2. ASSUME NEW q \in Requests, ServerStep(q)
      PROVE  UNCHANGED <<first, zip, driver, givenUp>>
  BY <1>2 DEF ServerStep, HandleRegister, StorePresigned, BeginPartFile, EndPartFile,
     RecordUploadPart, StoreContent, CheckParts, ReadPart, PutAssembled, VerifyUpload,
     MarkUploaded, RequestDies, Answer, deviceVars
<1> QED BY <1>1, <1>2 DEF Next, Lasts

LEMMA RefusalStays ==
  ASSUME Lasts, MismatchHasACause, UNCHANGED refused
  PROVE  MismatchHasACause'
BY DEF Lasts, MismatchHasACause, HasTorn, OfAnother

LEMMA BundleStays ==
  ASSUME Lasts, PieceInv, UNCHANGED bundle
  PROVE  bundle' # None => /\ AllExplained(bundle)'
                           /\ Len(bundle') = PartsOf[first'] \/ zip' # first'
BY DEF Lasts, PieceInv, AllExplained, Explained, OfCapture

LEMMA PartsStay ==
  ASSUME Lasts, PieceInv, UNCHANGED partObjects,
         \A r \in Requests : At(r, "torn") => At(r, "torn")' /\ requests'[r].part = requests[r].part
  PROVE  \A n \in PartNumbers :
           \/ partObjects'[n] = None \/ Explained(partObjects[n], n)'
           \/ /\ partObjects'[n] = Torn
              /\ \E q \in Requests : At(q, "torn")' /\ requests'[q].part = n
<1> SUFFICES ASSUME NEW n \in PartNumbers, partObjects[n] # None,
                    ~ /\ partObjects[n] = Torn
                      /\ \E q \in Requests : At(q, "torn") /\ requests[q].part = n
             PROVE  Explained(partObjects[n], n)'
  OBVIOUS
<1>1. Explained(partObjects[n], n)
  BY DEF PieceInv
<1> QED BY <1>1 DEF Lasts, Explained, OfCapture

LEMMA BuffersStay ==
  ASSUME Lasts, NEW r, AllExplained(r.buffers), NEW s, s.buffers = r.buffers
  PROVE  \A i \in 1..Len(s.buffers) :
           \/ s.buffers[i] = Torn /\ driver' = "fs" /\ givenUp'
           \/ \E v \in Versions : s.buffers[i] = <<v, i>> /\ (v = first' \/ zip' # first')
BY DEF Lasts, AllExplained, Explained, OfCapture

\* The device sends one request at a time.
LEMMA SendKeeps ==
  ASSUME NEW q \in Requests, NEW kind \in {"register", "part", "content", "complete"},
         NEW n, NEW next, NEW missing, IInv, CauseInv,
         device.pc \notin {"idle", "wait"}, Send(q, kind, n, next, missing)
  PROVE  CauseInv'
<1>1. \A r \in Requests : r # q => requests'[r] = requests[r]
  BY DEF Send, IInv, TypeOK
<1>2. /\ requests'[q].pc = kind /\ requests'[q].version = device.version
      /\ requests'[q].buffers = <<>>
  BY DEF Send, IInv, TypeOK, IdleRequest
<1>3. /\ device'.pc = "wait" /\ device'.version = device.version /\ device'.request = q
      /\ UNCHANGED <<driver, zip, first, givenUp, artifact, partObjects, bundle, refused>>
  BY DEF Send, IInv, TypeOK, DeviceType, storeVars
<1>4. requests[q].pc = "idle" /\ Lasts
  BY <1>3 DEF Send, Lasts
<1>5. VersionInv'
  BY <1>1, <1>2, <1>3 DEF CauseInv, VersionInv, Active, OfCapture
<1>6. OneRequest'
  BY <1>1, <1>2, <1>3 DEF CauseInv, OneRequest, Active, At
<1>7. PieceInv'
  <2>1. \A r \in Requests : At(r, "torn") => At(r, "torn")' /\ requests'[r].part = requests[r].part
    BY <1>1, <1>4 DEF At
  <2>2. \A r \in Requests : AllExplained(requests[r].buffers)'
    <3> SUFFICES ASSUME NEW r \in Requests PROVE AllExplained(requests[r].buffers)'
      OBVIOUS
    <3>1. CASE r = q
      BY <1>2, <3>1 DEF AllExplained
    <3>2. CASE r # q
      BY <1>1, <1>3, <3>2 DEF CauseInv, PieceInv, AllExplained, Explained, OfCapture
    <3> QED BY <3>1, <3>2
  <2> QED BY <1>3, <1>4, <2>1, <2>2, PartsStay, BundleStays DEF PieceInv, CauseInv
<1>8. MismatchHasACause'
  BY <1>3, <1>4, RefusalStays DEF CauseInv
<1> QED BY <1>5, <1>6, <1>7, <1>8 DEF CauseInv

LEMMA DeviceKeeps ==
  ASSUME IInv, DeviceStep, CauseInv, Lasts
  PROVE  CauseInv'
<1>1. device \in DeviceType
  BY DEF IInv, TypeOK
<1>2. ASSUME UNCHANGED <<artifact, storeVars, requests, refused>>,
             device'.pc # "idle" \/ device'.next # "idle" => OfCapture(device'.version),
             driver = "fs" /\ ~givenUp' => device.pc # "wait" \/ device' = device
      PROVE  CauseInv'
  <2>1. VersionInv'
    BY <1>2 DEF CauseInv, VersionInv, Active, OfCapture, Lasts
  <2>2. OneRequest'
    BY <1>2 DEF CauseInv, OneRequest, Active, At, Lasts
  <2>3. \A r \in Requests : AllExplained(requests[r].buffers)'
    BY <1>2 DEF CauseInv, PieceInv, AllExplained, Explained, OfCapture, Lasts
  <2>4. UNCHANGED <<partObjects, bundle>>
        /\ \A r \in Requests : At(r, "torn") =>
                                 At(r, "torn")' /\ requests'[r].part = requests[r].part
    BY <1>2 DEF storeVars, At
  <2> QED BY <1>2, <2>1, <2>2, <2>3, <2>4, PartsStay, BundleStays, RefusalStays
          DEF CauseInv, PieceInv
<1>3. ASSUME NEW v \in Versions, Repackage(v) PROVE CauseInv'
  <2>1. device.pc = "idle" /\ device' = device /\ UNCHANGED givenUp
    BY <1>3 DEF Repackage, Device
  <2>2. zip' # first' /\ UNCHANGED <<artifact, storeVars, requests, refused>>
    BY <1>3 DEF Repackage
  <2>3. VersionInv'
    BY <2>2 DEF VersionInv, OfCapture
  <2>4. OneRequest'
    BY <2>1, <2>2 DEF CauseInv, OneRequest, Active, At, Lasts
  <2>5. \A r \in Requests : AllExplained(requests[r].buffers)'
    BY <2>2 DEF CauseInv, PieceInv, AllExplained, Explained, OfCapture, Lasts
  <2>6. UNCHANGED <<partObjects, bundle>>
        /\ \A r \in Requests : At(r, "torn") =>
                                 At(r, "torn")' /\ requests'[r].part = requests[r].part
    BY <2>2 DEF storeVars, At
  <2> QED BY <2>2, <2>3, <2>4, <2>5, <2>6, PartsStay, BundleStays, RefusalStays
          DEF CauseInv, PieceInv
<1>4. CASE StartUpload
  BY <1>2, <1>4 DEF StartUpload, Device, IdleDevice, OfCapture
<1>5. CASE UploadStatus
  BY <1>1, <1>2, <1>5 DEF UploadStatus, Device, DeviceType, CauseInv, VersionInv
<1>6. CASE GiveUp
  BY <1>2, <1>6 DEF GiveUp, Device, IdleDevice
<1>7. ASSUME NEW n \in PartNumbers, PartUnsendable(n) PROVE CauseInv'
  BY <1>2, <1>7 DEF PartUnsendable, NextPart, Fail, Device, IdleDevice
<1>8. ASSUME NEW q \in Requests,
             \/ RegisterUpload(q) \/ PutContent(q) \/ CompleteUpload(q)
             \/ \E n \in PartNumbers : PutPart(q, n)
      PROVE  CauseInv'
  BY <1>8, SendKeeps
     DEF RegisterUpload, PutContent, CompleteUpload, PutPart, NextPart, Device
<1> QED BY <1>3, <1>4, <1>5, <1>6, <1>7, <1>8 DEF DeviceStep

\* What request q, going on to n, leaves of its part is explained, unless n
\* writes it.
LeavesExplained(q, n) ==
  \A m \in PartNumbers :
    \/ partObjects'[m] = None \/ Explained(partObjects'[m], m)
    \/ n.pc = "torn" /\ n.part = m /\ partObjects'[m] = Torn
    \/ partObjects'[m] = partObjects[m] /\ ~(At(q, "torn") /\ requests[q].part = m)

BundleExplained(b) ==
  b # None => AllExplained(b) /\ (Len(b) = PartsOf[first] \/ zip # first)

\* A request goes on to n, or ends, and the device with it.
Moves(q, n) ==
  /\ Active(q) /\ requests' = [requests EXCEPT ![q] = n]
  /\ n.pc # "idle" => OfCapture(n.version) /\ device' = device
  /\ n.pc = "torn" => driver = "fs"
  /\ \/ device' = device \/ OfCapture(device'.version)
     \/ device'.pc = "idle" /\ device'.next = "idle"
  /\ artifact'.count # 0 => artifact'.count = PartsOf[first] \/ zip # first
  /\ AllExplained(n.buffers) /\ BundleExplained(bundle')
  /\ MismatchHasACause'
  /\ UNCHANGED <<driver, zip, first, givenUp>>

LEMMA ServerKeepsCause ==
  ASSUME NEW q \in Requests, NEW n \in RequestType, IInv, CauseInv,
         Moves(q, n), LeavesExplained(q, n)
  PROVE  CauseInv'
<1> USE DEF Moves
<1>1. \A r \in Requests : requests'[r] = IF r = q THEN n ELSE requests[r]
  BY DEF IInv, TypeOK
<1>2. VersionInv'
  BY <1>1 DEF CauseInv, VersionInv, Active, OfCapture
<1>3. OneRequest'
  BY <1>1 DEF CauseInv, OneRequest, Active, At
<1>4. ASSUME NEW m \in PartNumbers
      PROVE  \/ partObjects'[m] = None \/ Explained(partObjects[m], m)'
             \/ /\ partObjects'[m] = Torn
                /\ \E r \in Requests : At(r, "torn")' /\ requests'[r].part = m
  <2>1. CASE partObjects'[m] = None \/ Explained(partObjects'[m], m)
    BY <2>1 DEF Explained, OfCapture
  <2>2. CASE n.pc = "torn" /\ n.part = m /\ partObjects'[m] = Torn
    BY <1>1, <2>2 DEF At
  <2>3. CASE partObjects'[m] = partObjects[m] /\ ~(At(q, "torn") /\ requests[q].part = m)
    <3>1. CASE partObjects[m] = None \/ Explained(partObjects[m], m)
      BY <2>3, <3>1 DEF Explained, OfCapture
    <3>2. ASSUME NEW r \in Requests, At(r, "torn"), requests[r].part = m
          PROVE  At(r, "torn")' /\ requests'[r].part = m
      BY <1>1, <2>3, <3>2 DEF At
    <3> QED BY <2>3, <3>1, <3>2 DEF CauseInv, PieceInv
  <2> QED BY <2>1, <2>2, <2>3 DEF LeavesExplained
<1>5. ASSUME NEW r \in Requests PROVE AllExplained(requests[r].buffers)'
  BY <1>1 DEF CauseInv, PieceInv, AllExplained, Explained, OfCapture
<1>6. bundle' # None => /\ AllExplained(bundle)'
                        /\ Len(bundle') = PartsOf[first'] \/ zip' # first'
  BY DEF BundleExplained, AllExplained, Explained, OfCapture
<1>7. PieceInv'
  BY <1>4, <1>5, <1>6 DEF PieceInv
<1> QED BY <1>2, <1>3, <1>7 DEF CauseInv

LEMMA AnswerKeeps ==
  ASSUME NEW q \in Requests, NEW ok \in BOOLEAN, IInv, CauseInv,
         Active(q), ~At(q, "torn"), Answer(q, ok),
         artifact'.count # 0 => artifact'.count = PartsOf[first] \/ zip # first,
         \A m \in PartNumbers :
           partObjects'[m] = partObjects[m] \/ Explained(partObjects'[m], m),
         BundleExplained(bundle'), MismatchHasACause', driver' = driver
  PROVE  CauseInv'
<1>1. PICK n \in RequestType : n = IdleRequest
  <2>1. IdleRequest \in RequestType
    BY UploadAssumption DEF IdleRequest, RequestType
  <2> QED BY <2>1
<1>2. n.pc = "idle" /\ n.buffers = <<>>
  BY <1>1 DEF IdleRequest
<1>3. requests' = [requests EXCEPT ![q] = n] /\ UNCHANGED <<zip, first, givenUp>>
  BY <1>1 DEF Answer
<1>4. \/ device' = device \/ OfCapture(device'.version)
      \/ device'.pc = "idle" /\ device'.next = "idle"
  <2>1. device \in DeviceType
    BY DEF IInv, TypeOK
  <2>2. CASE device.request = q /\ ok /\ device.next # "idle"
    <3>1. device'.version = device.version
      BY <2>1, <2>2 DEF Answer, DeviceType
    <3> QED BY <2>2, <3>1 DEF CauseInv, VersionInv
  <2>3. CASE ~(device.request = q /\ ok /\ device.next # "idle")
    BY <2>3 DEF Answer, IdleDevice
  <2> QED BY <2>2, <2>3
<1>5. LeavesExplained(q, n) /\ AllExplained(n.buffers)
  BY <1>2 DEF LeavesExplained, AllExplained
<1>6. Moves(q, n)
  BY <1>2, <1>3, <1>4, <1>5 DEF Moves
<1> QED BY <1>5, <1>6, ServerKeepsCause

LEMMA MoveKeeps ==
  ASSUME NEW q \in Requests, NEW n \in RequestType, IInv, CauseInv,
         Active(q), ~At(q, "torn"),
         requests' = [requests EXCEPT ![q] = n], n.version = requests[q].version, n.pc # "torn",
         AllExplained(n.buffers), BundleExplained(bundle'),
         UNCHANGED <<driver, zip, first, givenUp, device, artifact, partObjects, refused>>
  PROVE  CauseInv'
<1>1. OfCapture(n.version)
  BY DEF CauseInv, VersionInv, Active
<1>2. artifact'.count # 0 => artifact'.count = PartsOf[first] \/ zip # first
  BY DEF CauseInv, VersionInv
<1>3. LeavesExplained(q, n)
  BY DEF LeavesExplained
<1>4. MismatchHasACause'
  BY RefusalStays DEF CauseInv, Lasts
<1>5. Moves(q, n)
  BY <1>1, <1>2, <1>4 DEF Moves
<1> QED BY <1>3, <1>5, ServerKeepsCause

LEMMA BundleNow == ASSUME CauseInv PROVE BundleExplained(bundle)
BY DEF CauseInv, PieceInv, BundleExplained

\* Requests that end.
LEMMA EndsKeep ==
  ASSUME NEW q \in Requests, IInv, CauseInv,
         \/ HandleRegister(q) \/ StorePresigned(q) \/ RecordUploadPart(q)
         \/ StoreContent(q) \/ MarkUploaded(q)
  PROVE  CauseInv'
<1>1. /\ Active(q) /\ ~At(q, "torn") /\ Answer(q, TRUE) /\ driver' = driver
      /\ UNCHANGED <<refused, zip, first, givenUp>>
      /\ OfCapture(requests[q].version) /\ requests[q].version \in Versions
  BY DEF HandleRegister, StorePresigned, RecordUploadPart, StoreContent, MarkUploaded, At,
         Active, CauseInv, VersionInv, Answer, IInv, RequestInv, Sound
<1>2. artifact \in ArtifactType /\ partObjects \in [PartNumbers -> Pieces \cup {None}]
  BY DEF IInv, TypeOK
<1>3. artifact'.count # 0 => artifact'.count = PartsOf[first] \/ zip # first
  <2>1. CASE HandleRegister(q)
    <3>1. artifact'.count = CountOf(requests[q].version)
      BY <1>2, <2>1 DEF HandleRegister, ArtifactType
    <3> QED BY <1>1, <3>1 DEF CountOf, CauseInv, VersionInv, OfCapture
  <2>2. CASE MarkUploaded(q)
    <3>1. artifact'.count = artifact.count
      BY <1>2, <2>2 DEF MarkUploaded, ArtifactType
    <3> QED BY <3>1 DEF CauseInv, VersionInv
  <2>3. CASE UNCHANGED artifact
    BY <2>3 DEF CauseInv, VersionInv
  <2> QED BY <2>1, <2>2, <2>3 DEF StorePresigned, RecordUploadPart, StoreContent
<1>4. \A m \in PartNumbers : partObjects'[m] = partObjects[m] \/ Explained(partObjects'[m], m)
  <2>1. CASE UNCHANGED partObjects
    BY <2>1
  <2>2. CASE StorePresigned(q)
    <3>1. \A m \in PartNumbers : \/ partObjects'[m] = partObjects[m]
                                 \/ partObjects'[m] = <<requests[q].version, m>>
      BY <1>2, <2>2 DEF StorePresigned, Piece
    <3> QED BY <1>1, <3>1 DEF Explained
  <2> QED BY <2>1, <2>2 DEF HandleRegister, RecordUploadPart, StoreContent, MarkUploaded,
                          storeVars
<1>5. BundleExplained(bundle')
  <2>1. CASE StoreContent(q)
    <3>1. bundle' = Whole(requests[q].version)
      BY <2>1 DEF StoreContent, Store
    <3>2. AllExplained(Whole(requests[q].version))
      BY <1>1, WholeParts DEF AllExplained, Explained
    <3>3. Len(Whole(requests[q].version)) = PartsOf[first] \/ zip # first
      BY <1>1, WholeParts DEF OfCapture
    <3> QED BY <3>1, <3>2, <3>3 DEF BundleExplained
  <2>2. CASE UNCHANGED bundle
    BY <2>2, BundleNow
  <2> QED BY <2>1, <2>2 DEF HandleRegister, StorePresigned, RecordUploadPart, MarkUploaded,
                          storeVars
<1>6. MismatchHasACause'
  BY <1>1, RefusalStays DEF CauseInv, Lasts
<1> QED BY <1>1, <1>3, <1>4, <1>5, <1>6, AnswerKeeps

\* A file that is written is that of the request that writes it.
LEMMA FileKeeps ==
  ASSUME NEW q \in Requests, IInv, CauseInv, BeginPartFile(q) \/ EndPartFile(q)
  PROVE  CauseInv'
<1>1. /\ OfCapture(requests[q].version) /\ requests[q].version \in Versions
      /\ Active(q) /\ driver = "fs"
      /\ requests[q] \in RequestType
      /\ partObjects \in [PartNumbers -> Pieces \cup {None}]
      /\ UNCHANGED <<driver, zip, first, givenUp, device, artifact, bundle, refused>>
  BY DEF BeginPartFile, EndPartFile, At, Active, CauseInv, VersionInv, OneRequest, IInv, TypeOK,
         deviceVars, RequestInv, Sound
<1>2. PICK pc \in {"torn", "row"} :
        Goto(q, pc) /\ (pc = "torn" <=> BeginPartFile(q)) /\ (pc = "row" <=> EndPartFile(q))
  <2>1. CASE BeginPartFile(q)
    BY <2>1 DEF BeginPartFile, EndPartFile, At
  <2>2. CASE EndPartFile(q)
    BY <2>2 DEF BeginPartFile, EndPartFile, At
  <2> QED BY <2>1, <2>2
<1>3. PICK n \in RequestType : n = [requests[q] EXCEPT !.pc = pc]
  BY <1>1, <1>2 DEF RequestType
<1>4. /\ n.pc = pc /\ n.version = requests[q].version /\ n.part = requests[q].part
      /\ n.buffers = requests[q].buffers /\ requests' = [requests EXCEPT ![q] = n]
  BY <1>1, <1>2, <1>3 DEF RequestType, Goto
<1>5. MismatchHasACause'
  BY <1>1, RefusalStays DEF CauseInv, Lasts
<1>6. AllExplained(n.buffers) /\ BundleExplained(bundle')
  BY <1>1, <1>4, BundleNow DEF CauseInv, PieceInv
<1>7. Moves(q, n)
  BY <1>1, <1>4, <1>5, <1>6 DEF Moves, CauseInv, VersionInv
<1>8. LeavesExplained(q, n)
  <2>1. CASE BeginPartFile(q)
    BY <1>1, <1>2, <1>4, <2>1 DEF LeavesExplained, BeginPartFile, At
  <2>2. CASE EndPartFile(q)
    <3>1. \A m \in PartNumbers :
            IF m = requests[q].part THEN partObjects'[m] = <<requests[q].version, m>>
                                    ELSE partObjects'[m] = partObjects[m]
      BY <1>1, <2>2 DEF EndPartFile, Piece
    <3> QED BY <1>1, <3>1 DEF LeavesExplained, Explained
  <2> QED BY <2>1, <2>2
<1> QED BY <1>7, <1>8, ServerKeepsCause

LEMMA CheckKeeps ==
  ASSUME NEW q \in Requests, IInv, CauseInv, CheckParts(q) \/ VerifyUpload(q)
  PROVE  CauseInv'
<1>1. /\ OfCapture(requests[q].version) /\ requests[q].version \in Versions
      /\ Active(q) /\ ~At(q, "torn") /\ first \in Versions
      /\ requests[q] \in RequestType /\ UNCHANGED <<driver, artifact, storeVars>>
      /\ UNCHANGED <<zip, first, givenUp>>
  BY DEF CheckParts, VerifyUpload, At, Active, CauseInv, VersionInv, IInv, TypeOK,
         RequestInv, Sound, Answer, deviceVars
<1>2. BundleExplained(bundle)
  BY BundleNow
<1>3. MismatchHasACause'
  <2>1. CASE refused' = refused
    BY <1>1, <2>1, RefusalStays DEF CauseInv, Lasts
  <2>2. CASE /\ bundle # None /\ bundle # Whole(requests[q].version)
             /\ refused' = [bytes |-> bundle, version |-> requests[q].version]
    <3>1. bundle \in Bytes
      BY <2>2 DEF IInv, TypeOK
    <3>2. \/ HasTorn(bundle) /\ driver = "fs" /\ givenUp
          \/ OfAnother(bundle, requests[q].version) /\ zip # first
      BY <1>1, <1>2, <2>2, <3>1, RefusalIsExplained DEF BundleExplained
    <3>3. refused'.bytes = bundle /\ refused'.version = requests[q].version
      BY <2>2
    <3> QED BY <1>1, <3>2, <3>3 DEF MismatchHasACause, HasTorn, OfAnother
  <2> QED BY <2>1, <2>2 DEF CheckParts, VerifyUpload, DigestMatches
<1>4. CASE Answer(q, FALSE)
  BY <1>1, <1>2, <1>3, <1>4, AnswerKeeps DEF storeVars, CauseInv, VersionInv
<1>5. ASSUME NEW pc \in {"assemble", "verify", "mark"}, Goto(q, pc), UNCHANGED deviceVars,
             UNCHANGED refused
      PROVE  CauseInv'
  <2>1. PICK n \in RequestType : n = [requests[q] EXCEPT !.pc = pc]
    BY <1>1 DEF RequestType
  <2>2. /\ n.pc = pc /\ n.version = requests[q].version /\ n.buffers = requests[q].buffers
        /\ requests' = [requests EXCEPT ![q] = n]
    BY <1>1, <1>5, <2>1 DEF RequestType, Goto
  <2>3. AllExplained(n.buffers)
    BY <2>2 DEF CauseInv, PieceInv
  <2>4. UNCHANGED <<driver, zip, first, givenUp, device, artifact, partObjects, refused>>
        /\ BundleExplained(bundle')
    BY <1>1, <1>2, <1>5 DEF storeVars, deviceVars
  <2> QED BY <1>1, <2>2, <2>3, <2>4, MoveKeeps
<1> QED BY <1>4, <1>5 DEF CheckParts, VerifyUpload

\* What completion reads is explained: a file that is torn while it is read is
\* written by a request the device gave up.
LEMMA AssembleKeeps ==
  ASSUME NEW q \in Requests, IInv, CauseInv, ReadPart(q) \/ PutAssembled(q)
  PROVE  CauseInv'
<1>1. /\ Active(q) /\ ~At(q, "torn") /\ At(q, "assemble")
      /\ requests[q] \in RequestType /\ UNCHANGED <<driver, artifact, partObjects, refused>>
      /\ UNCHANGED <<zip, first, givenUp>>
      /\ artifact.count > 1 /\ artifact.count \in 0..MaxParts
  BY DEF ReadPart, PutAssembled, At, Active, IInv, TypeOK, ArtifactType,
         RequestInv, Sound, Answer, deviceVars
<1>2. requests[q].buffers \in Bytes \cup {<<>>} /\ AllExplained(requests[q].buffers)
  BY <1>1 DEF RequestType, CauseInv, PieceInv
<1>3. requests[q].buffers \in Seq(Pieces) /\ Len(requests[q].buffers) \in 0..MaxParts
  BY <1>2, BytesAreSequences
<1>4. BundleExplained(bundle)
  BY BundleNow
<1>5. MismatchHasACause'
  BY <1>1, RefusalStays DEF CauseInv, Lasts
<1>6. CASE ReadPart(q)
  <2>1. PICK i \in PartNumbers : i = Len(requests[q].buffers) + 1
    BY <1>1, <1>3, <1>6, UploadAssumption DEF ReadPart, PartNumbers
  <2>2. CASE partObjects[i] = None
    <3>1. Answer(q, FALSE) /\ bundle' = bundle
      BY <1>6, <2>1, <2>2 DEF ReadPart
    <3> QED BY <1>1, <1>4, <1>5, <3>1, AnswerKeeps DEF CauseInv, VersionInv
  <2>3. CASE partObjects[i] # None
    <3>1. Explained(partObjects[i], i)
      <4>1. ASSUME NEW r \in Requests, At(r, "torn"), partObjects[i] = Torn
            PROVE  driver = "fs" /\ givenUp
        BY <1>1, <4>1 DEF CauseInv, OneRequest, At, Active
      <4>2. CASE \E r \in Requests : At(r, "torn") /\ requests[r].part = i
        BY <2>3, <4>1, <4>2 DEF Explained, CauseInv, PieceInv
      <4> QED BY <2>3, <4>2 DEF CauseInv, PieceInv
    <3>3. PICK b : b = Append(requests[q].buffers, partObjects[i])
      OBVIOUS
    <3>4. partObjects[i] \in Pieces
      BY <2>3 DEF IInv, TypeOK
    <3>5. b \in Seq(Pieces) /\ Len(b) = i
      BY <1>3, <2>1, <3>3, <3>4
    <3>6. b \in Bytes
      BY <3>5, SequencesAreBytes
    <3>7. PICK n \in RequestType : n = [requests[q] EXCEPT !.buffers = b]
      BY <1>1, <3>6 DEF RequestType
    <3>8. n.pc = "assemble" /\ n.version = requests[q].version /\ n.buffers = b
      BY <1>1, <3>7 DEF RequestType, At
    <3>9. AllExplained(n.buffers)
      <4>1. \A j \in 1..Len(requests[q].buffers) : b[j] = requests[q].buffers[j]
        BY <1>3, <3>3, <3>4
      <4>2. b[i] = partObjects[i]
        BY <1>3, <2>1, <3>3, <3>4
      <4>3. ASSUME NEW j \in 1..Len(b) PROVE Explained(b[j], j)
        <5>1. CASE j \in 1..Len(requests[q].buffers)
          BY <1>2, <4>1, <5>1 DEF AllExplained
        <5>2. CASE j = i
          BY <3>1, <4>2, <5>2
        <5> QED BY <1>3, <2>1, <3>5, <5>1, <5>2
      <4> QED BY <3>8, <4>3 DEF AllExplained
    <3>10. requests' = [requests EXCEPT ![q] = n] /\ UNCHANGED <<deviceVars, bundle>>
      BY <1>6, <2>1, <2>3, <3>3, <3>7 DEF ReadPart
    <3>11. UNCHANGED <<driver, zip, first, givenUp, device, artifact, partObjects, refused>>
           /\ BundleExplained(bundle')
      BY <1>1, <1>4, <3>10 DEF deviceVars
    <3> QED BY <1>1, <3>8, <3>9, <3>10, <3>11, MoveKeeps
  <2> QED BY <2>2, <2>3
<1>7. CASE PutAssembled(q)
  <2>1. Len(requests[q].buffers) = artifact.count
    BY <1>7 DEF PutAssembled
  <2>2. Len(requests[q].buffers) = PartsOf[first] \/ zip # first
    BY <1>1, <2>1 DEF CauseInv, VersionInv
  <2>3. PICK n \in RequestType : n = [requests[q] EXCEPT !.pc = "verify", !.buffers = <<>>]
    BY <1>1 DEF RequestType
  <2>4. n.pc = "verify" /\ n.version = requests[q].version /\ n.buffers = <<>>
    BY <1>1, <2>3 DEF RequestType
  <2>5. AllExplained(n.buffers)
    BY <2>4 DEF AllExplained
  <2>6. requests' = [requests EXCEPT ![q] = n] /\ UNCHANGED deviceVars
        /\ bundle' = requests[q].buffers
    BY <1>7, <2>3 DEF PutAssembled, Store
  <2>7. UNCHANGED <<driver, zip, first, givenUp, device, artifact, partObjects, refused>>
        /\ BundleExplained(bundle')
    BY <1>1, <1>2, <2>2, <2>6 DEF BundleExplained, deviceVars
  <2> QED BY <1>1, <2>4, <2>5, <2>6, <2>7, MoveKeeps
<1> QED BY <1>6, <1>7

\* Until the device gives a request up it waits for the only one there is; so a
\* file that a dead request leaves torn has its excuse.
LEMMA DiesKeeps ==
  ASSUME NEW q \in Requests, IInv, CauseInv, RequestDies(q)
  PROVE  CauseInv'
<1>1. Active(q) /\ (At(q, "torn") => driver = "fs" /\ givenUp)
  BY DEF RequestDies, CauseInv, OneRequest, Active, At
<1>2. PICK n \in RequestType : n = IdleRequest
  <2>1. IdleRequest \in RequestType
    BY UploadAssumption DEF IdleRequest, RequestType
  <2> QED BY <2>1
<1>3. n.pc = "idle" /\ n.buffers = <<>> /\ requests' = [requests EXCEPT ![q] = n]
  BY <1>2 DEF IdleRequest, RequestDies
<1>4. UNCHANGED <<driver, zip, first, givenUp, device, artifact, partObjects, bundle, refused>>
  BY DEF RequestDies, deviceVars, storeVars
<1>5. MismatchHasACause' /\ AllExplained(n.buffers) /\ BundleExplained(bundle')
  BY <1>3, <1>4, RefusalStays, BundleNow DEF CauseInv, Lasts, AllExplained
<1>6. Moves(q, n)
  BY <1>1, <1>3, <1>4, <1>5 DEF Moves, CauseInv, VersionInv
<1>7. LeavesExplained(q, n)
  BY <1>1, <1>4 DEF LeavesExplained, Explained, CauseInv, PieceInv
<1> QED BY <1>6, <1>7, ServerKeepsCause

\* A zip that completion refuses has a part that was read half written after the
\* device gave a request up, or is in part a zip packaged later or before: for
\* any zips and numbers of parts, whatever is interrupted and resumed.
THEOREM MismatchesHaveACause == Spec => []MismatchHasACause
<1>1. Init => CauseInv
  BY DEF Init, IdleDevice, IdleRequest, CauseInv, VersionInv, OneRequest, PieceInv,
         AllExplained, Active, At, MismatchHasACause
<1>2. IInv /\ CauseInv /\ [Next]_vars => CauseInv'
  <2> SUFFICES ASSUME IInv, CauseInv, [Next]_vars PROVE CauseInv'
    OBVIOUS
  <2>1. CASE UNCHANGED vars
    BY <2>1 DEF vars, CauseInv, VersionInv, OneRequest, PieceInv, AllExplained, Explained,
                OfCapture, Active, At, MismatchHasACause, HasTorn, OfAnother
  <2>2. CASE Next
    <3>1. Lasts
      BY <2>2, ExcusesLast
    <3>2. ASSUME NEW q \in Requests, ServerStep(q) PROVE CauseInv'
      BY <3>2, EndsKeep, FileKeeps, CheckKeeps, AssembleKeeps, DiesKeeps DEF ServerStep
    <3>3. CASE DeviceStep
      BY <3>1, <3>3, DeviceKeeps
    <3> QED BY <2>2, <3>2, <3>3 DEF Next
  <2> QED BY <2>1, <2>2
<1>3. CauseInv => MismatchHasACause
  BY DEF CauseInv
<1> QED BY <1>1, <1>2, <1>3, Invariance, PTL DEF Spec
=============================================================================
