---------------------------- MODULE MediaLifecycle ----------------------------
(***************************************************************************)
(* One photo from its upload to its use: the media row ('pending', 'ready' *)
(* or 'rejected'), the stored object, completion with its checks and the   *)
(* removal of JPEG Exif segments, and the link to an opening.              *)
(*                                                                         *)
(* Every read and write of the row or of the object is a step; requests    *)
(* overlap, and what one has read of the row is not locked.  Bytes are an  *)
(* image type and the segments before the scan; equal bytes have equal     *)
(* digests.                                                                *)
(***************************************************************************)
EXTENDS Naturals, Sequences, FiniteSets

CONSTANTS
  Photos,        \* what clients send: records [type, segments]
  Requests,      \* requests the API serves at a time (bound)
  MaxRequests,   \* requests over a behaviour (bound)
  None

VARIABLES
  driver,        \* STORAGE_DRIVER: "fs", or "s3" with presigned URLs
  media,         \* the media row
  object,        \* the bytes under its object key
  links,         \* the media_links row exists
  opening,       \* the opening is in the relational projection
  requests,      \* control state of each request
  received,      \* requests so far
  sent,          \* history: the photos stored by PUT
  late,          \* history: bytes stored after a completion had read them
  died,          \* history: a request died
  overlapped,    \* history: a completion began beside another
  mismatch       \* history: a completion answered "Checksum mismatch"

history == <<sent, late, died, overlapped, mismatch>>
vars == <<driver, media, object, links, opening, requests, received, sent,
          late, died, overlapped, mismatch>>

Types == {"image/jpeg", "image/png", "image/heic"}
Segment == {"exif", "xmp", "frame"}
Image == [type : Types \cup {"unknown"}, segments : Seq(Segment)]

ASSUME MediaAssumption ==
  /\ MaxRequests \in Nat
  /\ Photos \subseteq Image
  /\ None \notin Image

-----------------------------------------------------------------------------
(* imageMeta.ts *)

\* stripJpegExif: every Exif segment goes, XMP and the frame stay.
\* Mistake: the first Exif segment only.
StrippedOnce(p) ==
  IF p.segments # <<>> /\ Head(p.segments) = "exif"
    THEN [p EXCEPT !.segments = Tail(@)] ELSE p
\* What is kept of the first i segments.
Keep(segments) ==
  LET keep[i \in 0..Len(segments)] ==
        IF i = 0 THEN <<>>
        ELSE IF segments[i] = "exif" THEN keep[i-1] ELSE Append(keep[i-1], segments[i])
  IN keep
Stripped(p) == IF p.type = "image/jpeg"
                 THEN [p EXCEPT !.segments = Keep(@)[Len(@)]] ELSE p

Bytes == Photos \cup { Stripped(p) : p \in Photos }

\* The policy recorded with the row.
\* Mistake: every other type has none.
PolicyOfJpeg(p) == IF Stripped(p) = p THEN "no_exif_found" ELSE "none"
PolicyOf(p) ==
  CASE p.type = "image/jpeg" -> IF Stripped(p) = p THEN "no_exif_found"
                                                   ELSE "exif_app1_stripped"
    [] p.type = "image/png" -> "not_applicable"
    [] OTHER -> "unstripped_pending"

MediaRow == [status : {"absent", "unkeyed", "pending", "ready", "rejected"},
             type : Types, bytes : Bytes \cup {None},
             policy : {"unknown", "no_exif_found", "exif_app1_stripped",
                       "not_applicable", "unstripped_pending"}]
RequestType == [pc : {"idle", "put", "read", "strip", "ready", "reject", "link"},
                photo : Photos \cup {None}, bytes : Bytes \cup {None}]

TypeOK ==
  /\ driver \in {"fs", "s3"}
  /\ media \in MediaRow
  /\ object \in Bytes \cup {None}
  /\ {links, opening, late, died, overlapped, mismatch} \subseteq BOOLEAN
  /\ requests \in [Requests -> RequestType]
  /\ received \in 0..MaxRequests
  /\ sent \subseteq Photos

IdleRequest == [pc |-> "idle", photo |-> None, bytes |-> None]

Init ==
  /\ driver \in {"fs", "s3"}
  /\ \E t \in Types :
       media = [status |-> "absent", type |-> t, bytes |-> None, policy |-> "unknown"]
  /\ object = None
  /\ links = FALSE /\ opening \in BOOLEAN
  /\ requests = [q \in Requests |-> IdleRequest]
  /\ received = 0 /\ sent = {}
  /\ late = FALSE /\ died = FALSE /\ overlapped = FALSE /\ mismatch = FALSE

-----------------------------------------------------------------------------
(* The routes *)

At(q, pc) == requests[q].pc = pc
Goto(q, pc) == requests' = [requests EXCEPT ![q].pc = pc]
End(q) == requests' = [requests EXCEPT ![q] = IdleRequest]

Receive(q, pc, p) ==
  /\ At(q, "idle")
  /\ received < MaxRequests
  /\ received' = received + 1
  /\ requests' = [requests EXCEPT ![q] = [IdleRequest EXCEPT !.pc = pc, !.photo = p]]

\* POST /v1/media/uploads: a row with a placeholder key, then its own key; the
\* client learns of the media, and can name it, after the second.
CreateMediaUpload ==
  /\ media.status \in {"absent", "unkeyed"}
  /\ media' = [media EXCEPT !.status = IF @ = "absent" THEN "unkeyed" ELSE "pending"]
  /\ UNCHANGED <<driver, object, links, opening, requests, received, history>>

\* The import of another revision projects the opening.
ProjectOpening ==
  /\ ~opening
  /\ opening' = TRUE
  /\ UNCHANGED <<driver, media, object, links, requests, received, history>>

\* PUT of the bytes: the route asks for a pending row first, the presigned URL
\* asks for nothing.
BeginPut(q, p) ==
  /\ media.status \notin {"absent", "unkeyed"}
  /\ driver = "fs" => media.status = "pending"
  /\ Receive(q, "put", p)
  /\ UNCHANGED <<driver, media, object, links, opening, history>>

\* A completion that has found the row pending and not settled it.
Completing(q) == requests[q].pc \in {"read", "strip", "ready", "reject"}

StoreBytes(q) ==
  /\ At(q, "put")
  /\ object' = requests[q].photo
  /\ late' = (late \/ media.status # "pending" \/ \E r \in Requests : Completing(r))
  /\ sent' = sent \cup {requests[q].photo}
  /\ End(q)
  /\ UNCHANGED <<driver, media, links, opening, received, died, overlapped, mismatch>>

\* Completion with the digest of a photo that was stored.
\* Mistake: any row that is not rejected can be completed.
CompletableAgain == media.status \in {"pending", "ready"}
Completable == media.status = "pending"

BeginComplete(q, p) ==
  /\ Completable /\ object # None
  /\ p \in sent
  /\ Receive(q, "read", p)
  /\ overlapped' = (overlapped \/ \E r \in Requests : Completing(r))
  /\ UNCHANGED <<driver, media, object, links, opening, sent, late, died, mismatch>>

\* Mistake: the declared digest is not compared.
DigestAccepted(q) == TRUE
DigestMatches(q) == object = requests[q].photo

ReadObject(q) ==
  /\ At(q, "read")
  /\ IF ~DigestMatches(q)
       THEN End(q) /\ mismatch' = TRUE
       ELSE /\ requests' = [requests EXCEPT ![q] =
                 [@ EXCEPT !.bytes = object,
                           !.pc = IF object.type = media.type THEN "strip" ELSE "reject"]]
            /\ UNCHANGED mismatch
  /\ UNCHANGED <<driver, media, object, links, opening, received, sent, late, died,
                 overlapped>>

MarkRejected(q) ==
  /\ At(q, "reject")
  /\ media' = [media EXCEPT !.status = "rejected"]
  /\ End(q)
  /\ UNCHANGED <<driver, object, links, opening, received, history>>

Finished(q) == IF Stripped(requests[q].bytes) # requests[q].bytes
                 THEN Stripped(requests[q].bytes) ELSE object

StoreStripped(q) ==
  /\ At(q, "strip")
  /\ object' = Finished(q)
  /\ Goto(q, "ready")
  /\ UNCHANGED <<driver, media, links, opening, received, history>>

\* An update by id: whatever the row has become.
MarkReady(q) ==
  LET p == requests[q].bytes IN
  /\ At(q, "ready")
  /\ media' = [media EXCEPT !.status = "ready", !.bytes = Stripped(p),
                            !.policy = PolicyOf(p)]
  /\ End(q)
  /\ UNCHANGED <<driver, object, links, opening, received, history>>

\* POST media-links: opening and media are looked up, then the row is inserted.
\* Mistake: a media row that exists is good enough.
LinkableUnchecked == media.status \in {"pending", "ready"}
Linkable == media.status = "ready"

BeginLink(q) ==
  /\ opening /\ Linkable
  /\ Receive(q, "link", None)
  /\ UNCHANGED <<driver, media, object, links, opening, history>>

CreateMediaLink(q) ==
  /\ At(q, "link")
  /\ links' = TRUE
  /\ End(q)
  /\ UNCHANGED <<driver, media, object, opening, received, history>>

RequestDies(q) ==
  /\ ~At(q, "idle")
  /\ died' = TRUE
  /\ End(q)
  /\ UNCHANGED <<driver, media, object, links, opening, received, sent, late,
                 overlapped, mismatch>>

-----------------------------------------------------------------------------

RequestStep(q) ==
  \/ \E p \in Photos : BeginPut(q, p) \/ BeginComplete(q, p)
  \/ StoreBytes(q) \/ ReadObject(q) \/ MarkRejected(q) \/ StoreStripped(q)
  \/ MarkReady(q) \/ BeginLink(q) \/ CreateMediaLink(q) \/ RequestDies(q)

Next == CreateMediaUpload \/ ProjectOpening \/ \E q \in Requests : RequestStep(q)

Spec == Init /\ [][Next]_vars

-----------------------------------------------------------------------------
(* Properties *)

\* Two completions of the same media, deaths between the store of the stripped
\* bytes and the row, and retries leave a ready row that describes the object,
\* no Exif segment in a JPEG, and a linked photo that stays ready although both
\* verdicts of a completion overwrite the row unconditionally - unless a client
\* stored bytes after a completion had read the object.
ReadyMatchesObject ==
  ~late =>
    /\ media.status = "ready" =>
         /\ object = media.bytes
         /\ media.policy \in {"no_exif_found", "exif_app1_stripped"} =>
              \A i \in 1..Len(object.segments) : object.segments[i] # "exif"
    /\ links => media.status = "ready"

\* The one photo a client has stored is refused with "Checksum mismatch" only
\* after a death, beside another completion, or for bytes stored late: the
\* stripped object has a digest that the client does not know.
RefusalHasACause ==
  mismatch /\ Cardinality(sent) = 1 => late \/ died \/ overlapped
=============================================================================
