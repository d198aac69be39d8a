------------------------ MODULE MediaAndGeometryProofs ------------------------
(***************************************************************************)
(* What holds of MediaLifecycle for any photos, requests and segments, and *)
(* of RoomGeometry for any captured walls, openings and widths: the two    *)
(* that compute over sequences, and whose proofs share the induction that  *)
(* takes.  Neither speaks of the other's variables.                        *)
(***************************************************************************)
EXTENDS MediaLifecycle, RoomGeometry, SequenceTheorems, FiniteSetTheorems,
        WellFoundedInduction, TLAPS

-----------------------------------------------------------------------------
(* Induction and recursion *)

\* Induction on the naturals, from their well-founded order.
LEMMA NatSetInduction ==
  ASSUME NEW S \in SUBSET Nat, 0 \in S, \A n \in S : n + 1 \in S
  PROVE  S = Nat
<1>. DEFINE T == Nat \ S
            R == {p \in Nat \X Nat : p[1] < p[2]}
<1>1. SUFFICES ASSUME T # {} PROVE FALSE
  OBVIOUS
<1>2. IsWellFoundedOn(R, Nat)
  BY NatLessThanWellFounded DEF OpToRel
<1>3. \E z \in T : \A y \in T : ~ (<<y, z>> \in R)
  <2>1. T \subseteq Nat
    OBVIOUS
  <2>. HIDE DEF T, R
  <2>. QED BY <1>1, <1>2, <2>1, WFMin
<1>4. PICK x \in T : \A y \in T : ~ (y < x)
  BY <1>3
<1>5. x # 0 /\ x - 1 \in Nat
  OBVIOUS
<1>6. x - 1 \in S
  BY <1>4, <1>5
<1>. QED
  BY <1>5, <1>6

\* A value and a step for every index define a function by recursion.
Iterates(f, a, step, n) ==
  f = [i \in 0..n |-> IF i = 0 THEN a ELSE step[<<f[i-1], i>>]]

\* ... which exists and takes its values where the step does.
LEMMA IteratesExist ==
  ASSUME NEW S, NEW a \in S, NEW N \in Nat, NEW step \in [S \X (1..N) -> S]
  PROVE  \E f \in [0..N -> S] : Iterates(f, a, step, N)
<1>. DEFINE Good == {n \in Nat : n <= N => \E f \in [0..n -> S] : Iterates(f, a, step, n)}
<1>1. 0 \in Good
  <2>. DEFINE f == [i \in 0..0 |-> a]
  <2>1. f \in [0..0 -> S]
    OBVIOUS
  <2>2. f = [i \in 0..0 |-> IF i = 0 THEN a ELSE step[<<f[i-1], i>>]]
    OBVIOUS
  <2>3. \E g \in [0..0 -> S] : Iterates(g, a, step, 0)
    <3>. HIDE DEF f
    <3>. QED BY <2>1, <2>2 DEF Iterates
  <2>. QED BY <2>3
<1>2. ASSUME NEW n \in Nat, n \in Good, n + 1 <= N
      PROVE  \E g \in [0..(n+1) -> S] : Iterates(g, a, step, n + 1)
  <2>1. PICK f \in [0..n -> S] : Iterates(f, a, step, n)
    BY <1>2
  <2>. HIDE DEF Good
  <2>. DEFINE last == step[<<f[n], n + 1>>]
              g == [i \in 0..(n+1) |-> IF i = n + 1 THEN last ELSE f[i]]
  <2>2. last \in S
    <3>1. f[n] \in S /\ n + 1 \in 1..N
      BY <1>2
    <3>2. <<f[n], n + 1>> \in S \X (1..N)
      BY <3>1
    <3>. QED BY <3>2
  <2>. HIDE DEF last
  <2>3. g \in [0..(n+1) -> S]
    BY <2>2
  <2>4. ASSUME NEW i \in 0..(n+1)
        PROVE  g[i] = IF i = 0 THEN a ELSE step[<<g[i-1], i>>]
    <3>1. CASE i = 0
      <4>1. g[i] = f[i]
        BY <3>1
      <4>2. f[i] = a
        BY <2>1, <3>1 DEF Iterates
      <4>. QED BY <3>1, <4>1, <4>2
    <3>2. CASE i = n + 1
      <4>1. g[i] = last /\ g[n] = f[n] /\ i - 1 = n
        BY <3>2
      <4>. HIDE DEF g
      <4>. QED BY <3>2, <4>1 DEF last
    <3>3. CASE i \in 1..n
      <4>1. f[i] = step[<<f[i-1], i>>]
        BY <2>1, <3>3 DEF Iterates
      <4>2. g[i] = f[i] /\ g[i-1] = f[i-1]
        BY <3>3
      <4>. HIDE DEF g
      <4>. QED BY <3>3, <4>1, <4>2
    <3>. QED BY <3>1, <3>2, <3>3
  <2>5. g = [i \in 0..(n+1) |-> IF i = 0 THEN a ELSE step[<<g[i-1], i>>]]
    BY <2>4
  <2>. HIDE DEF g
  <2>. QED BY <2>3, <2>5 DEF Iterates
<1>3. Good = Nat
  <2>1. Good \in SUBSET Nat /\ \A n \in Good : n + 1 \in Good
    BY <1>2
  <2>. HIDE DEF Good
  <2>. QED BY <1>1, <2>1, NatSetInduction
<1>. QED BY <1>3

\* Whatever satisfies the recursion takes its values there.
LEMMA IteratesTyped ==
  ASSUME NEW S, NEW a \in S, NEW N \in Nat, NEW step \in [S \X (1..N) -> S],
         NEW f, f[0] = a,
         \A i \in 1..N : f[i-1] \in S => f[i] = step[<<f[i-1], i>>]
  PROVE  \A i \in 0..N : f[i] \in S
<1>. DEFINE Good == {n \in Nat : n <= N => f[n] \in S}
<1>1. 0 \in Good
  OBVIOUS
<1>2. ASSUME NEW n \in Nat, n \in Good, n + 1 <= N PROVE f[n+1] \in S
  <2>1. n + 1 \in 1..N /\ (n + 1) - 1 = n /\ f[n] \in S
    BY <1>2
  <2>2. f[n+1] = step[<<f[n], n + 1>>]
    BY <2>1
  <2>3. <<f[n], n + 1>> \in S \X (1..N)
    BY <2>1
  <2>. QED BY <2>2, <2>3
<1>3. Good = Nat
  <2>1. \A n \in Good : n + 1 <= N => f[n+1] \in S
    BY <1>2
  <2>2. ASSUME NEW n \in Good PROVE n + 1 \in Good
    <3>1. n \in Nat /\ n + 1 \in Nat
      OBVIOUS
    <3>. QED BY <2>1, <3>1
  <2>3. Good \in SUBSET Nat
    OBVIOUS
  <2>. HIDE DEF Good
  <2>. QED BY <1>1, <2>2, <2>3, NatSetInduction
<1>. QED BY <1>3

\* The smallest of some natural numbers is one of them.
LEMMA MinIsLeast ==
  ASSUME NEW S \in SUBSET Nat, S # {}
  PROVE  Min(S) \in S /\ \A x \in S : Min(S) <= x
<1>. DEFINE R == {p \in Nat \X Nat : p[1] < p[2]}
<1>1. IsWellFoundedOn(R, Nat)
  BY NatLessThanWellFounded DEF OpToRel
<1>2. \E z \in S : \A y \in S : ~ (<<y, z>> \in R)
  <2>. HIDE DEF R
  <2>. QED BY <1>1, WFMin
<1>3. PICK z \in S : \A y \in S : ~ (<<y, z>> \in R)
  BY <1>2
<1>4. ASSUME NEW y \in S PROVE z <= y
  <2>1. z \in Nat /\ y \in Nat /\ ~ (y < z)
    BY <1>3
  <2>. QED BY <2>1
<1>. QED BY <1>4 DEF Min

-----------------------------------------------------------------------------
(* stripJpegExif *)

\* The segments kept of the first i, from those kept of the first i - 1.
Kept(s, keep, i) ==
  IF i = 0 THEN <<>>
  ELSE IF s[i] = "exif" THEN keep[i-1] ELSE Append(keep[i-1], s[i])

\* The recursion of Keep defines a function: there is one up to every length.
LEMMA KeepDefined ==
  ASSUME NEW s
  PROVE  Len(s) \in Nat => Keep(s) = [i \in 0..Len(s) |-> Kept(s, Keep(s), i)]
<1>. DEFINE Good == {n \in Nat : \E k : k = [i \in 0..n |-> Kept(s, k, i)]}
<1>1. 0 \in Good
  <2>. DEFINE k == [i \in 0..0 |-> <<>>]
  <2>1. k = [i \in 0..0 |-> Kept(s, k, i)]
    BY DEF Kept
  <2>. QED BY <2>1
<1>2. ASSUME NEW n \in Good PROVE n + 1 \in Good
  <2>1. PICK k : k = [i \in 0..n |-> Kept(s, k, i)]
    OBVIOUS
  <2>. DEFINE l == [i \in 0..(n+1) |-> IF i = n + 1 THEN Kept(s, k, i) ELSE k[i]]
  <2>2. ASSUME NEW i \in 0..(n+1) PROVE l[i] = Kept(s, l, i)
    <3>1. CASE i = 0
      BY <2>1, <3>1 DEF Kept
    <3>2. CASE i # 0
      <4>1. l[i-1] = k[i-1]
        BY <3>2
      <4>2. Kept(s, l, i) = Kept(s, k, i)
        BY <3>2, <4>1 DEF Kept
      <4>. QED BY <2>1, <4>2
    <3>. QED BY <3>1, <3>2
  <2>3. l = [i \in 0..(n+1) |-> Kept(s, l, i)]
    BY <2>2
  <2>4. \E j : j = [i \in 0..(n+1) |-> Kept(s, j, i)]
    <3>. HIDE DEF l
    <3>. QED BY <2>3
  <2>. QED BY <2>4
<1>3. Good = Nat
  <2>. HIDE DEF Good
  <2>0. Good \in SUBSET Nat BY DEF Good
  <2>. QED BY <1>1, <1>2, <2>0, NatSetInduction
<1>4. Len(s) \in Nat => \E k : k = [i \in 0..Len(s) |-> Kept(s, k, i)]
  BY <1>3
<1>. QED
  BY <1>4 DEF Keep, Kept

\* What Keep computes from one segment to the next.
LEMMA KeepSteps ==
  ASSUME NEW s \in Seq(Segment)
  PROVE  /\ Keep(s)[0] = <<>>
         /\ \A i \in 1..Len(s) : Keep(s)[i] =
              IF s[i] = "exif" THEN Keep(s)[i-1] ELSE Append(Keep(s)[i-1], s[i])
<1>. DEFINE k == Keep(s)
<1>1. Len(s) \in Nat /\ k = [i \in 0..Len(s) |-> Kept(s, k, i)]
  BY KeepDefined, LenProperties
<1>. HIDE DEF k
<1>2. \A i \in 0..Len(s) : k[i] = Kept(s, k, i)
  BY <1>1
<1>. QED BY <1>1, <1>2 DEF k, Kept

\* What is kept has no Exif segment.
LEMMA KeepStrips ==
  ASSUME NEW s \in Seq(Segment)
  PROVE  Keep(s)[Len(s)] \in Seq(Segment \ {"exif"})
<1>. DEFINE k == Keep(s)
            Good == {n \in Nat : n <= Len(s) => k[n] \in Seq(Segment \ {"exif"})}
<1>1. Len(s) \in Nat /\ DOMAIN s = 1..Len(s) /\ \A i \in 1..Len(s) : s[i] \in Segment
  BY LenProperties
<1>2. 0 \in Good
  <2>1. k[0] = <<>>
    BY KeepSteps
  <2>2. <<>> \in Seq(Segment \ {"exif"})
    BY EmptySeq
  <2>. HIDE DEF k
  <2>. QED BY <2>1, <2>2
<1>3. ASSUME NEW n \in Good PROVE n + 1 \in Good
  <2>1. SUFFICES ASSUME n + 1 <= Len(s) PROVE k[n+1] \in Seq(Segment \ {"exif"})
    OBVIOUS
  <2>2. k[n] \in Seq(Segment \ {"exif"}) /\ n + 1 \in 1..Len(s) /\ s[n+1] \in Segment
    BY <1>1, <2>1
  <2>3. k[n+1] = IF s[n+1] = "exif" THEN k[n] ELSE Append(k[n], s[n+1])
    BY <2>2, KeepSteps
  <2>. HIDE DEF k
  <2>. QED BY <2>2, <2>3, AppendProperties
<1>4. Good = Nat
  <2>. HIDE DEF Good
  <2>0. Good \in SUBSET Nat BY DEF Good
  <2>. QED BY <1>2, <1>3, <2>0, NatSetInduction
<1>. QED BY <1>1, <1>4

\* A sequence without one is kept as it is.
LEMMA KeepKeeps ==
  ASSUME NEW s \in Seq(Segment \ {"exif"})
  PROVE  Keep(s)[Len(s)] = s
<1>. DEFINE k == Keep(s)
            Good == {n \in Nat : n <= Len(s) => k[n] = SubSeq(s, 1, n)}
<1>0. s \in Seq(Segment)
  BY SeqMonotonic
<1>1. Len(s) \in Nat /\ DOMAIN s = 1..Len(s) /\ \A i \in 1..Len(s) : s[i] \in Segment \ {"exif"}
  BY LenProperties
<1>2. 0 \in Good
  <2>1. k[0] = <<>>
    BY <1>0, KeepSteps
  <2>2. SubSeq(s, 1, 0) = <<>>
    BY SubSeqEmpty
  <2>. HIDE DEF k
  <2>. QED BY <2>1, <2>2
<1>3. ASSUME NEW n \in Good PROVE n + 1 \in Good
  <2>1. SUFFICES ASSUME n + 1 <= Len(s) PROVE k[n+1] = SubSeq(s, 1, n + 1)
    OBVIOUS
  <2>2. k[n] = SubSeq(s, 1, n) /\ n + 1 \in 1..Len(s) /\ s[n+1] \in Segment \ {"exif"}
    BY <1>1, <2>1
  <2>3. k[n+1] = Append(k[n], s[n+1])
    <3>1. k[n+1] = IF s[n+1] = "exif" THEN k[(n+1)-1] ELSE Append(k[(n+1)-1], s[n+1])
      BY <1>0, <2>2, KeepSteps
    <3>. HIDE DEF k
    <3>. QED BY <2>2, <3>1
  <2>4. SubSeq(s, 1, n + 1) = Append(SubSeq(s, 1, n), s[n+1])
    <3>1. SubSeq(s, 1, n + 1) = SubSeq(s, 1, n) \o <<s[n+1]>>
      BY <1>1, <2>2, SubSeqRecursiveSecond
    <3>2. SubSeq(s, 1, n) \in Seq(Segment)
      <4>1. \A i \in 1..n : s[i] \in Segment
        BY <1>1, <2>2
      <4>. QED BY <4>1, SubSeqProperties
    <3>. QED BY <2>2, <3>1, <3>2, AppendIsConcat
  <2>. HIDE DEF k
  <2>. QED BY <2>2, <2>3, <2>4
<1>4. Good = Nat
  <2>. HIDE DEF Good
  <2>0. Good \in SUBSET Nat BY DEF Good
  <2>. QED BY <1>2, <1>3, <2>0, NatSetInduction
<1>. QED BY <1>1, <1>4, SubSeqFull

\* Stripping a picture twice is stripping it once.
LEMMA StrippedImage ==
  ASSUME NEW p \in Image
  PROVE  /\ Stripped(p) \in Image /\ Stripped(p).type = p.type
         /\ Stripped(Stripped(p)) = Stripped(p)
         /\ p.type = "image/jpeg" => Stripped(p).segments \in Seq(Segment \ {"exif"})
<1>. DEFINE s == p.segments
            t == Keep(s)[Len(s)]
<1>1. CASE p.type # "image/jpeg"
  BY <1>1 DEF Stripped
<1>2. CASE p.type = "image/jpeg"
  <2>1. s \in Seq(Segment)
    BY DEF Image
  <2>2. t \in Seq(Segment \ {"exif"})
    BY <2>1, KeepStrips
  <2>3. t \in Seq(Segment)
    <3>. HIDE DEF t
    <3>. QED BY <2>2, SeqMonotonic
  <2>4. Keep(t)[Len(t)] = t
    BY <2>2, KeepKeeps
  <2>5. Stripped(p) = [p EXCEPT !.segments = t]
    BY <1>2 DEF Stripped
  <2>. HIDE DEF s, t
  <2>6. Stripped(p).segments = t /\ Stripped(p).type = p.type /\ Stripped(p) \in Image
    BY <2>3, <2>5 DEF Image
  <2>7. Stripped(Stripped(p)) = [Stripped(p) EXCEPT !.segments = t]
    BY <1>2, <2>4, <2>6 DEF Stripped
  <2>8. Stripped(Stripped(p)) = Stripped(p)
    BY <2>5, <2>7 DEF Image
  <2>. QED BY <2>2, <2>6, <2>8
<1>. QED BY <1>1, <1>2

\* The same of everything that an object may hold.
LEMMA StrippedBytes ==
  ASSUME NEW b \in Bytes
  PROVE  /\ b \in Image /\ Stripped(b) \in Bytes
         /\ Stripped(Stripped(b)) = Stripped(b) /\ Stripped(b).type = b.type
         /\ b.type = "image/jpeg" =>
              \A i \in 1..Len(Stripped(b).segments) : Stripped(b).segments[i] # "exif"
<1>1. \A p \in Photos : p \in Image
  BY MediaAssumption
<1>2. \E p \in Photos : b \in {p, Stripped(p)}
  BY DEF Bytes
<1>3. b \in Image /\ Stripped(b) \in Bytes
  BY <1>1, <1>2, StrippedImage DEF Bytes
<1>4. b.type = "image/jpeg" =>
        \A i \in 1..Len(Stripped(b).segments) : Stripped(b).segments[i] # "exif"
  <2>1. SUFFICES ASSUME b.type = "image/jpeg", NEW i \in 1..Len(Stripped(b).segments)
                 PROVE  Stripped(b).segments[i] # "exif"
    OBVIOUS
  <2>2. Stripped(b).segments \in Seq(Segment \ {"exif"})
    BY <1>3, <2>1, StrippedImage
  <2>3. Stripped(b).segments[i] \in Segment \ {"exif"}
    BY <2>2, ElementOfSeq
  <2>. QED BY <2>3
<1>. QED BY <1>3, <1>4, StrippedImage

\* Only of a JPEG does the code know that it holds no Exif segment.
LEMMA PolicyOfBytes ==
  ASSUME NEW b \in Bytes
  PROVE  /\ PolicyOf(b) \in {"no_exif_found", "exif_app1_stripped", "not_applicable",
                             "unstripped_pending"}
         /\ PolicyOf(b) \in {"no_exif_found", "exif_app1_stripped"} => b.type = "image/jpeg"
BY DEF PolicyOf

-----------------------------------------------------------------------------
(* The inductive invariant *)

\* A request that is past the comparison of the digest.
Past(q) == requests[q].pc \in {"strip", "ready", "reject"}

\* What a request carries at each of its steps.
ControlInv ==
  /\ \A q \in Requests :
       /\ At(q, "put") => requests[q].photo \in Photos
       /\ At(q, "read") => requests[q].photo \in sent
       /\ Past(q) => requests[q].bytes \in Bytes
       /\ Completing(q) => object \in Bytes
  /\ IsFiniteSet(sent)

\* Without an upload after a completion has begun, the object that a completion
\* has read is still there, as it was or stripped.
ObjectInv ==
  ~late => \A q \in Requests :
    /\ Past(q) => object \in {requests[q].bytes, Stripped(requests[q].bytes)}
    /\ At(q, "ready") => object = Stripped(requests[q].bytes)
    /\ At(q, "reject") => object.type # media.type
    /\ At(q, "strip") \/ At(q, "ready") => object.type = media.type
    /\ At(q, "link") => media.status = "ready"

\* ... and a row marked ready describes the object.
ReadyInv ==
  ~late =>
    /\ media.status = "ready" =>
         /\ object \in Bytes /\ object = media.bytes /\ Stripped(object) = object
         /\ object.type = media.type
         /\ media.policy \in {"no_exif_found", "exif_app1_stripped"} =>
              object.type = "image/jpeg"
    /\ links => media.status = "ready"

\* With no failure and no overlap either, one completion at a time runs, the
\* object is what a client sent, and a refused digest is that of another photo.
Undisturbed == ~late /\ ~died /\ ~overlapped
UntouchedInv ==
  Undisturbed =>
    /\ \A q, r \in Requests : Completing(q) /\ Completing(r) => q = r
    /\ (\E q \in Requests : Completing(q)) => media.status = "pending"
    /\ media.status \in {"absent", "unkeyed", "pending"} /\ object # None
         /\ (\A q \in Requests : ~At(q, "ready")) => object \in sent
    /\ mismatch => \E p, r \in sent : p # r

IInv == TypeOK /\ ControlInv /\ ObjectInv /\ ReadyInv /\ UntouchedInv

LEMMA IInvImpliesProperties == IInv => ReadyMatchesObject /\ RefusalHasACause
<1> SUFFICES ASSUME IInv PROVE ReadyMatchesObject /\ RefusalHasACause
  OBVIOUS
<1>1. ReadyMatchesObject
  BY StrippedBytes DEF IInv, ReadyInv, ReadyMatchesObject
<1>2. RefusalHasACause
  <2>1. SUFFICES ASSUME mismatch, Cardinality(sent) = 1, Undisturbed PROVE FALSE
    BY DEF RefusalHasACause, Undisturbed
  <2>2. PICK p, r \in sent : p # r
    BY <2>1 DEF IInv, UntouchedInv
  <2>3. \E x : sent = {x}
    BY <2>1, FS_Singleton DEF IInv, ControlInv
  <2>. QED BY <2>2, <2>3
<1>. QED BY <1>1, <1>2

-----------------------------------------------------------------------------
(* The steps *)

LEMMA InitIInv == Init => IInv
<1> SUFFICES ASSUME Init PROVE IInv
  OBVIOUS
<1>1. TypeOK
  <2>1. media \in MediaRow
    BY DEF Init, MediaRow
  <2>2. requests \in [Requests -> RequestType]
    BY DEF Init, RequestType, IdleRequest
  <2>3. received \in 0..MaxRequests /\ sent \subseteq Photos
    BY MediaAssumption DEF Init
  <2>4. {links, opening, late, died, overlapped, mismatch} \subseteq BOOLEAN
    BY DEF Init
  <2>. QED BY <2>1, <2>2, <2>3, <2>4 DEF Init, TypeOK
<1>2. ControlInv
  BY FS_EmptySet DEF Init, ControlInv, At, Past, Completing, IdleRequest
<1>3. ObjectInv /\ ReadyInv /\ UntouchedInv
  BY DEF Init, ObjectInv, ReadyInv, UntouchedInv, At, Past, Completing, IdleRequest
<1>. QED BY <1>1, <1>2, <1>3 DEF IInv

LEMMA ReceiveTypes ==
  ASSUME TypeOK, NEW q \in Requests, NEW pc \in {"put", "read", "link"},
         NEW p \in Photos \cup {None}, Receive(q, pc, p)
  PROVE  requests' \in [Requests -> RequestType] /\ received' \in 0..MaxRequests
<1>1. [IdleRequest EXCEPT !.pc = pc, !.photo = p] \in RequestType
  BY DEF IdleRequest, RequestType
<1>2. requests' \in [Requests -> RequestType]
  BY <1>1 DEF TypeOK, Receive
<1>3. received' \in 0..MaxRequests
  BY MediaAssumption DEF TypeOK, Receive
<1>. QED BY <1>2, <1>3

LEMMA EndTypes ==
  ASSUME TypeOK, NEW q \in Requests, End(q)
  PROVE  requests' \in [Requests -> RequestType]
<1>1. IdleRequest \in RequestType
  BY DEF IdleRequest, RequestType
<1>. QED BY <1>1 DEF TypeOK, End

LEMMA CreateMediaUploadStep ==
  ASSUME IInv, CreateMediaUpload
  PROVE  IInv'
<1>. USE DEF CreateMediaUpload, End, IdleRequest, history
<1>1. TypeOK'
  BY StrippedBytes, PolicyOfBytes DEF IInv, TypeOK, ControlInv, At, Past, MediaRow, RequestType
<1>2. ControlInv'
  BY StrippedBytes, FS_AddElement
     DEF IInv, TypeOK, ControlInv, RequestType, At, Past, Completing
<1>3. ObjectInv'
  BY StrippedBytes
     DEF IInv, TypeOK, ControlInv, ObjectInv, ReadyInv, RequestType, At, Past, Completing
<1>4. ReadyInv'
  BY StrippedBytes, PolicyOfBytes
     DEF IInv, TypeOK, MediaRow, ControlInv, ObjectInv, ReadyInv, At, Past, Completing
<1>5. UntouchedInv'
  BY
     DEF IInv, TypeOK, ControlInv, ObjectInv, UntouchedInv, Undisturbed,
         RequestType, At, Past, Completing
<1>. QED BY <1>1, <1>2, <1>3, <1>4, <1>5 DEF IInv

LEMMA ProjectOpeningStep ==
  ASSUME IInv, ProjectOpening
  PROVE  IInv'
<1>. USE DEF ProjectOpening, End, IdleRequest, history
<1>1. TypeOK'
  BY StrippedBytes, PolicyOfBytes DEF IInv, TypeOK, ControlInv, At, Past, MediaRow, RequestType
<1>2. ControlInv'
  BY StrippedBytes, FS_AddElement
     DEF IInv, TypeOK, ControlInv, RequestType, At, Past, Completing
<1>3. ObjectInv'
  BY StrippedBytes
     DEF IInv, TypeOK, ControlInv, ObjectInv, ReadyInv, RequestType, At, Past, Completing
<1>4. ReadyInv'
  BY StrippedBytes, PolicyOfBytes
     DEF IInv, TypeOK, MediaRow, ControlInv, ObjectInv, ReadyInv, At, Past, Completing
<1>5. UntouchedInv'
  BY
     DEF IInv, TypeOK, ControlInv, ObjectInv, UntouchedInv, Undisturbed,
         RequestType, At, Past, Completing
<1>. QED BY <1>1, <1>2, <1>3, <1>4, <1>5 DEF IInv

LEMMA BeginPutStep ==
  ASSUME IInv, NEW q \in Requests, NEW p \in Photos, BeginPut(q, p)
  PROVE  IInv'
<1>. USE DEF BeginPut, Receive, End, IdleRequest, history
<1>1. TypeOK'
  BY ReceiveTypes DEF IInv, TypeOK
<1>2. ControlInv'
  BY StrippedBytes, FS_AddElement
     DEF IInv, TypeOK, ControlInv, RequestType, At, Past, Completing
<1>3. ObjectInv'
  BY StrippedBytes
     DEF IInv, TypeOK, ControlInv, ObjectInv, ReadyInv, RequestType, At, Past, Completing
<1>4. ReadyInv'
  BY StrippedBytes, PolicyOfBytes
     DEF IInv, TypeOK, MediaRow, ControlInv, ObjectInv, ReadyInv, At, Past, Completing
<1>5. UntouchedInv'
  BY
     DEF IInv, TypeOK, ControlInv, ObjectInv, UntouchedInv, Undisturbed,
         RequestType, At, Past, Completing
<1>. QED BY <1>1, <1>2, <1>3, <1>4, <1>5 DEF IInv

LEMMA BeginCompleteStep ==
  ASSUME IInv, NEW q \in Requests, NEW p \in Photos, BeginComplete(q, p)
  PROVE  IInv'
<1>. USE DEF BeginComplete, Receive, Completable, End, IdleRequest, history
<1>1. TypeOK'
  BY ReceiveTypes DEF IInv, TypeOK
<1>2. ControlInv'
  BY StrippedBytes, FS_AddElement
     DEF IInv, TypeOK, ControlInv, RequestType, At, Past, Completing
<1>3. ObjectInv'
  BY StrippedBytes
     DEF IInv, TypeOK, ControlInv, ObjectInv, ReadyInv, RequestType, At, Past, Completing
<1>4. ReadyInv'
  BY StrippedBytes, PolicyOfBytes
     DEF IInv, TypeOK, MediaRow, ControlInv, ObjectInv, ReadyInv, At, Past, Completing
<1>5. UntouchedInv'
  BY
     DEF IInv, TypeOK, ControlInv, ObjectInv, UntouchedInv, Undisturbed,
         RequestType, At, Past, Completing
<1>. QED BY <1>1, <1>2, <1>3, <1>4, <1>5 DEF IInv

LEMMA StoreBytesStep ==
  ASSUME IInv, NEW q \in Requests, StoreBytes(q)
  PROVE  IInv'
<1>. USE DEF StoreBytes, End, IdleRequest, history
<1>0. requests[q].photo \in Photos
  BY DEF IInv, ControlInv, At
<1>1. TypeOK'
  <2>1. object' \in Bytes /\ sent' \subseteq Photos
    BY <1>0 DEF IInv, TypeOK, Bytes
  <2>2. late' \in BOOLEAN
    BY DEF IInv, TypeOK
  <2>. QED BY <2>1, <2>2, EndTypes DEF IInv, TypeOK
<1>2. ControlInv'
  <2>1. IsFiniteSet(sent')
    BY FS_AddElement DEF IInv, ControlInv
  <2>2. object' \in Bytes
    BY <1>0 DEF Bytes
  <2>. QED BY <2>1, <2>2 DEF IInv, TypeOK, ControlInv, RequestType, At, Past, Completing
<1>3. ObjectInv'
  BY StrippedBytes
     DEF IInv, TypeOK, ControlInv, ObjectInv, ReadyInv, RequestType, At, Past, Completing
<1>4. ReadyInv'
  BY StrippedBytes, PolicyOfBytes
     DEF IInv, TypeOK, MediaRow, ControlInv, ObjectInv, ReadyInv, At, Past, Completing
<1>5. UntouchedInv'
  BY
     DEF IInv, TypeOK, ControlInv, ObjectInv, UntouchedInv, Undisturbed,
         RequestType, At, Past, Completing
<1>. QED BY <1>1, <1>2, <1>3, <1>4, <1>5 DEF IInv

LEMMA ReadObjectStep ==
  ASSUME IInv, NEW q \in Requests, ReadObject(q)
  PROVE  IInv'
<1>. DEFINE read == [requests[q] EXCEPT !.bytes = object,
                       !.pc = IF object.type = media.type THEN "strip" ELSE "reject"]
<1>0. object \in Bytes /\ requests[q].photo \in sent /\ requests[q] \in RequestType
      /\ requests[q].pc = "read"
      /\ UNCHANGED <<driver, media, object, links, opening, received, sent, late, died,
                     overlapped>>
  BY DEF IInv, TypeOK, ControlInv, Completing, At, ReadObject
<1>1. CASE DigestMatches(q)
  <2>1. requests' = [requests EXCEPT ![q] = read] /\ UNCHANGED mismatch
    BY <1>1 DEF ReadObject
  <2>2. read \in RequestType /\ read.bytes = object
        /\ read.pc = IF object.type = media.type THEN "strip" ELSE "reject"
    BY <1>0 DEF RequestType
  <2>. HIDE DEF read
  <2>3. TypeOK'
    BY <1>0, <2>1, <2>2 DEF IInv, TypeOK
  <2>4. ControlInv'
    BY <1>0, <2>1, <2>2 DEF IInv, TypeOK, ControlInv, At, Past, Completing
  <2>5. ObjectInv'
    BY <1>0, <2>1, <2>2 DEF IInv, TypeOK, ObjectInv, At, Past
  <2>6. ReadyInv'
    BY <1>0, <2>1 DEF IInv, ReadyInv
  <2>7. UntouchedInv'
    BY <1>0, <2>1, <2>2 DEF IInv, TypeOK, UntouchedInv, Undisturbed, At, Completing
  <2>. QED BY <2>3, <2>4, <2>5, <2>6, <2>7 DEF IInv
<1>2. CASE ~DigestMatches(q)
  <2>1. End(q) /\ mismatch' = TRUE
    BY <1>2 DEF ReadObject
  <2>. USE DEF End, IdleRequest
  <2>2. TypeOK'
    BY <1>0, <2>1, EndTypes DEF IInv, TypeOK
  <2>3. ControlInv'
    BY <1>0, <2>1 DEF IInv, TypeOK, ControlInv, At, Past, Completing
  <2>4. ObjectInv' /\ ReadyInv'
    BY <1>0, <2>1 DEF IInv, TypeOK, ObjectInv, ReadyInv, At, Past
  <2>5. UntouchedInv'
    <3>0. object # None
      BY <1>0, StrippedBytes, MediaAssumption
    <3>1. SUFFICES ASSUME Undisturbed PROVE UntouchedInv'
      BY <1>0 DEF UntouchedInv, Undisturbed
    <3>2. Completing(q) /\ media.status = "pending" /\ \A r \in Requests : ~At(r, "ready")
      BY <1>0, <3>1 DEF IInv, UntouchedInv, At, Completing
    <3>3. object \in sent /\ object # requests[q].photo
      BY <1>0, <1>2, <3>0, <3>1, <3>2 DEF IInv, UntouchedInv, DigestMatches
    <3>. QED
      BY <1>0, <2>1, <3>1, <3>3 DEF IInv, TypeOK, UntouchedInv, Undisturbed, At, Completing
  <2>. QED BY <2>2, <2>3, <2>4, <2>5 DEF IInv
<1>. QED BY <1>1, <1>2

LEMMA MarkRejectedStep ==
  ASSUME IInv, NEW q \in Requests, MarkRejected(q)
  PROVE  IInv'
<1>. USE DEF MarkRejected, End, IdleRequest, history
<1>1. TypeOK'
  BY StrippedBytes, PolicyOfBytes DEF IInv, TypeOK, ControlInv, At, Past, MediaRow, RequestType
<1>2. ControlInv'
  BY StrippedBytes, FS_AddElement
     DEF IInv, TypeOK, ControlInv, RequestType, At, Past, Completing
<1>3. ObjectInv'
  BY StrippedBytes
     DEF IInv, TypeOK, ControlInv, ObjectInv, ReadyInv, RequestType, At, Past, Completing
<1>4. ReadyInv'
  BY StrippedBytes, PolicyOfBytes
     DEF IInv, TypeOK, MediaRow, ControlInv, ObjectInv, ReadyInv, At, Past, Completing
<1>5. UntouchedInv'
  BY
     DEF IInv, TypeOK, ControlInv, ObjectInv, UntouchedInv, Undisturbed,
         RequestType, At, Past, Completing
<1>. QED BY <1>1, <1>2, <1>3, <1>4, <1>5 DEF IInv

LEMMA StoreStrippedStep ==
  ASSUME IInv, NEW q \in Requests, StoreStripped(q)
  PROVE  IInv'
<1>. USE DEF StoreStripped, Goto, Finished, End, IdleRequest, history
<1>1. TypeOK'
  BY StrippedBytes, PolicyOfBytes DEF IInv, TypeOK, ControlInv, At, Past, MediaRow, RequestType
<1>2. ControlInv'
  BY StrippedBytes, FS_AddElement
     DEF IInv, TypeOK, ControlInv, RequestType, At, Past, Completing
<1>3. ObjectInv'
  BY StrippedBytes
     DEF IInv, TypeOK, ControlInv, ObjectInv, ReadyInv, RequestType, At, Past, Completing
<1>4. ReadyInv'
  BY StrippedBytes, PolicyOfBytes
     DEF IInv, TypeOK, MediaRow, ControlInv, ObjectInv, ReadyInv, At, Past, Completing
<1>5. UntouchedInv'
  BY
     DEF IInv, TypeOK, ControlInv, ObjectInv, UntouchedInv, Undisturbed,
         RequestType, At, Past, Completing
<1>. QED BY <1>1, <1>2, <1>3, <1>4, <1>5 DEF IInv

LEMMA MarkReadyStep ==
  ASSUME IInv, NEW q \in Requests, MarkReady(q)
  PROVE  IInv'
<1>. USE DEF MarkReady, End, IdleRequest, history
<1>1. TypeOK'
  BY StrippedBytes, PolicyOfBytes DEF IInv, TypeOK, ControlInv, At, Past, MediaRow, RequestType
<1>2. ControlInv'
  BY StrippedBytes, FS_AddElement
     DEF IInv, TypeOK, ControlInv, RequestType, At, Past, Completing
<1>3. ObjectInv'
  BY StrippedBytes
     DEF IInv, TypeOK, ControlInv, ObjectInv, ReadyInv, RequestType, At, Past, Completing
<1>4. ReadyInv'
  BY StrippedBytes, PolicyOfBytes
     DEF IInv, TypeOK, MediaRow, ControlInv, ObjectInv, ReadyInv, At, Past, Completing
<1>5. UntouchedInv'
  BY
     DEF IInv, TypeOK, ControlInv, ObjectInv, UntouchedInv, Undisturbed,
         RequestType, At, Past, Completing
<1>. QED BY <1>1, <1>2, <1>3, <1>4, <1>5 DEF IInv

LEMMA BeginLinkStep ==
  ASSUME IInv, NEW q \in Requests, BeginLink(q)
  PROVE  IInv'
<1>. USE DEF BeginLink, Receive, Linkable, End, IdleRequest, history
<1>1. TypeOK'
  BY ReceiveTypes DEF IInv, TypeOK
<1>2. ControlInv'
  BY StrippedBytes, FS_AddElement
     DEF IInv, TypeOK, ControlInv, RequestType, At, Past, Completing
<1>3. ObjectInv'
  BY StrippedBytes
     DEF IInv, TypeOK, ControlInv, ObjectInv, ReadyInv, RequestType, At, Past, Completing
<1>4. ReadyInv'
  BY StrippedBytes, PolicyOfBytes
     DEF IInv, TypeOK, MediaRow, ControlInv, ObjectInv, ReadyInv, At, Past, Completing
<1>5. UntouchedInv'
  BY
     DEF IInv, TypeOK, ControlInv, ObjectInv, UntouchedInv, Undisturbed,
         RequestType, At, Past, Completing
<1>. QED BY <1>1, <1>2, <1>3, <1>4, <1>5 DEF IInv

LEMMA CreateMediaLinkStep ==
  ASSUME IInv, NEW q \in Requests, CreateMediaLink(q)
  PROVE  IInv'
<1>. USE DEF CreateMediaLink, End, IdleRequest, history
<1>1. TypeOK'
  BY StrippedBytes, PolicyOfBytes DEF IInv, TypeOK, ControlInv, At, Past, MediaRow, RequestType
<1>2. ControlInv'
  BY StrippedBytes, FS_AddElement
     DEF IInv, TypeOK, ControlInv, RequestType, At, Past, Completing
<1>3. ObjectInv'
  BY StrippedBytes
     DEF IInv, TypeOK, ControlInv, ObjectInv, ReadyInv, RequestType, At, Past, Completing
<1>4. ReadyInv'
  BY StrippedBytes, PolicyOfBytes
     DEF IInv, TypeOK, MediaRow, ControlInv, ObjectInv, ReadyInv, At, Past, Completing
<1>5. UntouchedInv'
  BY
     DEF IInv, TypeOK, ControlInv, ObjectInv, UntouchedInv, Undisturbed,
         RequestType, At, Past, Completing
<1>. QED BY <1>1, <1>2, <1>3, <1>4, <1>5 DEF IInv

LEMMA RequestDiesStep ==
  ASSUME IInv, NEW q \in Requests, RequestDies(q)
  PROVE  IInv'
<1>. USE DEF RequestDies, End, IdleRequest, history
<1>1. TypeOK'
  BY StrippedBytes, PolicyOfBytes DEF IInv, TypeOK, ControlInv, At, Past, MediaRow, RequestType
<1>2. ControlInv'
  BY StrippedBytes, FS_AddElement
     DEF IInv, TypeOK, ControlInv, RequestType, At, Past, Completing
<1>3. ObjectInv'
  BY StrippedBytes
     DEF IInv, TypeOK, ControlInv, ObjectInv, ReadyInv, RequestType, At, Past, Completing
<1>4. ReadyInv'
  BY StrippedBytes, PolicyOfBytes
     DEF IInv, TypeOK, MediaRow, ControlInv, ObjectInv, ReadyInv, At, Past, Completing
<1>5. UntouchedInv'
  BY
     DEF IInv, TypeOK, ControlInv, ObjectInv, UntouchedInv, Undisturbed,
         RequestType, At, Past, Completing
<1>. QED BY <1>1, <1>2, <1>3, <1>4, <1>5 DEF IInv

LEMMA NextIInv == IInv /\ [Next]_vars => IInv'
<1> SUFFICES ASSUME IInv, [Next]_vars PROVE IInv'
  OBVIOUS
<1>1. CASE UNCHANGED vars
  BY <1>1 DEF vars, history, IInv, TypeOK, ControlInv, ObjectInv, ReadyInv, UntouchedInv,
             Undisturbed, At, Past, Completing
<1>2. CASE CreateMediaUpload \/ ProjectOpening
  BY <1>2, CreateMediaUploadStep, ProjectOpeningStep
<1>3. ASSUME NEW q \in Requests, RequestStep(q) PROVE IInv'
  BY <1>3, BeginPutStep, BeginCompleteStep, StoreBytesStep, ReadObjectStep, MarkRejectedStep,
     StoreStrippedStep, MarkReadyStep, BeginLinkStep, CreateMediaLinkStep, RequestDiesStep
     DEF RequestStep
<1>. QED BY <1>1, <1>2, <1>3 DEF Next

-----------------------------------------------------------------------------
(* Theorems about MediaLifecycle *)

\* The inductive invariant holds in every reachable state.
THEOREM MediaInvariance == Spec => []IInv
  BY InitIInv, NextIInv, PTL DEF Spec

\* The media row, the object and the requests keep their declared shape, however
\* uploads, completions and links overlap or die.
THEOREM MediaTypeCorrect == Spec => []TypeOK
<1>1. IInv => TypeOK
  BY DEF IInv
<1>. QED BY <1>1, MediaInvariance, PTL

\* Unless an upload came after a completion had begun, a row that /complete has
\* marked ready names the bytes, the type and the stripping of the stored object.
THEOREM ReadyMediaMatches == Spec => []ReadyMatchesObject
  BY MediaInvariance, IInvImpliesProperties, PTL

\* /complete answers checksum_mismatch only if two photos were sent, a request
\* died, two overlapped or an upload came late.
THEOREM RefusalsAreCaused == Spec => []RefusalHasACause
  BY MediaInvariance, IInvImpliesProperties, PTL

-----------------------------------------------------------------------------
(* The recursions of the model *)

Point == Int \X Int
Span == Point \X Point

ClusterStep(segments) ==
  [x \in Seq(Point) \X (1..Len(segments)) |->
     WithNode(WithNode(x[1], segments[x[2]][1]), segments[x[2]][2])]

LEMMA WithNodeTyped ==
  ASSUME NEW nodes \in Seq(Point), NEW p \in Point
  PROVE  WithNode(nodes, p) \in Seq(Point)
BY AppendProperties DEF WithNode

LEMMA ClustersSteps ==
  ASSUME NEW segments \in Seq(Span)
  PROVE  /\ Clusters(segments) \in [0..Len(segments) -> Seq(Point)]
         /\ Clusters(segments)[0] = <<>>
         /\ \A i \in 1..Len(segments) : Clusters(segments)[i] =
              WithNode(WithNode(Clusters(segments)[i-1], segments[i][1]), segments[i][2])
<1>. DEFINE S == Seq(Point)
            N == Len(segments)
            Step(nodes, i) == WithNode(WithNode(nodes, segments[i][1]), segments[i][2])
            step == ClusterStep(segments)
            Is(k) == k = [i \in 0..N |-> IF i = 0 THEN <<>> ELSE Step(k[i-1], i)]
            g == Clusters(segments)
<1>1. N \in Nat /\ \A i \in 1..N : segments[i] \in Span
  BY LenProperties
<1>2. <<>> \in S
  BY EmptySeq
<1>3. \A s \in S, i \in 1..N : Step(s, i) \in S /\ step[<<s, i>>] = Step(s, i)
  BY <1>1, WithNodeTyped DEF ClusterStep, Span
<1>4. step \in [S \X (1..N) -> S]
  BY <1>3 DEF ClusterStep
<1>5. g = CHOOSE k : Is(k)
  BY DEF Clusters
<1>. HIDE DEF S, N, step, Step, Is, g
<1>6. PICK f \in [0..N -> S] : Iterates(f, <<>>, step, N)
  BY <1>1, <1>2, <1>4, IteratesExist
<1>7. \A i \in 1..N : i \in 0..N /\ i - 1 \in 0..N /\ i # 0
  BY <1>1
<1>8. 0 \in 0..N /\ \A i \in 0..N : i = 0 \/ i \in 1..N
  BY <1>1
<1>9. Is(f)
  <2>1. \A i \in 1..N : f[i] = step[<<f[i-1], i>>] /\ f[i-1] \in S
    BY <1>6, <1>7 DEF Iterates
  <2>2. f[0] = <<>> /\ \A i \in 1..N : f[i] = Step(f[i-1], i)
    BY <1>3, <1>6, <1>8, <2>1 DEF Iterates
  <2>3. f = [i \in 0..N |-> f[i]]
    BY <1>6
  <2>. QED BY <1>8, <2>2, <2>3 DEF Is
<1>10. Is(g)
  BY <1>5, <1>9
<1>11. g[0] = <<>> /\ \A i \in 1..N : g[i] = Step(g[i-1], i)
  BY <1>7, <1>8, <1>10 DEF Is
<1>12. \A i \in 0..N : g[i] \in S
  <2>1. \A i \in 1..N : g[i-1] \in S => g[i] = step[<<g[i-1], i>>]
    BY <1>3, <1>11
  <2>. QED BY <1>1, <1>2, <1>4, <1>11, <2>1, IteratesTyped
<1>13. g \in [0..N -> S]
  BY <1>10, <1>12 DEF Is
<1>. QED BY <1>11, <1>13 DEF g, N, S, Step

Entry == [id : 1..MaxSurfaces, at : Segments]

LEMMA EnteredTyped ==
  ASSUME NEW entries \in Seq(Entry), NEW w \in Entry
  PROVE  Entered(entries, w) \in Seq(Entry)
<1>. DEFINE N == Len(entries)
            Nth(i) == IF entries[i].id = w.id THEN w ELSE entries[i]
<1>1. N \in Nat /\ DOMAIN entries = 1..N /\ \A i \in 1..N : entries[i] \in Entry
  BY LenProperties
<1>. HIDE DEF N
<1>2. [i \in 1..N |-> Nth(i)] \in Seq(Entry)
  <2>1. \A i \in 1..N : Nth(i) \in Entry
    BY <1>1
  <2>. HIDE DEF Nth
  <2>. QED BY <1>1, <2>1, IsASeq
<1>3. Append(entries, w) \in Seq(Entry)
  BY AppendProperties
<1>. QED BY <1>1, <1>2, <1>3 DEF Entered

PlacedStep ==
  [x \in Seq(Entry) \X (1..Len(walls)) |->
     IF IsPlaced(walls[x[2]]) THEN Entered(x[1], walls[x[2]]) ELSE x[1]]

LEMMA PlacedSteps ==
  ASSUME walls \in Seq(Wall)
  PROVE  Placed \in [0..Len(walls) -> Seq(Entry)]
<1>. DEFINE S == Seq(Entry)
            N == Len(walls)
            zero == <<>>
            Step(s, i) == IF IsPlaced(walls[i]) THEN Entered(s, walls[i]) ELSE s
            step == PlacedStep
            Is(k) == k = [i \in 0..N |-> IF i = 0 THEN zero ELSE Step(k[i-1], i)]
            g == Placed
<1>1. N \in Nat /\ \A i \in 1..N : IsPlaced(walls[i]) => walls[i] \in Entry
  <2>1. N \in Nat /\ \A i \in 1..N : walls[i] \in Wall
    BY LenProperties
  <2>2. ASSUME NEW w \in Wall, IsPlaced(w) PROVE w \in Entry
    <3>1. w = [id |-> w.id, at |-> w.at] /\ w.id \in 1..MaxSurfaces /\ w.at \in Segments
      BY <2>2 DEF Wall, IsPlaced
    <3>. QED BY <3>1 DEF Entry
  <2>. QED BY <2>1, <2>2
<1>2. zero \in S
  BY EmptySeq
<1>3. \A s \in S, i \in 1..N : Step(s, i) \in S /\ step[<<s, i>>] = Step(s, i)
  BY <1>1, EnteredTyped DEF PlacedStep
<1>4. step \in [S \X (1..N) -> S]
  BY <1>3 DEF PlacedStep
<1>5. g = CHOOSE k : Is(k)
  BY DEF Placed
<1>. HIDE DEF S, N, zero, step, Step, Is, g
<1>6. PICK f \in [0..N -> S] : Iterates(f, zero, step, N)
  BY <1>1, <1>2, <1>4, IteratesExist
<1>7. \A i \in 1..N : i \in 0..N /\ i - 1 \in 0..N /\ i # 0
  BY <1>1
<1>8. 0 \in 0..N /\ \A i \in 0..N : i = 0 \/ i \in 1..N
  BY <1>1
<1>9. Is(f)
  <2>1. \A i \in 1..N : f[i] = step[<<f[i-1], i>>] /\ f[i-1] \in S
    BY <1>6, <1>7 DEF Iterates
  <2>2. f[0] = zero /\ \A i \in 1..N : f[i] = Step(f[i-1], i)
    BY <1>3, <1>6, <1>8, <2>1 DEF Iterates
  <2>3. f = [i \in 0..N |-> f[i]]
    BY <1>6
  <2>. QED BY <1>8, <2>2, <2>3 DEF Is
<1>10. Is(g)
  BY <1>5, <1>9
<1>11. g[0] = zero /\ \A i \in 1..N : g[i] = Step(g[i-1], i)
  BY <1>7, <1>8, <1>10 DEF Is
<1>12. \A i \in 0..N : g[i] \in S
  <2>1. \A i \in 1..N : g[i-1] \in S => g[i] = step[<<g[i-1], i>>]
    BY <1>3, <1>11
  <2>. QED BY <1>1, <1>2, <1>4, <1>11, <2>1, IteratesTyped
<1>13. g \in [0..N -> S]
  BY <1>10, <1>12 DEF Is
<1>. QED BY <1>13 DEF g, N, S

AreaStep(polygon) ==
  [x \in Int \X (1..Len(polygon)) |->
     x[1] + Cross(polygon[x[2]], polygon[Following(polygon, x[2])])]

LEMMA FollowingIndex ==
  ASSUME NEW polygon \in Seq(Point)
  PROVE  \A i \in 1..Len(polygon) :
           /\ Following(polygon, i) \in 1..Len(polygon)
           /\ Cross(polygon[i], polygon[Following(polygon, i)]) \in Int
<1>1. Len(polygon) \in Nat /\ \A i \in 1..Len(polygon) : polygon[i] \in Point
  BY LenProperties
<1>2. \A p, q \in Point : Cross(p, q) \in Int
  BY DEF Point, Cross
<1>3. \A i \in 1..Len(polygon) : Following(polygon, i) \in 1..Len(polygon)
  BY <1>1 DEF Following
<1>. QED BY <1>1, <1>2, <1>3

LEMMA AreasSteps ==
  ASSUME NEW polygon \in Seq(Point)
  PROVE  /\ Areas(polygon) \in [0..Len(polygon) -> Int]
         /\ Areas(polygon)[0] = 0
         /\ \A i \in 1..Len(polygon) : Areas(polygon)[i] =
              Areas(polygon)[i-1] + Cross(polygon[i], polygon[Following(polygon, i)])
<1>. DEFINE S == Int
            N == Len(polygon)
            zero == 0
            Step(s, i) == s + Cross(polygon[i], polygon[Following(polygon, i)])
            step == AreaStep(polygon)
            Is(k) == k = [i \in 0..N |-> IF i = 0 THEN zero ELSE Step(k[i-1], i)]
            g == Areas(polygon)
<1>1. N \in Nat /\ \A i \in 1..N : Cross(polygon[i], polygon[Following(polygon, i)]) \in Int
  BY LenProperties, FollowingIndex
<1>2. zero \in S
  BY Z3
<1>3. \A s \in S, i \in 1..N : Step(s, i) \in S /\ step[<<s, i>>] = Step(s, i)
  BY <1>1 DEF AreaStep
<1>4. step \in [S \X (1..N) -> S]
  BY <1>3 DEF AreaStep
<1>5. g = CHOOSE k : Is(k)
  BY DEF Areas
<1>. HIDE DEF S, N, zero, step, Step, Is, g
<1>6. PICK f \in [0..N -> S] : Iterates(f, zero, step, N)
  BY <1>1, <1>2, <1>4, IteratesExist
<1>7. \A i \in 1..N : i \in 0..N /\ i - 1 \in 0..N /\ i # 0
  BY <1>1
<1>8. 0 \in 0..N /\ \A i \in 0..N : i = 0 \/ i \in 1..N
  BY <1>1
<1>9. Is(f)
  <2>1. \A i \in 1..N : f[i] = step[<<f[i-1], i>>] /\ f[i-1] \in S
    BY <1>6, <1>7 DEF Iterates
  <2>2. f[0] = zero /\ \A i \in 1..N : f[i] = Step(f[i-1], i)
    BY <1>3, <1>6, <1>8, <2>1 DEF Iterates
  <2>3. f = [i \in 0..N |-> f[i]]
    BY <1>6
  <2>. QED BY <1>8, <2>2, <2>3 DEF Is
<1>10. Is(g)
  BY <1>5, <1>9
<1>11. g[0] = zero /\ \A i \in 1..N : g[i] = Step(g[i-1], i)
  BY <1>7, <1>8, <1>10 DEF Is
<1>12. \A i \in 0..N : g[i] \in S
  <2>1. \A i \in 1..N : g[i-1] \in S => g[i] = step[<<g[i-1], i>>]
    BY <1>3, <1>11
  <2>. QED BY <1>1, <1>2, <1>4, <1>11, <2>1, IteratesTyped
<1>13. g \in [0..N -> S]
  BY <1>10, <1>12 DEF Is
<1>. QED BY <1>11, <1>13 DEF g, N, S, zero, Step

\* Walks of a graph with corners 1..m.
Graphs(m) == Seq([a : 1..m, b : 1..m])
WalkType(edges, m) ==
  {w \in [used : SUBSET DOMAIN edges, order : Seq(1..m)] : w.order # <<>>}
Start(edges) == [used |-> {}, order |-> <<edges[1].a>>]

WalkStep(edges, m) ==
  [x \in WalkType(edges, m) \X (1..Len(edges)) |-> Walked(edges, x[1])]

LEMMA LeavingIndex ==
  ASSUME NEW m \in Nat, NEW edges \in Graphs(m), NEW used, NEW n
  PROVE  /\ Leaving(edges, used, n) \subseteq DOMAIN edges
         /\ Leaving(edges, used, n) # {} =>
              Min(Leaving(edges, used, n)) \in Leaving(edges, used, n)
<1>1. DOMAIN edges \subseteq Nat
  BY LenProperties DEF Graphs
<1>2. Leaving(edges, used, n) \subseteq DOMAIN edges
  BY DEF Leaving
<1>. QED BY <1>1, <1>2, MinIsLeast

LEMMA WalkedTyped ==
  ASSUME NEW m \in Nat, NEW edges \in Graphs(m), NEW w \in WalkType(edges, m)
  PROVE  Walked(edges, w) \in WalkType(edges, m)
<1>. DEFINE at == Last(w.order)
            next == Leaving(edges, w.used, at)
            i == Min(next)
            to == IF edges[i].a = at THEN edges[i].b ELSE edges[i].a
<1>1. CASE next = {}
  BY <1>1 DEF Walked
<1>2. CASE next # {}
  <2>1. i \in DOMAIN edges
    BY <1>2, LeavingIndex
  <2>2. edges[i] \in [a : 1..m, b : 1..m]
    BY <2>1, LenProperties, ElementOfSeq DEF Graphs
  <2>3. to \in 1..m
    BY <2>2
  <2>4. Walked(edges, w) = [used |-> w.used \cup {i}, order |-> Append(w.order, to)]
    BY <1>2 DEF Walked
  <2>5. w.used \subseteq DOMAIN edges /\ w.order \in Seq(1..m)
    BY DEF WalkType
  <2>. HIDE DEF at, next, i, to
  <2>6. Append(w.order, to) \in Seq(1..m) /\ Append(w.order, to) # <<>>
    BY <2>3, <2>5, AppendProperties
  <2>. QED BY <2>1, <2>4, <2>5, <2>6 DEF WalkType
<1>. QED BY <1>1, <1>2

LEMMA StartTyped ==
  ASSUME NEW m \in Nat, NEW edges \in Graphs(m), edges # <<>>
  PROVE  /\ Len(edges) \in Nat /\ 1 \in DOMAIN edges
         /\ edges[1].a \in 1..m /\ Start(edges) \in WalkType(edges, m)
<1>1. Len(edges) \in Nat \ {0} /\ DOMAIN edges = 1..Len(edges)
  BY EmptySeq, LenProperties DEF Graphs
<1>2. 1 \in 1..Len(edges)
  BY <1>1
<1>3. edges[1] \in [a : 1..m, b : 1..m]
  BY <1>2, ElementOfSeq DEF Graphs
<1>4. edges[1].a \in 1..m
  BY <1>3
<1>5. <<edges[1].a>> \in Seq(1..m) /\ <<edges[1].a>> # <<>>
  BY <1>4
<1>. QED BY <1>1, <1>2, <1>4, <1>5 DEF Start, WalkType

LEMMA WalksSteps ==
  ASSUME NEW m \in Nat, NEW edges \in Graphs(m), edges # <<>>
  PROVE  /\ Walks(edges) \in [0..Len(edges) -> WalkType(edges, m)]
         /\ Walks(edges)[0] = Start(edges)
         /\ \A i \in 1..Len(edges) : Walks(edges)[i] =
              Walked(edges, Walks(edges)[i-1])
<1>. DEFINE S == WalkType(edges, m)
            N == Len(edges)
            zero == Start(edges)
            Step(s, i) == Walked(edges, s)
            step == WalkStep(edges, m)
            Is(k) == k = [i \in 0..N |-> IF i = 0 THEN zero ELSE Step(k[i-1], i)]
            g == Walks(edges)
<1>1. N \in Nat
  BY StartTyped
<1>2. zero \in S
  BY StartTyped
<1>3. \A s \in S, i \in 1..N : Step(s, i) \in S /\ step[<<s, i>>] = Step(s, i)
  BY <1>1, WalkedTyped DEF WalkStep
<1>4. step \in [S \X (1..N) -> S]
  BY <1>3 DEF WalkStep
<1>5. g = CHOOSE k : Is(k)
  BY DEF Walks, Start
<1>. HIDE DEF S, N, zero, step, Step, Is, g
<1>6. PICK f \in [0..N -> S] : Iterates(f, zero, step, N)
  BY <1>1, <1>2, <1>4, IteratesExist
<1>7. \A i \in 1..N : i \in 0..N /\ i - 1 \in 0..N /\ i # 0
  BY <1>1
<1>8. 0 \in 0..N /\ \A i \in 0..N : i = 0 \/ i \in 1..N
  BY <1>1
<1>9. Is(f)
  <2>1. \A i \in 1..N : f[i] = step[<<f[i-1], i>>] /\ f[i-1] \in S
    BY <1>6, <1>7 DEF Iterates
  <2>2. f[0] = zero /\ \A i \in 1..N : f[i] = Step(f[i-1], i)
    BY <1>3, <1>6, <1>8, <2>1 DEF Iterates
  <2>3. f = [i \in 0..N |-> f[i]]
    BY <1>6
  <2>. QED BY <1>8, <2>2, <2>3 DEF Is
<1>10. Is(g)
  BY <1>5, <1>9
<1>11. g[0] = zero /\ \A i \in 1..N : g[i] = Step(g[i-1], i)
  BY <1>7, <1>8, <1>10 DEF Is
<1>12. \A i \in 0..N : g[i] \in S
  <2>1. \A i \in 1..N : g[i-1] \in S => g[i] = step[<<g[i-1], i>>]
    BY <1>3, <1>11
  <2>. QED BY <1>1, <1>2, <1>4, <1>11, <2>1, IteratesTyped
<1>13. g \in [0..N -> S]
  BY <1>10, <1>12 DEF Is
<1>. QED BY <1>11, <1>13 DEF g, N, S, zero, Step

-----------------------------------------------------------------------------
(* The corners *)

Covered(nodes, p) == NodeOf(nodes, p) # {}
Apart(nodes) == \A i, j \in DOMAIN nodes : Near(nodes[i], nodes[j]) => i = j

\* Being within the tolerance is reflexive and symmetric.
LEMMA NearItself ==
  ASSUME NEW p \in Point
  PROVE  Near(p, p)
<1>1. p[1] - p[1] = 0 /\ p[2] - p[2] = 0
  BY DEF Point
<1>. QED BY <1>1 DEF Near

LEMMA NearEither ==
  ASSUME NEW p \in Point, NEW q \in Point
  PROVE  Near(p, q) <=> Near(q, p)
<1>1. ASSUME NEW a \in Int, NEW b \in Int
      PROVE  (a - b) * (a - b) = (b - a) * (b - a)
  OBVIOUS
<1>2. p[1] \in Int /\ p[2] \in Int /\ q[1] \in Int /\ q[2] \in Int
  BY DEF Point
<1>3. /\ (p[1] - q[1]) * (p[1] - q[1]) = (q[1] - p[1]) * (q[1] - p[1])
      /\ (p[2] - q[2]) * (p[2] - q[2]) = (q[2] - p[2]) * (q[2] - p[2])
  BY <1>1, <1>2
<1>. QED BY <1>3 DEF Near

\* A point becomes a node unless one is near; no node is taken away.
LEMMA WithNodeCovers ==
  ASSUME NEW nodes \in Seq(Point), Apart(nodes), NEW p \in Point,
         NEW ends, p \in ends, \A i \in DOMAIN nodes : nodes[i] \in ends
  PROVE  /\ WithNode(nodes, p) \in Seq(Point) /\ Apart(WithNode(nodes, p))
         /\ \A i \in DOMAIN WithNode(nodes, p) : WithNode(nodes, p)[i] \in ends
         /\ Covered(WithNode(nodes, p), p)
         /\ \A q : Covered(nodes, q) => Covered(WithNode(nodes, p), q)
<1>. DEFINE t == Append(nodes, p)
<1>1. CASE NodeOf(nodes, p) # {}
  BY <1>1 DEF WithNode, Covered
<1>2. CASE NodeOf(nodes, p) = {}
  <2>1. WithNode(nodes, p) = t
    BY <1>2 DEF WithNode
  <2>2. t \in Seq(Point) /\ Len(t) = Len(nodes) + 1 /\ t[Len(nodes) + 1] = p
        /\ \A i \in 1..Len(nodes) : t[i] = nodes[i]
    BY AppendProperties
  <2>. HIDE DEF t
  <2>3. Len(nodes) \in Nat /\ DOMAIN nodes = 1..Len(nodes) /\ DOMAIN t = 1..(Len(nodes) + 1)
        /\ \A i \in 1..Len(nodes) : nodes[i] \in Point
    BY <2>2, LenProperties
  <2>4. \A i \in 1..Len(nodes) : ~Near(nodes[i], p) /\ ~Near(p, nodes[i])
    BY <1>2, <2>3, NearEither DEF NodeOf
  <2>5. Apart(t)
    <3>1. SUFFICES ASSUME NEW i \in 1..(Len(nodes) + 1), NEW j \in 1..(Len(nodes) + 1),
                          Near(t[i], t[j])
                   PROVE  i = j
      BY <2>3 DEF Apart
    <3>2. /\ i \in 1..Len(nodes) \/ i = Len(nodes) + 1
          /\ j \in 1..Len(nodes) \/ j = Len(nodes) + 1
      BY <2>3
    <3>3. ASSUME i \in 1..Len(nodes), j \in 1..Len(nodes) PROVE i = j
      <4>1. Near(nodes[i], nodes[j])
        BY <2>2, <3>1, <3>3
      <4>. QED BY <2>3, <3>3, <4>1 DEF Apart
    <3>. QED BY <2>2, <2>4, <3>1, <3>2, <3>3
  <2>6. Covered(t, p)
    <3>1. Len(nodes) + 1 \in NodeOf(t, p)
      BY <2>2, <2>3, NearItself DEF NodeOf
    <3>. QED BY <3>1 DEF Covered
  <2>7. \A q : Covered(nodes, q) => Covered(t, q)
    <3>1. \A q : NodeOf(nodes, q) \subseteq NodeOf(t, q)
      BY <2>2, <2>3 DEF NodeOf
    <3>. QED BY <3>1 DEF Covered
  <2>8. \A i \in DOMAIN t : t[i] \in ends
    <3>1. \A i \in DOMAIN t : i \in 1..Len(nodes) \/ i = Len(nodes) + 1
      BY <2>3
    <3>. QED BY <2>2, <2>3, <3>1
  <2>. QED BY <2>1, <2>2, <2>5, <2>6, <2>7, <2>8
<1>. QED BY <1>1, <1>2

\* The nodes are ends of segments, no two of them near, and every end has one.
LEMMA NodesCover ==
  ASSUME NEW segments \in Seq(Span)
  PROVE  /\ Nodes(segments) \in Seq(Point) /\ Apart(Nodes(segments))
         /\ \A n \in DOMAIN Nodes(segments) : Nodes(segments)[n] \in Ends(segments)
         /\ \A i \in 1..Len(segments) : /\ Covered(Nodes(segments), segments[i][1])
                                        /\ Covered(Nodes(segments), segments[i][2])
<1>. DEFINE N == Len(segments)
            ends == Ends(segments)
            k == Clusters(segments)
            Within(nodes) == Apart(nodes) /\ \A n \in DOMAIN nodes : nodes[n] \in ends
            Covers(nodes, n) ==
              \A i \in 1..n : Covered(nodes, segments[i][1]) /\ Covered(nodes, segments[i][2])
            Good == {n \in Nat : n <= N => Within(k[n]) /\ Covers(k[n], n)}
<1>1. N \in Nat /\ DOMAIN segments = 1..N /\ \A i \in 1..N : segments[i] \in Span
  BY LenProperties
<1>2. /\ k \in [0..N -> Seq(Point)] /\ k[0] = <<>>
      /\ \A i \in 1..N : k[i] = WithNode(WithNode(k[i-1], segments[i][1]), segments[i][2])
  BY ClustersSteps
<1>3. \A i \in 1..N : segments[i][1] \in ends /\ segments[i][2] \in ends
  BY <1>1 DEF Ends
<1>. HIDE DEF k, N, ends
<1>4. 0 \in Good
  BY <1>2 DEF Apart
<1>5. ASSUME NEW n \in Nat, n \in Good, n + 1 <= N
      PROVE  Within(k[n+1]) /\ Covers(k[n+1], n + 1)
  <2>. DEFINE p == segments[n+1][1]
              q == segments[n+1][2]
              mid == WithNode(k[n], p)
  <2>1. n + 1 \in 1..N /\ (n + 1) - 1 = n /\ n \in 0..N
    BY <1>1, <1>5
  <2>2. k[n] \in Seq(Point) /\ Within(k[n]) /\ Covers(k[n], n)
    BY <1>2, <1>5, <2>1
  <2>3. p \in Point /\ q \in Point /\ p \in ends /\ q \in ends
    BY <1>1, <1>3, <2>1 DEF Span
  <2>4. k[n+1] = WithNode(mid, q)
    BY <1>2, <2>1
  <2>. HIDE DEF p, q, Good
  <2>5. mid \in Seq(Point) /\ Within(mid) /\ Covered(mid, p)
        /\ \A r : Covered(k[n], r) => Covered(mid, r)
    BY <2>2, <2>3, WithNodeCovers
  <2>. HIDE DEF mid
  <2>6. Within(k[n+1]) /\ Covered(k[n+1], q) /\ Covered(k[n+1], p)
        /\ \A r : Covered(k[n], r) => Covered(k[n+1], r)
    BY <2>3, <2>4, <2>5, WithNodeCovers
  <2>7. Covers(k[n+1], n + 1)
    <3>1. SUFFICES ASSUME NEW i \in 1..(n + 1)
                   PROVE  Covered(k[n+1], segments[i][1]) /\ Covered(k[n+1], segments[i][2])
      OBVIOUS
    <3>2. CASE i = n + 1
      BY <2>6, <3>2 DEF p, q
    <3>3. CASE i # n + 1
      <4>1. i \in 1..n
        BY <3>3
      <4>. QED BY <2>2, <2>6, <4>1
    <3>. QED BY <3>2, <3>3
  <2>. QED BY <2>6, <2>7
<1>6. Good = Nat
  <2>1. \A n \in Good : n + 1 <= N => Within(k[n+1]) /\ Covers(k[n+1], n + 1)
    BY <1>5
  <2>2. ASSUME NEW n \in Good PROVE n + 1 \in Good
    <3>1. n \in Nat /\ n + 1 \in Nat
      OBVIOUS
    <3>. QED BY <2>1, <3>1
  <2>3. Good \in SUBSET Nat
    OBVIOUS
  <2>. HIDE DEF Good
  <2>. QED BY <1>4, <2>2, <2>3, NatSetInduction
<1>7. k[N] \in Seq(Point) /\ Within(k[N]) /\ Covers(k[N], N)
  <2>1. N \in 0..N /\ N \in Good
    BY <1>1, <1>6
  <2>. QED BY <1>2, <2>1
<1>. QED BY <1>7 DEF Nodes, k, N, ends

\* The walls, as edges between corners.
LEMMA EdgesTyped ==
  ASSUME NEW segments \in Seq(Span)
  PROVE  /\ Edges(segments) \in Graphs(Len(Nodes(segments)))
         /\ Len(Edges(segments)) = Len(segments)
         /\ DOMAIN Edges(segments) = 1..Len(segments)
<1>. DEFINE nodes == Nodes(segments)
            N == Len(segments)
            Index(p) == Min(NodeOf(nodes, p))
            E == [a : 1..Len(nodes), b : 1..Len(nodes)]
            Edge(i) == [a |-> Index(segments[i][1]), b |-> Index(segments[i][2])]
<1>1. N \in Nat /\ DOMAIN segments = 1..N
  BY LenProperties
<1>2. nodes \in Seq(Point) /\ DOMAIN nodes = 1..Len(nodes) /\ Len(nodes) \in Nat
      /\ \A i \in 1..N : Covered(nodes, segments[i][1]) /\ Covered(nodes, segments[i][2])
  BY NodesCover, LenProperties
<1>3. Edges(segments) = [i \in 1..N |-> Edge(i)]
  BY <1>1 DEF Edges
<1>. HIDE DEF nodes, N
<1>4. \A p : Covered(nodes, p) => Index(p) \in 1..Len(nodes)
  <2>1. SUFFICES ASSUME NEW p, Covered(nodes, p) PROVE Index(p) \in 1..Len(nodes)
    OBVIOUS
  <2>2. NodeOf(nodes, p) \subseteq 1..Len(nodes) /\ NodeOf(nodes, p) # {}
    BY <1>2, <2>1 DEF NodeOf, Covered
  <2>3. NodeOf(nodes, p) \in SUBSET Nat
    BY <1>2, <2>2
  <2>. QED BY <2>2, <2>3, MinIsLeast
<1>5. \A i \in 1..N : Edge(i) \in E
  BY <1>2, <1>4
<1>. HIDE DEF E, Edge
<1>6. [i \in 1..N |-> Edge(i)] \in Seq(E)
  BY <1>1, <1>5, IsASeq
<1>7. Len([i \in 1..N |-> Edge(i)]) = N
  BY <1>1
<1>. QED BY <1>3, <1>6, <1>7 DEF Graphs, E, nodes, N

\* ... that are near the ends of the walls.
LEMMA EdgesNear ==
  ASSUME NEW segments \in Seq(Span), NEW i \in 1..Len(segments)
  PROVE  LET nodes == Nodes(segments)
             e == Edges(segments)[i]
         IN /\ e.a \in DOMAIN nodes /\ Near(nodes[e.a], segments[i][1])
            /\ e.b \in DOMAIN nodes /\ Near(nodes[e.b], segments[i][2])
<1>. DEFINE nodes == Nodes(segments)
<1>1. nodes \in Seq(Point) /\ DOMAIN nodes = 1..Len(nodes) /\ Len(nodes) \in Nat
      /\ Covered(nodes, segments[i][1]) /\ Covered(nodes, segments[i][2])
  BY NodesCover, LenProperties
<1>2. Edges(segments)[i] = [a |-> Min(NodeOf(nodes, segments[i][1])),
                            b |-> Min(NodeOf(nodes, segments[i][2]))]
  BY LenProperties DEF Edges
<1>. HIDE DEF nodes
<1>3. ASSUME NEW p, Covered(nodes, p)
      PROVE  Min(NodeOf(nodes, p)) \in DOMAIN nodes /\ Near(nodes[Min(NodeOf(nodes, p))], p)
  <2>1. NodeOf(nodes, p) # {} /\ NodeOf(nodes, p) \in SUBSET Nat
    BY <1>1, <1>3 DEF NodeOf, Covered
  <2>2. Min(NodeOf(nodes, p)) \in NodeOf(nodes, p)
    BY <2>1, MinIsLeast
  <2>. QED BY <2>2 DEF NodeOf
<1>. QED BY <1>1, <1>2, <1>3 DEF nodes

-----------------------------------------------------------------------------
(* The walk around a graph whose corners all have the degree two *)

Incident(edges, n) == {i \in DOMAIN edges : n \in {edges[i].a, edges[i].b}}
Regular(edges, m) ==
  /\ edges \in Graphs(m)
  /\ \A i \in DOMAIN edges : edges[i].a # edges[i].b
  /\ \A n \in 1..m : Degree(edges, n) = 2

\* Every corner ends two walls.
LEMMA TwoWalls ==
  ASSUME NEW m \in Nat, NEW edges, Regular(edges, m), NEW n \in 1..m
  PROVE  \E i, j \in DOMAIN edges : i # j /\ Incident(edges, n) = {i, j}
<1>. DEFINE A == {i \in DOMAIN edges : edges[i].a = n}
            B == {i \in DOMAIN edges : edges[i].b = n}
            I == Incident(edges, n)
<1>1. IsFiniteSet(DOMAIN edges)
  <2>1. Len(edges) \in Nat /\ DOMAIN edges = 1..Len(edges)
    BY LenProperties DEF Regular, Graphs
  <2>. QED BY <2>1, FS_Interval
<1>2. IsFiniteSet(A) /\ IsFiniteSet(B)
  <2>1. A \subseteq DOMAIN edges /\ B \subseteq DOMAIN edges
    OBVIOUS
  <2>. HIDE DEF A, B
  <2>. QED BY <1>1, <2>1, FS_Subset
<1>3. A \cap B = {} /\ I = A \cup B /\ Cardinality(A) + Cardinality(B) = 2
  BY DEF Regular, Degree, Incident
<1>. HIDE DEF A, B, I
<1>4. IsFiniteSet(I) /\ Cardinality(I) = 2
  <2>1. Cardinality(A \cap B) = 0
    BY <1>3, FS_EmptySet
  <2>2. Cardinality(A) \in Nat /\ Cardinality(B) \in Nat
    BY <1>2, FS_CardinalityType
  <2>. QED BY <1>2, <1>3, <2>1, <2>2, FS_Union
<1>5. PICK i \in I : TRUE
  BY <1>4, FS_EmptySet
<1>6. IsFiniteSet(I \ {i}) /\ Cardinality(I \ {i}) = 1
  BY <1>4, <1>5, FS_RemoveElement
<1>7. PICK j : I \ {i} = {j}
  BY <1>6, FS_Singleton
<1>8. I \subseteq DOMAIN edges
  BY DEF I, Incident
<1>9. i # j /\ I = {i, j}
  BY <1>5, <1>7
<1>. QED BY <1>8, <1>9 DEF I

NoneUsed(edges, used, n) == Incident(edges, n) \cap used = {}
OneUnused(edges, used, n) == \E k : Incident(edges, n) \ used = {k}

\* If one of its walls is used and the other not, one is left.
LEMMA OneWallLeft ==
  ASSUME NEW m \in Nat, NEW edges, Regular(edges, m), NEW n \in 1..m,
         NEW i \in Incident(edges, n), NEW used, NoneUsed(edges, used, n)
  PROVE  OneUnused(edges, used \cup {i}, n)
<1>1. PICK x, y \in DOMAIN edges : x # y /\ Incident(edges, n) = {x, y}
  BY TwoWalls
<1>2. CASE i = x
  <2>1. Incident(edges, n) \ (used \cup {i}) = {y}
    BY <1>1, <1>2 DEF NoneUsed
  <2>. QED BY <2>1 DEF OneUnused
<1>3. CASE i = y
  <2>1. Incident(edges, n) \ (used \cup {i}) = {x}
    BY <1>1, <1>3 DEF NoneUsed
  <2>. QED BY <2>1 DEF OneUnused
<1>. QED BY <1>1, <1>2, <1>3

Visited(order, n) == \E j \in 1..Len(order) : order[j] = n

\* No corner is met twice, but for the first when the walk returns to it.
Simple(order) ==
  \A j, l \in 1..Len(order) : j < l /\ order[j] = order[l] => j = 1 /\ l = Len(order)

\* The walls at a corner not met are unused, those at a corner passed are used.
Fresh(edges, m, w) ==
  \A n \in 1..m : ~Visited(w.order, n) => NoneUsed(edges, w.used, n)
Passed(edges, w) ==
  \A j \in 2..(Len(w.order) - 1) : Incident(edges, w.order[j]) \subseteq w.used

\* At the ends of an open walk one wall is unused, at that of a closed one none.
EndsOpen(edges, w) ==
  Len(w.order) > 1 /\ w.order[1] # w.order[Len(w.order)] =>
    /\ OneUnused(edges, w.used, w.order[1])
    /\ OneUnused(edges, w.used, w.order[Len(w.order)])
EndsClosed(edges, w) ==
  Len(w.order) > 1 /\ w.order[1] = w.order[Len(w.order)] =>
    Incident(edges, w.order[1]) \subseteq w.used

Joins(edges, i, n, k) == {edges[i].a, edges[i].b} = {n, k}

\* The walk goes along the walls it has used, and along no others.
Along(edges, w) ==
  /\ \A j \in 1..(Len(w.order) - 1) : \E i \in w.used :
       Joins(edges, i, w.order[j], w.order[j+1])
  /\ \A i \in w.used : \E j \in 1..(Len(w.order) - 1) :
       Joins(edges, i, w.order[j], w.order[j+1])
  /\ \A i \in w.used : Visited(w.order, edges[i].a) /\ Visited(w.order, edges[i].b)
Counted(w) ==
  /\ IsFiniteSet(w.used) /\ Cardinality(w.used) = Len(w.order) - 1
  /\ Len(w.order) = 1 => w.used = {}

WalkInv(edges, m, w) ==
  /\ w \in WalkType(edges, m)
  /\ Simple(w.order) /\ Fresh(edges, m, w) /\ Passed(edges, w)
  /\ EndsOpen(edges, w) /\ EndsClosed(edges, w)
  /\ Along(edges, w) /\ Counted(w)

LEMMA WalkTypes ==
  ASSUME NEW m, NEW edges, NEW w \in WalkType(edges, m)
  PROVE  /\ w.order \in Seq(1..m) /\ Len(w.order) \in Nat \ {0}
         /\ DOMAIN w.order = 1..Len(w.order)
         /\ \A j \in 1..Len(w.order) : w.order[j] \in 1..m
         /\ Last(w.order) = w.order[Len(w.order)]
<1>1. w.order \in Seq(1..m) /\ w.order # <<>>
  BY DEF WalkType
<1>2. Len(w.order) \in Nat \ {0} /\ DOMAIN w.order = 1..Len(w.order)
  BY <1>1, EmptySeq, LenProperties
<1>. QED BY <1>1, <1>2, ElementOfSeq DEF Last

LEMMA RegularEdge ==
  ASSUME NEW m \in Nat, NEW edges, Regular(edges, m), NEW i \in DOMAIN edges
  PROVE  /\ edges[i] \in [a : 1..m, b : 1..m] /\ edges[i].a # edges[i].b
         /\ edges[i].a \in 1..m /\ edges[i].b \in 1..m
<1>1. edges \in Graphs(m) /\ DOMAIN edges = 1..Len(edges)
  BY LenProperties DEF Regular, Graphs
<1>2. edges[i] \in [a : 1..m, b : 1..m]
  BY <1>1, ElementOfSeq DEF Graphs
<1>. QED BY <1>2 DEF Regular

LEMMA StartInv ==
  ASSUME NEW m \in Nat, NEW edges, Regular(edges, m), edges # <<>>
  PROVE  WalkInv(edges, m, Start(edges))
<1>. DEFINE w == Start(edges)
<1>1. w \in WalkType(edges, m)
  BY StartTyped DEF Regular
<1>2. w.used = {} /\ w.order = <<edges[1].a>>
  BY DEF Start
<1>3. Len(w.order) = 1
  BY <1>2
<1>. HIDE DEF w
<1>4. Simple(w.order) /\ Fresh(edges, m, w) /\ Passed(edges, w)
  BY <1>2, <1>3 DEF Simple, Fresh, Passed, NoneUsed
<1>5. EndsOpen(edges, w) /\ EndsClosed(edges, w)
  BY <1>3 DEF EndsOpen, EndsClosed
<1>6. Along(edges, w) /\ Counted(w)
  BY <1>2, <1>3, FS_EmptySet DEF Along, Counted
<1>. QED BY <1>1, <1>4, <1>5, <1>6 DEF WalkInv, w

\* A wall that leads to a corner that was met closes the walk.
LEMMA WalkCloses ==
  ASSUME NEW m \in Nat, NEW edges, Regular(edges, m), NEW w, WalkInv(edges, m, w),
         NEW i \in DOMAIN edges \ w.used, NEW to,
         Joins(edges, i, w.order[Len(w.order)], to)
  PROVE  /\ to \in 1..m /\ to # w.order[Len(w.order)]
         /\ Len(w.order) > 1 => w.order[1] # w.order[Len(w.order)]
         /\ \A j \in 1..Len(w.order) : w.order[j] = to => j = 1 /\ Len(w.order) > 1
<1>. DEFINE o == w.order
            L == Len(o)
<1>1. L \in Nat \ {0} /\ \A j \in 1..L : o[j] \in 1..m
  BY WalkTypes DEF WalkInv
<1>2. edges[i] \in [a : 1..m, b : 1..m] /\ edges[i].a # edges[i].b
  BY RegularEdge
<1>3. to \in 1..m /\ to # o[L] /\ i \in Incident(edges, to) /\ i \in Incident(edges, o[L])
  BY <1>2 DEF Incident, Joins
<1>4. L > 1 => o[1] # o[L]
  BY <1>3 DEF WalkInv, EndsClosed
<1>5. ASSUME NEW j \in 1..L, o[j] = to
      PROVE  j = 1 /\ L > 1
  <2>1. j # L
    BY <1>3, <1>5
  <2>2. ~ (j \in 2..(L - 1))
    BY <1>3, <1>5 DEF WalkInv, Passed
  <2>. QED BY <1>1, <2>1, <2>2
<1>. QED BY <1>3, <1>4, <1>5

LEMMA WalkGrows ==
  ASSUME NEW m \in Nat, NEW edges, Regular(edges, m), NEW w, WalkInv(edges, m, w),
         NEW i \in DOMAIN edges \ w.used, NEW to,
         Joins(edges, i, w.order[Len(w.order)], to),
         NEW v, v = [used |-> w.used \cup {i}, order |-> Append(w.order, to)]
  PROVE  WalkInv(edges, m, v) /\ Len(v.order) = Len(w.order) + 1
<1>. DEFINE o == w.order
            L == Len(o)
            at == o[L]
            p == v.order
<1>1. L \in Nat \ {0} /\ o \in Seq(1..m) /\ \A j \in 1..L : o[j] \in 1..m
  BY WalkTypes DEF WalkInv
<1>2. edges[i].a \in 1..m /\ edges[i].b \in 1..m /\ edges[i].a # edges[i].b
  BY RegularEdge
<1>3. /\ to \in 1..m /\ to # at
      /\ L > 1 => o[1] # at
      /\ Visited(o, to) => /\ L > 1 /\ to = o[1]
                           /\ \A j \in 1..L : o[j] = to => j = 1
  <2>1. to \in 1..m /\ to # at
    BY WalkCloses
  <2>2. L > 1 => o[1] # at
    BY WalkCloses
  <2>3. ASSUME NEW j \in 1..L, o[j] = to PROVE j = 1
    BY <2>3, WalkCloses
  <2>4. ASSUME NEW j \in 1..L, o[j] = to PROVE L > 1
    BY <2>4, WalkCloses
  <2>. QED BY <2>1, <2>2, <2>3, <2>4 DEF Visited
<1>4. at \in 1..m /\ Visited(o, at)
  BY <1>1 DEF Visited
<1>5. v.used = w.used \cup {i} /\ p = Append(o, to)
  OBVIOUS
<1>6. /\ p \in Seq(1..m) /\ Len(p) = L + 1 /\ p[L+1] = to
      /\ \A j \in 1..L : p[j] = o[j]
  BY <1>1, <1>3, <1>5, AppendProperties
<1>7. {edges[i].a, edges[i].b} = {at, to}
      /\ \A n : i \in Incident(edges, n) <=> n \in {at, to}
  BY DEF Incident, Joins
<1>8. \A n : Visited(p, n) <=> Visited(o, n) \/ n = to
  <2>1. L + 1 \in 1..(L + 1) /\ \A j \in 1..(L + 1) : j \in 1..L \/ j = L + 1
    BY <1>1
  <2>2. \A j \in 1..L : j \in 1..(L + 1)
    BY <1>1
  <2>. HIDE DEF o, L, at, p
  <2>3. \A n : Visited(p, n) <=> \E j \in 1..(L + 1) : p[j] = n
    BY <1>6 DEF Visited
  <2>4. \A n : Visited(o, n) <=> \E j \in 1..L : o[j] = n
    BY DEF Visited, L
  <2>. QED BY <1>6, <2>1, <2>2, <2>3, <2>4
<1>9. w.used \subseteq DOMAIN edges /\ i \notin w.used /\ IsFiniteSet(w.used)
      /\ Cardinality(w.used) = L - 1 /\ (L = 1 => w.used = {})
  BY DEF WalkInv, WalkType, Counted
<1>10. L > 1 => OneUnused(edges, w.used, o[1])
  BY <1>3 DEF WalkInv, EndsOpen
<1>11. L > 1 => Incident(edges, at) \ w.used = {i}
  <2>1. SUFFICES ASSUME L > 1 PROVE Incident(edges, at) \ w.used = {i}
    OBVIOUS
  <2>2. \E k : Incident(edges, at) \ w.used = {k}
    BY <1>3, <2>1 DEF WalkInv, EndsOpen, OneUnused
  <2>3. i \in Incident(edges, at) \ w.used
    BY <1>7, <1>9
  <2>. QED BY <2>2, <2>3
<1>. HIDE DEF o, L, at, p
<1>12. v \in WalkType(edges, m)
  <2>1. p # <<>>
    BY <1>1, <1>6, EmptySeq
  <2>2. v.used \subseteq DOMAIN edges
    BY <1>5, <1>9
  <2>3. v = [used |-> v.used, order |-> p]
    BY DEF p
  <2>. QED BY <1>6, <2>1, <2>2, <2>3 DEF WalkType
<1>13. Simple(p)
  <2>1. SUFFICES ASSUME NEW j \in 1..(L+1), NEW l \in 1..(L+1), j < l, p[j] = p[l]
                 PROVE  j = 1 /\ l = L + 1
    BY <1>6 DEF Simple
  <2>2. CASE l = L + 1
    <3>1. j \in 1..L /\ o[j] = to
      BY <1>1, <1>6, <2>1, <2>2
    <3>2. Visited(o, to)
      BY <3>1 DEF Visited, L
    <3>. QED BY <1>3, <2>2, <3>1, <3>2
  <2>3. CASE l # L + 1
    <3>0. j \in 1..L /\ l \in 1..L
      BY <1>1, <2>1, <2>3
    <3>1. j \in 1..L /\ l \in 1..L /\ o[j] = o[l]
      BY <1>6, <2>1, <3>0
    <3>2. j = 1 /\ l = L
      BY <2>1, <3>1 DEF WalkInv, Simple, o, L
    <3>. QED BY <1>3, <2>1, <3>1, <3>2 DEF at
  <2>. QED BY <2>2, <2>3
<1>14. Fresh(edges, m, v)
  <2>1. SUFFICES ASSUME NEW n \in 1..m, ~Visited(p, n)
                 PROVE  NoneUsed(edges, v.used, n)
    BY DEF Fresh, p
  <2>2. NoneUsed(edges, w.used, n)
    BY <1>8, <2>1 DEF WalkInv, Fresh, o
  <2>3. i \notin Incident(edges, n)
    BY <1>4, <1>7, <1>8, <2>1
  <2>. QED BY <1>5, <2>2, <2>3 DEF NoneUsed
<1>15. Passed(edges, v)
  <2>1. SUFFICES ASSUME NEW j \in 2..L PROVE Incident(edges, p[j]) \subseteq v.used
    BY <1>1, <1>6 DEF Passed, p
  <2>2. CASE j = L
    <3>1. p[j] = at /\ L > 1
      BY <1>1, <1>6, <2>2 DEF at
    <3>. QED BY <1>5, <1>11, <3>1
  <2>3. CASE j # L
    <3>1. j \in 2..(L - 1) /\ p[j] = o[j]
      BY <1>1, <1>6, <2>3
    <3>2. Incident(edges, o[j]) \subseteq w.used
      BY <3>1 DEF WalkInv, Passed, o, L
    <3>. QED BY <1>5, <3>1, <3>2
  <2>. QED BY <2>2, <2>3
<1>16. p[1] = o[1] /\ p[Len(p)] = to
  BY <1>1, <1>6
<1>17. EndsOpen(edges, v)
  <2>1. SUFFICES ASSUME o[1] # to
                 PROVE  OneUnused(edges, v.used, o[1]) /\ OneUnused(edges, v.used, to)
    BY <1>16 DEF EndsOpen, p
  <2>2. ~Visited(o, to)
    BY <1>3, <2>1
  <2>3. OneUnused(edges, v.used, to)
    <3>1. NoneUsed(edges, w.used, to)
      BY <1>3, <2>2 DEF WalkInv, Fresh, o
    <3>2. i \in Incident(edges, to)
      BY <1>7
    <3>3. OneUnused(edges, w.used \cup {i}, to)
      BY <1>3, <3>1, <3>2, OneWallLeft
    <3>. QED BY <1>5, <3>3
  <2>4. CASE L = 1
    <3>1. o[1] = at /\ i \in Incident(edges, at) /\ NoneUsed(edges, w.used, at)
      BY <1>7, <1>9, <2>4 DEF at, NoneUsed
    <3>2. OneUnused(edges, w.used \cup {i}, at)
      BY <1>4, <3>1, OneWallLeft
    <3>. QED BY <1>5, <2>3, <3>1, <3>2
  <2>5. CASE L > 1
    <3>1. PICK k : Incident(edges, o[1]) \ w.used = {k}
      BY <1>10, <2>5 DEF OneUnused
    <3>2. i \notin Incident(edges, o[1])
      BY <1>3, <1>7, <2>1, <2>5
    <3>3. Incident(edges, o[1]) \ v.used = {k}
      BY <1>5, <3>1, <3>2
    <3>. QED BY <2>3, <3>3 DEF OneUnused
  <2>6. L = 1 \/ L > 1
    BY <1>1
  <2>. QED BY <2>4, <2>5, <2>6
<1>18. EndsClosed(edges, v)
  <2>1. SUFFICES ASSUME o[1] = to PROVE Incident(edges, o[1]) \subseteq v.used
    BY <1>16 DEF EndsClosed, p
  <2>2. Visited(o, to)
    BY <1>1, <2>1 DEF Visited, L
  <2>3. PICK k : Incident(edges, o[1]) \ w.used = {k}
    BY <1>3, <1>10, <2>2 DEF OneUnused
  <2>4. i \in Incident(edges, o[1]) \ w.used
    BY <1>7, <1>9, <2>1
  <2>. QED BY <1>5, <2>3, <2>4
<1>19. Along(edges, v)
  <2>1. ASSUME NEW j \in 1..L
        PROVE  \E k \in v.used : Joins(edges, k, p[j], p[j+1])
    <3>1. CASE j = L
      <4>1. p[j] = at /\ p[j+1] = to
        BY <1>1, <1>6, <3>1 DEF at
      <4>. QED BY <1>5, <1>7, <4>1 DEF Joins
    <3>2. CASE j # L
      <4>0. j \in 1..(L - 1) /\ j + 1 \in 1..L
        BY <1>1, <3>2
      <4>1. j \in 1..(L - 1) /\ p[j] = o[j] /\ p[j+1] = o[j+1]
        BY <1>6, <4>0
      <4>2. PICK k \in w.used : Joins(edges, k, o[j], o[j+1])
        BY <4>1 DEF WalkInv, Along, o, L
      <4>. QED BY <1>5, <4>1, <4>2
    <3>. QED BY <3>1, <3>2
  <2>2. ASSUME NEW k \in v.used
        PROVE  Visited(p, edges[k].a) /\ Visited(p, edges[k].b)
    <3>1. CASE k = i
      BY <1>4, <1>7, <1>8, <3>1
    <3>2. CASE k # i
      <4>1. k \in w.used
        BY <1>5, <3>2
      <4>2. Visited(o, edges[k].a) /\ Visited(o, edges[k].b)
        BY <4>1 DEF WalkInv, Along, o
      <4>. QED BY <1>8, <4>2
    <3>. QED BY <3>1, <3>2
  <2>3. Len(p) - 1 = L
    BY <1>1, <1>6
  <2>4. ASSUME NEW k \in v.used
        PROVE  \E j \in 1..L : Joins(edges, k, p[j], p[j+1])
    <3>1. CASE k = i
      <4>1. L \in 1..L /\ p[L] = at /\ p[L+1] = to
        BY <1>1, <1>6 DEF at
      <4>2. Joins(edges, k, p[L], p[L+1])
        BY <1>7, <3>1, <4>1 DEF Joins
      <4>. QED BY <4>1, <4>2
    <3>2. CASE k # i
      <4>1. k \in w.used
        BY <1>5, <3>2
      <4>2. PICK j \in 1..(L - 1) : Joins(edges, k, o[j], o[j+1])
        BY <4>1 DEF WalkInv, Along, o, L
      <4>3. j \in 1..L /\ j + 1 \in 1..L
        BY <1>1
      <4>4. p[j] = o[j] /\ p[j+1] = o[j+1]
        BY <1>6, <4>3
      <4>. QED BY <4>2, <4>3, <4>4
    <3>. QED BY <3>1, <3>2
  <2>. QED BY <2>1, <2>2, <2>3, <2>4 DEF Along, p
<1>20. Counted(v)
  <2>1. IsFiniteSet(v.used) /\ Cardinality(v.used) = L
    <3>1. IsFiniteSet(w.used \cup {i}) /\ Cardinality(w.used \cup {i}) = Cardinality(w.used) + 1
      BY <1>9, FS_AddElement
    <3>. QED BY <1>1, <1>5, <1>9, <3>1
  <2>2. Len(p) - 1 = L /\ Len(p) # 1
    BY <1>1, <1>6
  <2>. QED BY <2>1, <2>2 DEF Counted, p
<1>. QED
  BY <1>6, <1>12, <1>13, <1>14, <1>15, <1>17, <1>18, <1>19, <1>20 DEF WalkInv, p, L, o

\* No wall leads on.
Stuck(edges, w) == Leaving(edges, w.used, Last(w.order)) = {}

LEMMA WalkedInv ==
  ASSUME NEW m \in Nat, NEW edges, Regular(edges, m), NEW w, WalkInv(edges, m, w)
  PROVE  /\ WalkInv(edges, m, Walked(edges, w))
         /\ Stuck(edges, w) => Walked(edges, w) = w
         /\ ~Stuck(edges, w) => Len(Walked(edges, w).order) = Len(w.order) + 1
<1>. DEFINE at == Last(w.order)
            next == Leaving(edges, w.used, at)
            i == Min(next)
            to == IF edges[i].a = at THEN edges[i].b ELSE edges[i].a
            v == Walked(edges, w)
<1>1. CASE Stuck(edges, w)
  <2>1. Walked(edges, w) = w
    BY <1>1 DEF Stuck, Walked
  <2>. QED BY <1>1, <2>1
<1>2. CASE ~Stuck(edges, w)
  <2>1. i \in next
    BY <1>2, LeavingIndex DEF Stuck, Regular
  <2>2. i \in DOMAIN edges \ w.used /\ at \in {edges[i].a, edges[i].b}
    BY <2>1 DEF Leaving
  <2>3. Joins(edges, i, at, to)
    BY <2>2 DEF Joins
  <2>4. v = [used |-> w.used \cup {i}, order |-> Append(w.order, to)]
    BY <1>2 DEF Stuck, Walked
  <2>5. at = w.order[Len(w.order)]
    BY WalkTypes DEF WalkInv
  <2>. HIDE DEF at, next, i, to, v
  <2>6. WalkInv(edges, m, v) /\ Len(v.order) = Len(w.order) + 1
    <3>1. Joins(edges, i, w.order[Len(w.order)], to)
      BY <2>3, <2>5
    <3>2. i \in DOMAIN edges \ w.used
      BY <2>2
    <3>3. WalkInv(edges, m, v)
      BY <2>4, <3>1, <3>2, WalkGrows
    <3>4. Len(v.order) = Len(w.order) + 1
      BY <2>4, <3>1, <3>2, WalkGrows
    <3>. QED BY <3>3, <3>4
  <2>. QED BY <1>2, <2>6 DEF v
<1>. QED BY <1>1, <1>2

\* As many steps as there are walls end where no wall leads on.
LEMMA WalkEnds ==
  ASSUME NEW m \in Nat, NEW edges, Regular(edges, m), edges # <<>>
  PROVE  WalkInv(edges, m, Walk(edges)) /\ Stuck(edges, Walk(edges))
<1>. DEFINE N == Len(edges)
            k == Walks(edges)
            Good == {n \in Nat : n <= N => /\ WalkInv(edges, m, k[n])
                                           /\ Stuck(edges, k[n]) \/ Len(k[n].order) = n + 1}
<1>1. N \in Nat /\ DOMAIN edges = 1..N
  BY LenProperties DEF Regular, Graphs
<1>2. k[0] = Start(edges) /\ \A i \in 1..N : k[i] = Walked(edges, k[i-1])
  BY WalksSteps DEF Regular
<1>. HIDE DEF N, k
<1>3. 0 \in Good
  <2>1. Len(Start(edges).order) = 0 + 1
    BY DEF Start
  <2>. QED BY <1>2, <2>1, StartInv
<1>4. ASSUME NEW n \in Nat, n \in Good, n + 1 <= N
      PROVE  /\ WalkInv(edges, m, k[n+1])
             /\ Stuck(edges, k[n+1]) \/ Len(k[n+1].order) = (n + 1) + 1
  <2>1. n + 1 \in 1..N /\ (n + 1) - 1 = n
    BY <1>1, <1>4
  <2>2. WalkInv(edges, m, k[n]) /\ (Stuck(edges, k[n]) \/ Len(k[n].order) = n + 1)
    BY <1>1, <1>4
  <2>3. k[n+1] = Walked(edges, k[n])
    BY <1>2, <2>1
  <2>. HIDE DEF Good
  <2>. DEFINE w == k[n]
              v == k[n+1]
  <2>. HIDE DEF w, v
  <2>4. v = Walked(edges, w) /\ WalkInv(edges, m, w) /\ (Stuck(edges, w) \/ Len(w.order) = n + 1)
    BY <2>2, <2>3 DEF w, v
  <2>5. WalkInv(edges, m, v) /\ (Stuck(edges, w) => v = w)
        /\ (~Stuck(edges, w) => Len(v.order) = Len(w.order) + 1)
    BY <2>4, WalkedInv
  <2>6. WalkInv(edges, m, v) /\ (Stuck(edges, v) \/ Len(v.order) = (n + 1) + 1)
    BY <2>4, <2>5
  <2>. QED BY <2>6 DEF v
<1>5. Good = Nat
  <2>1. \A n \in Good : n + 1 <= N =>
          /\ WalkInv(edges, m, k[n+1])
          /\ Stuck(edges, k[n+1]) \/ Len(k[n+1].order) = (n + 1) + 1
    BY <1>4
  <2>2. ASSUME NEW n \in Good PROVE n + 1 \in Good
    <3>1. n \in Nat /\ n + 1 \in Nat
      OBVIOUS
    <3>. QED BY <2>1, <3>1
  <2>3. Good \in SUBSET Nat
    OBVIOUS
  <2>. HIDE DEF Good
  <2>. QED BY <1>3, <2>2, <2>3, NatSetInduction
<1>. DEFINE w == k[N]
<1>6. WalkInv(edges, m, w) /\ (Stuck(edges, w) \/ Len(w.order) = N + 1)
  BY <1>1, <1>5
<1>7. w = Walk(edges)
  BY DEF Walk, k, N
<1>. HIDE DEF w, Good
<1>8. ASSUME Len(w.order) = N + 1 PROVE Stuck(edges, w)
  <2>1. w.used \subseteq DOMAIN edges /\ Cardinality(w.used) = N
    BY <1>1, <1>6, <1>8 DEF WalkInv, WalkType, Counted
  <2>2. IsFiniteSet(DOMAIN edges) /\ Cardinality(DOMAIN edges) = N
    BY <1>1, FS_Interval
  <2>3. w.used = DOMAIN edges
    BY <2>1, <2>2, FS_Subset
  <2>. QED BY <2>3 DEF Stuck, Leaving
<1>. QED BY <1>6, <1>7, <1>8

LEMMA IntervalSize ==
  ASSUME NEW n \in Nat
  PROVE  IsFiniteSet(1..n) /\ Cardinality(1..n) = n
BY FS_Interval

\* Where no wall leads on, the walk is back at its start, and every wall of a
\* corner that it has met is used.
LEMMA WalkIsClosed ==
  ASSUME NEW m \in Nat, NEW edges, Regular(edges, m), NEW w,
         WalkInv(edges, m, w), Stuck(edges, w)
  PROVE  /\ Len(w.order) > 1 /\ w.order[1] = w.order[Len(w.order)]
         /\ \A n \in 1..m : Visited(w.order, n) => Incident(edges, n) \subseteq w.used
<1>. DEFINE o == w.order
            L == Len(o)
<1>1. L \in Nat \ {0} /\ (\A j \in 1..L : o[j] \in 1..m) /\ Last(o) = o[L]
  BY WalkTypes DEF WalkInv
<1>2. o[L] \in 1..m /\ Incident(edges, o[L]) \ w.used = {}
  <2>1. Incident(edges, Last(o)) \ w.used = {}
    BY DEF Stuck, Leaving, Incident
  <2>. QED BY <1>1, <2>1
<1>3. Incident(edges, o[L]) # {}
  <2>1. PICK x, y \in DOMAIN edges : Incident(edges, o[L]) = {x, y}
    BY <1>2, TwoWalls
  <2>. QED BY <2>1
<1>4. L # 1
  BY <1>2, <1>3 DEF WalkInv, Counted
<1>5. o[1] = o[L]
  BY <1>1, <1>2, <1>4 DEF WalkInv, EndsOpen, OneUnused
<1>6. Incident(edges, o[1]) \subseteq w.used
  BY <1>2, <1>5
<1>7. ASSUME NEW j \in 1..L PROVE Incident(edges, o[j]) \subseteq w.used
  <2>1. j = 1 \/ j = L \/ j \in 2..(L - 1)
    BY <1>1
  <2>. QED BY <1>5, <1>6, <2>1 DEF WalkInv, Passed
<1>8. L > 1
  <2>. HIDE DEF L
  <2>. QED BY <1>1, <1>4
<1>. QED BY <1>5, <1>7, <1>8 DEF Visited

-----------------------------------------------------------------------------
(* One ring *)

\* No set of corners is cut off from the others.
Connected(edges, m) ==
  \A part \in (SUBSET (1..m)) \ {{}, 1..m} :
    \E i \in DOMAIN edges : (edges[i].a \in part) # (edges[i].b \in part)

\* The walls of one ring are all used, and there are as many as corners.
LEMMA RingIsWalked ==
  ASSUME NEW m \in Nat, NEW edges, Regular(edges, m), Connected(edges, m), NEW w,
         WalkInv(edges, m, w), Stuck(edges, w)
  PROVE  w.used = DOMAIN edges /\ m = Len(edges)
<1>. DEFINE o == w.order
            L == Len(o)
            part == {n \in 1..m : Visited(o, n)}
<1>1. /\ L \in Nat /\ L > 1 /\ o[1] = o[L] /\ \A j \in 1..L : o[j] \in 1..m
      /\ \A n \in part : Incident(edges, n) \subseteq w.used
  BY WalkIsClosed, WalkTypes DEF WalkInv
<1>2. \A j \in 1..L : o[j] \in part
  BY <1>1 DEF Visited
<1>3. part = 1..m
  <2>1. SUFFICES ASSUME part # 1..m PROVE FALSE
    OBVIOUS
  <2>2. part \in SUBSET (1..m) /\ part # {}
    BY <1>1, <1>2
  <2>3. PICK i \in DOMAIN edges : (edges[i].a \in part) # (edges[i].b \in part)
    <3>. HIDE DEF part
    <3>1. part \in (SUBSET (1..m)) \ {{}, 1..m}
      <4>1. part # 1..m /\ part # {} /\ part \in SUBSET (1..m)
        BY <2>1, <2>2
      <4>. QED BY <4>1, Zenon
    <3>. QED BY <3>1 DEF Connected
  <2>4. i \in Incident(edges, edges[i].a) /\ i \in Incident(edges, edges[i].b)
    BY DEF Incident
  <2>5. i \in w.used
    BY <1>1, <2>3, <2>4
  <2>6. Visited(o, edges[i].a) /\ Visited(o, edges[i].b)
    BY <2>5 DEF WalkInv, Along
  <2>. QED BY <2>3, <2>6, RegularEdge
<1>. HIDE DEF part
<1>4. w.used = DOMAIN edges
  <2>1. w.used \subseteq DOMAIN edges
    BY DEF WalkInv, WalkType
  <2>2. ASSUME NEW i \in DOMAIN edges PROVE i \in w.used
    <3>1. edges[i].a \in part /\ i \in Incident(edges, edges[i].a)
      BY <1>3, RegularEdge DEF Incident
    <3>. QED BY <1>1, <3>1
  <2>. QED BY <2>1, <2>2
<1>5. Len(edges) = L - 1
  <2>1. Len(edges) \in Nat /\ DOMAIN edges = 1..Len(edges)
    BY LenProperties DEF Regular, Graphs
  <2>2. Cardinality(DOMAIN edges) = Len(edges)
    BY <2>1, IntervalSize
  <2>. QED BY <1>4, <2>2 DEF WalkInv, Counted
<1>6. L - 1 = m
  <2>. DEFINE f == [j \in 1..(L - 1) |-> o[j]]
  <2>1. f \in [1..(L - 1) -> 1..m]
    BY <1>1
  <2>2. ASSUME NEW j \in 1..(L - 1), NEW l \in 1..(L - 1), f[j] = f[l]
        PROVE  j = l
    <3>1. j \in 1..L /\ l \in 1..L /\ j # L /\ l # L /\ o[j] = o[l]
      BY <1>1, <2>2
    <3>2. Simple(o)
      BY DEF WalkInv
    <3>3. ~ (j < l) /\ ~ (l < j)
      BY <3>1, <3>2 DEF Simple
    <3>. QED BY <3>3
  <2>3. ASSUME NEW n \in 1..m PROVE \E j \in 1..(L - 1) : f[j] = n
    <3>1. PICK j \in 1..L : o[j] = n
      BY <1>3 DEF part, Visited
    <3>2. CASE j = L
      BY <1>1, <3>1, <3>2
    <3>3. CASE j # L
      BY <1>1, <3>1, <3>3
    <3>. QED BY <3>2, <3>3
  <2>. HIDE DEF f
  <2>4. ExistsBijection(1..(L - 1), 1..m)
    <3>1. IsInjective(f)
      BY <2>1, <2>2 DEF IsInjective
    <3>. QED BY <2>1, <2>3, <3>1 DEF ExistsBijection, Bijection, Injection, Surjection
  <2>5. L - 1 \in Nat
    BY <1>1
  <2>6. Cardinality(1..m) = Cardinality(1..(L - 1))
    BY <2>4, <2>5, IntervalSize, FS_Bijection
  <2>. QED BY <2>5, <2>6, IntervalSize
<1>. QED BY <1>4, <1>5, <1>6

\* A walk along all walls meets every corner.
LEMMA AllVisited ==
  ASSUME NEW m \in Nat, NEW edges, Regular(edges, m), NEW w, WalkInv(edges, m, w),
         w.used = DOMAIN edges
  PROVE  \A n \in 1..m : Visited(w.order, n)
<1>1. SUFFICES ASSUME NEW n \in 1..m PROVE Visited(w.order, n)
  OBVIOUS
<1>2. PICK i \in DOMAIN edges : i \in Incident(edges, n)
  BY TwoWalls
<1>. QED BY <1>2 DEF Incident, WalkInv, Along

\* ... so that no set of corners is cut off.
LEMMA WalkedIsRing ==
  ASSUME NEW m \in Nat, NEW edges, Regular(edges, m), NEW w, WalkInv(edges, m, w),
         w.used = DOMAIN edges
  PROVE  Connected(edges, m)
<1>. DEFINE o == w.order
            L == Len(o)
<1>1. SUFFICES ASSUME NEW part \in (SUBSET (1..m)) \ {{}, 1..m},
                      \A i \in DOMAIN edges : (edges[i].a \in part) = (edges[i].b \in part)
               PROVE  FALSE
  BY DEF Connected
<1>2. L \in Nat \ {0}
  BY WalkTypes DEF WalkInv
<1>. DEFINE Good == {n \in Nat : n + 1 <= L => (o[n+1] \in part <=> o[1] \in part)}
<1>3. 0 \in Good
  OBVIOUS
<1>4. ASSUME NEW n \in Nat, n \in Good, (n + 1) + 1 <= L
      PROVE  o[(n+1)+1] \in part <=> o[1] \in part
  <2>1. n + 1 \in 1..(L - 1) /\ n + 1 <= L
    BY <1>2, <1>4
  <2>2. PICK i \in w.used : Joins(edges, i, o[n+1], o[(n+1)+1])
    BY <2>1 DEF WalkInv, Along
  <2>3. o[(n+1)+1] \in part <=> o[n+1] \in part
    BY <1>1, <2>2 DEF Joins
  <2>. QED BY <1>4, <2>1, <2>3
<1>5. Good = Nat
  <2>1. \A n \in Good : (n + 1) + 1 <= L => (o[(n+1)+1] \in part <=> o[1] \in part)
    BY <1>4
  <2>2. ASSUME NEW n \in Good PROVE n + 1 \in Good
    <3>1. n \in Nat /\ n + 1 \in Nat
      OBVIOUS
    <3>. QED BY <2>1, <3>1
  <2>3. Good \in SUBSET Nat
    OBVIOUS
  <2>. HIDE DEF Good
  <2>. QED BY <1>3, <2>2, <2>3, NatSetInduction
<1>6. ASSUME NEW n \in 1..m PROVE n \in part <=> o[1] \in part
  <2>1. PICK j \in 1..L : o[j] = n
    BY AllVisited DEF Visited
  <2>2. j - 1 \in Nat /\ (j - 1) + 1 = j /\ j <= L
    BY <1>2
  <2>3. j - 1 \in Good
    <3>. HIDE DEF Good
    <3>. QED BY <1>5, <2>2
  <2>4. o[j] \in part <=> o[1] \in part
    BY <2>2, <2>3
  <2>. QED BY <2>1, <2>4
<1>7. part # {} /\ part # 1..m /\ part \subseteq 1..m
  BY <1>1, Zenon
<1>. QED BY <1>6, <1>7

-----------------------------------------------------------------------------
(* The polygon *)

LEMMA ReverseTyped ==
  ASSUME NEW polygon \in Seq(Point)
  PROVE  /\ Reverse(polygon) \in Seq(Point) /\ Len(Reverse(polygon)) = Len(polygon)
         /\ \A i \in 1..Len(polygon) :
              /\ (Len(polygon) - i) + 1 \in 1..Len(polygon)
              /\ Reverse(polygon)[i] = polygon[(Len(polygon) - i) + 1]
<1>. DEFINE N == Len(polygon)
            Nth(i) == polygon[(N - i) + 1]
<1>1. N \in Nat /\ \A i \in 1..N : polygon[i] \in Point
  BY LenProperties
<1>2. \A i \in 1..N : (N - i) + 1 \in 1..N
  BY <1>1
<1>3. \A i \in 1..N : Nth(i) \in Point
  BY <1>1, <1>2
<1>4. Reverse(polygon) = [i \in 1..N |-> Nth(i)]
  BY DEF Reverse
<1>5. [i \in 1..N |-> Nth(i)] \in Seq(Point)
  <2>. HIDE DEF Nth, N
  <2>. QED BY <1>1, <1>3, IsASeq
<1>6. Len([i \in 1..N |-> Nth(i)]) = N
  BY <1>1
<1>. QED BY <1>2, <1>4, <1>5, <1>6

LEMMA CrossTurns ==
  ASSUME NEW p \in Point, NEW q \in Point
  PROVE  Cross(q, p) = -Cross(p, q) /\ Cross(p, q) \in Int
<1>. DEFINE a == p[1] * q[2]
            b == q[1] * p[2]
<1>1. a \in Int /\ b \in Int /\ q[1] * p[2] = b /\ p[1] * q[2] = a
  BY DEF Point
<1>2. Cross(p, q) = a - b /\ Cross(q, p) = b - a
  BY DEF Cross
<1>. HIDE DEF a, b
<1>. QED BY <1>1, <1>2

\* The reversed polygon has the opposite area.
LEMMA ReverseArea ==
  ASSUME NEW polygon \in Seq(Point)
  PROVE  Shoelace(polygon) \in Int /\ Shoelace(Reverse(polygon)) = -Shoelace(polygon)
<1>. DEFINE p == polygon
            q == Reverse(p)
            N == Len(p)
            T(i) == Cross(p[i], p[Following(p, i)])
            U(i) == Cross(q[i], q[Following(q, i)])
            f == Areas(p)
            g == Areas(q)
<1>1. N \in Nat /\ \A i \in 1..N : p[i] \in Point
  BY LenProperties
<1>2. /\ q \in Seq(Point) /\ Len(q) = N
      /\ \A i \in 1..N : (N - i) + 1 \in 1..N /\ q[i] = p[(N - i) + 1]
  BY ReverseTyped
<1>3. f \in [0..N -> Int] /\ f[0] = 0 /\ \A i \in 1..N : f[i] = f[i-1] + T(i)
  BY AreasSteps
<1>4. g \in [0..N -> Int] /\ g[0] = 0 /\ \A i \in 1..N : g[i] = g[i-1] + U(i)
  BY <1>2, AreasSteps
<1>5. \A i \in 1..N : T(i) \in Int
  BY FollowingIndex
<1>6. ASSUME NEW i \in 1..N, i # N
      PROVE  N - i \in 1..N /\ U(i) = -T(N - i)
  <2>1. N - i \in 1..N /\ i + 1 \in 1..N /\ (N - i) # N /\ (N - (i + 1)) + 1 = N - i
    BY <1>1, <1>6
  <2>2. Following(q, i) = i + 1 /\ Following(p, N - i) = (N - i) + 1
    BY <1>2, <1>6, <2>1 DEF Following
  <2>3. q[i] = p[(N - i) + 1] /\ q[i + 1] = p[N - i] /\ (N - i) + 1 \in 1..N
    BY <1>2, <2>1
  <2>4. p[N - i] \in Point /\ p[(N - i) + 1] \in Point
    BY <1>1, <2>1, <2>3
  <2>. HIDE DEF q, N, p
  <2>. QED BY <2>1, <2>2, <2>3, <2>4, CrossTurns
<1>7. N > 0 => U(N) = -T(N)
  <2>1. SUFFICES ASSUME N > 0 PROVE U(N) = -T(N)
    OBVIOUS
  <2>2. N \in 1..N /\ 1 \in 1..N /\ (N - N) + 1 = 1 /\ (N - 1) + 1 = N
    BY <1>1, <2>1
  <2>3. Following(q, N) = 1 /\ Following(p, N) = 1
    BY <1>2 DEF Following
  <2>4. q[N] = p[1] /\ q[1] = p[N] /\ p[1] \in Point /\ p[N] \in Point
    BY <1>1, <1>2, <2>2
  <2>. HIDE DEF q, N, p
  <2>. QED BY <2>3, <2>4, CrossTurns
<1>. HIDE DEF p, q, N, T, U, f, g
<1>. DEFINE Good == {n \in Nat : n < N => g[n] = -(f[N-1] - f[(N-1)-n])}
<1>8. 0 \in Good
  <2>1. SUFFICES ASSUME 0 < N PROVE g[0] = -(f[N-1] - f[(N-1)-0])
    OBVIOUS
  <2>2. N - 1 \in 0..N /\ (N - 1) - 0 = N - 1
    BY <1>1, <2>1
  <2>3. f[N-1] \in Int
    BY <1>3, <2>2
  <2>. QED BY <1>4, <2>2, <2>3
<1>9. ASSUME NEW n \in Nat, n \in Good, n + 1 < N
      PROVE  g[n+1] = -(f[N-1] - f[(N-1)-(n+1)])
  <2>. DEFINE k == (N - 1) - n
  <2>1. g[n] = -(f[N-1] - f[k])
    BY <1>1, <1>9
  <2>2. n + 1 \in 1..N /\ n + 1 # N /\ (n + 1) - 1 = n /\ n \in 0..N /\ N - (n + 1) = k
        /\ k \in 1..N /\ k \in 0..N /\ k - 1 = (N - 1) - (n + 1) /\ k - 1 \in 0..N /\ N - 1 \in 0..N
    BY <1>1, <1>9
  <2>. HIDE DEF k, Good
  <2>3. g[n+1] = g[n] + U(n + 1)
    BY <1>4, <2>2
  <2>4. U(n + 1) = -T(k)
    BY <1>6, <2>2
  <2>5. f[k] = f[k-1] + T(k)
    BY <1>3, <2>2
  <2>6. f[k] \in Int /\ f[k-1] \in Int /\ T(k) \in Int /\ f[N-1] \in Int /\ g[n] \in Int
    BY <1>3, <1>4, <1>5, <2>2
  <2>7. g[n+1] = -(f[N-1] - f[k-1])
    <3>. DEFINE a == f[N-1]
                b == f[k]
                c == f[k-1]
                t == T(k)
                d == g[n]
                e == g[n+1]
                u == U(n + 1)
    <3>1. d = -(a - b) /\ e = d + u /\ u = -t /\ b = c + t
      BY <2>1, <2>3, <2>4, <2>5
    <3>2. a \in Int /\ b \in Int /\ c \in Int /\ t \in Int /\ d \in Int
      BY <2>6
    <3>. HIDE DEF a, b, c, d, e, t, u
    <3>3. e = -(a - c)
      BY <3>1, <3>2
    <3>. QED BY <3>3 DEF a, c, e
  <2>. QED BY <2>2, <2>7
<1>10. Good = Nat
  <2>1. \A n \in Good : n + 1 < N => g[n+1] = -(f[N-1] - f[(N-1)-(n+1)])
    BY <1>9
  <2>2. ASSUME NEW n \in Good PROVE n + 1 \in Good
    <3>1. n \in Nat /\ n + 1 \in Nat
      OBVIOUS
    <3>. QED BY <2>1, <3>1
  <2>3. Good \in SUBSET Nat
    OBVIOUS
  <2>. HIDE DEF Good
  <2>. QED BY <1>8, <2>2, <2>3, NatSetInduction
<1>11. f[N] \in Int /\ g[N] = -f[N]
  <2>1. CASE N = 0
    BY <1>3, <1>4, <2>1
  <2>2. CASE N > 0
    <3>1. N - 1 \in Nat /\ N - 1 < N /\ (N - 1) - (N - 1) = 0 /\ N \in 1..N /\ N \in 0..N
          /\ N - 1 \in 0..N
      BY <1>1, <2>2
    <3>2. N - 1 \in Good
      <4>. HIDE DEF Good
      <4>. QED BY <1>10, <3>1
    <3>3. g[N-1] = -(f[N-1] - f[0])
      BY <3>1, <3>2
    <3>4. g[N] = g[N-1] + U(N) /\ f[N] = f[N-1] + T(N) /\ U(N) = -T(N)
      BY <1>3, <1>4, <1>7, <2>2, <3>1
    <3>5. f[N-1] \in Int /\ f[N] \in Int /\ T(N) \in Int /\ g[N-1] \in Int /\ f[0] = 0
      BY <1>3, <1>4, <1>5, <3>1
    <3>. QED BY <3>3, <3>4, <3>5
  <2>. QED BY <1>1, <2>1, <2>2
<1>. QED BY <1>2, <1>11 DEF Shoelace, f, g, p, q, N

\* The polygon meets every corner once and goes along all walls.
RunsAlong(polygon, nodes, edges) ==
  LET Side(i, k) ==
        {nodes[edges[k].a], nodes[edges[k].b]} = {polygon[i], polygon[Following(polygon, i)]}
  IN /\ polygon \in Seq(Point) /\ Len(polygon) = Len(edges)
     /\ IsInjective(polygon) /\ ToSet(polygon) = ToSet(nodes)
     /\ \A i \in DOMAIN polygon : \E k \in DOMAIN edges : Side(i, k)
     /\ \A k \in DOMAIN edges : \E i \in DOMAIN polygon : Side(i, k)

LEMMA ReverseRuns ==
  ASSUME NEW polygon \in Seq(Point), NEW nodes, NEW edges, RunsAlong(polygon, nodes, edges)
  PROVE  RunsAlong(Reverse(polygon), nodes, edges)
<1>. DEFINE p == polygon
            q == Reverse(p)
            N == Len(p)
            Leads(k, x, y) == {nodes[edges[k].a], nodes[edges[k].b]} = {x, y}
<1>1. q \in Seq(Point) /\ N = Len(edges)
  BY ReverseTyped DEF RunsAlong
<1>2. N \in Nat /\ DOMAIN p = 1..N /\ DOMAIN q = 1..N /\ Len(q) = N
      /\ \A i \in 1..N : (N - i) + 1 \in 1..N /\ q[i] = p[(N - i) + 1]
  BY ReverseTyped, LenProperties
<1>3. IsInjective(p) /\ ToSet(p) = ToSet(nodes)
  BY DEF RunsAlong
<1>4. /\ \A i \in 1..N : \E k \in DOMAIN edges : Leads(k, p[i], p[Following(p, i)])
      /\ \A k \in DOMAIN edges : \E i \in 1..N : Leads(k, p[i], p[Following(p, i)])
  BY <1>2 DEF RunsAlong
<1>5. \A k, x, y : Leads(k, x, y) => Leads(k, y, x)
  <2>1. \A x, y : {x, y} = {y, x}
    OBVIOUS
  <2>. QED BY <2>1
<1>. HIDE DEF p, q, N, Leads
<1>6. IsInjective(q)
  <2>1. SUFFICES ASSUME NEW i \in 1..N, NEW j \in 1..N, q[i] = q[j] PROVE i = j
    BY <1>2 DEF IsInjective
  <2>2. /\ (N - i) + 1 \in DOMAIN p /\ (N - j) + 1 \in DOMAIN p
        /\ p[(N - i) + 1] = p[(N - j) + 1]
    BY <1>2, <2>1
  <2>3. (N - i) + 1 = (N - j) + 1
    BY <1>3, <2>2 DEF IsInjective
  <2>. QED BY <1>2, <2>3
<1>7. ToSet(q) = ToSet(p)
  <2>1. \A i \in 1..N : \E j \in 1..N : q[j] = p[i]
    <3>1. \A i \in 1..N : (N - ((N - i) + 1)) + 1 = i
      BY <1>2
    <3>. QED BY <1>2, <3>1
  <2>2. \A j \in 1..N : \E i \in 1..N : q[j] = p[i]
    BY <1>2
  <2>3. ToSet(q) = {q[j] : j \in 1..N} /\ ToSet(p) = {p[i] : i \in 1..N}
    BY <1>2 DEF ToSet
  <2>. QED BY <2>1, <2>2, <2>3
<1>8. ASSUME NEW i \in 1..N
      PROVE  \E j \in 1..N : \A k : Leads(k, p[j], p[Following(p, j)])
                                       => Leads(k, q[i], q[Following(q, i)])
  <2>1. CASE i = N
    <3>1. 1 \in 1..N /\ (N - N) + 1 = 1 /\ (N - 1) + 1 = N
      BY <1>2, <2>1
    <3>2. Following(q, i) = 1 /\ Following(p, N) = 1 /\ q[i] = p[1] /\ q[1] = p[N]
      BY <1>2, <2>1, <3>1 DEF Following, N
    <3>. QED BY <1>5, <2>1, <3>2
  <2>2. CASE i # N
    <3>1. N - i \in 1..N /\ i + 1 \in 1..N /\ (N - i) # N /\ (N - (i + 1)) + 1 = N - i
      BY <1>2, <2>2
    <3>2. Following(q, i) = i + 1 /\ Following(p, N - i) = (N - i) + 1
          /\ q[i] = p[(N - i) + 1] /\ q[i + 1] = p[N - i]
      BY <1>2, <2>2, <3>1 DEF Following, N
    <3>. QED BY <1>5, <3>1, <3>2
  <2>. QED BY <2>1, <2>2
<1>9. ASSUME NEW i \in 1..N
      PROVE  \E j \in 1..N : \A k : Leads(k, p[i], p[Following(p, i)])
                                       => Leads(k, q[j], q[Following(q, j)])
  <2>1. CASE i = N
    <3>1. N \in 1..N /\ 1 \in 1..N /\ (N - N) + 1 = 1 /\ (N - 1) + 1 = N
      BY <1>2, <2>1
    <3>2. Following(q, N) = 1 /\ Following(p, i) = 1 /\ q[N] = p[1] /\ q[1] = p[N]
      BY <1>2, <2>1, <3>1 DEF Following, N
    <3>. QED BY <1>5, <2>1, <3>1, <3>2
  <2>2. CASE i # N
    <3>1. /\ N - i \in 1..N /\ (N - i) # N /\ (N - i) + 1 \in 1..N
          /\ (N - (N - i)) + 1 = i + 1 /\ (N - ((N - i) + 1)) + 1 = i
      BY <1>2, <2>2
    <3>2. Following(q, N - i) = (N - i) + 1 /\ Following(p, i) = i + 1
          /\ q[N - i] = p[i + 1] /\ q[(N - i) + 1] = p[i]
      BY <1>2, <2>2, <3>1 DEF Following, N
    <3>. QED BY <1>5, <3>1, <3>2
  <2>. QED BY <2>1, <2>2
<1>10. \A i \in 1..N : \E k \in DOMAIN edges : Leads(k, q[i], q[Following(q, i)])
  BY <1>4, <1>8
<1>11. \A k \in DOMAIN edges : \E i \in 1..N : Leads(k, q[i], q[Following(q, i)])
  <2>1. SUFFICES ASSUME NEW k \in DOMAIN edges
                 PROVE  \E i \in 1..N : Leads(k, q[i], q[Following(q, i)])
    OBVIOUS
  <2>2. PICK i \in 1..N : Leads(k, p[i], p[Following(p, i)])
    BY <1>4
  <2>. QED BY <1>9, <2>2
<1>12. ToSet(q) = ToSet(nodes)
  BY <1>3, <1>7
<1>. QED BY <1>1, <1>2, <1>6, <1>10, <1>11, <1>12 DEF RunsAlong, Leads, p, q

\* The polygon of a walk around all walls.
PolygonOf(nodes, walk) == [i \in 1..(Len(walk.order) - 1) |-> nodes[walk.order[i]]]

LEMMA PolygonRuns ==
  ASSUME NEW nodes \in Seq(Point), Apart(nodes), NEW m \in Nat, m = Len(nodes),
         NEW edges, Regular(edges, m), NEW w, WalkInv(edges, m, w), Stuck(edges, w),
         w.used = DOMAIN edges
  PROVE  RunsAlong(PolygonOf(nodes, w), nodes, edges)
<1>. DEFINE o == w.order
            N == Len(o) - 1
            p == PolygonOf(nodes, w)
            Leads(k, x, y) == {nodes[edges[k].a], nodes[edges[k].b]} = {x, y}
<1>1. /\ N \in Nat \ {0} /\ Len(o) = N + 1 /\ o[1] = o[N + 1]
      /\ \A j \in 1..(N + 1) : o[j] \in 1..m
  BY WalkIsClosed, WalkTypes DEF WalkInv
<1>2. DOMAIN nodes = 1..m /\ \A n \in 1..m : nodes[n] \in Point
  BY LenProperties
<1>3. \A n, k \in 1..m : nodes[n] = nodes[k] => n = k
  BY <1>2, NearItself DEF Apart
<1>4. p = [i \in 1..N |-> nodes[o[i]]] /\ \A i \in 1..N : i \in 1..(N + 1)
  BY <1>1 DEF PolygonOf
<1>. HIDE DEF p
<1>5. (\A i \in 1..N : p[i] = nodes[o[i]] /\ o[i] \in 1..m) /\ DOMAIN p = 1..N
  BY <1>1, <1>4
<1>6. p \in Seq(Point) /\ Len(p) = N
  <2>1. \A i \in 1..N : nodes[o[i]] \in Point
    BY <1>2, <1>5
  <2>2. p \in Seq(Point)
    <3>. DEFINE Nth(i) == nodes[o[i]]
    <3>1. p = [i \in 1..N |-> Nth(i)] /\ \A i \in 1..N : Nth(i) \in Point
      BY <1>4, <2>1
    <3>. HIDE DEF Nth, N
    <3>. QED BY <1>1, <3>1, IsASeq
  <2>3. Len(p) \in Nat /\ DOMAIN p = 1..Len(p)
    BY <2>2, LenProperties
  <2>4. 1..Len(p) = 1..N /\ N \in Nat
    BY <1>1, <1>5, <2>3
  <2>. HIDE DEF N
  <2>5. Len(p) = N
    <3>1. Cardinality(1..Len(p)) = Len(p) /\ Cardinality(1..N) = N
      BY <2>3, <2>4, IntervalSize
    <3>. QED BY <2>4, <3>1
  <2>. QED BY <2>2, <2>5
<1>7. IsInjective(p)
  <2>1. SUFFICES ASSUME NEW i \in 1..N, NEW j \in 1..N, p[i] = p[j] PROVE i = j
    BY <1>5 DEF IsInjective
  <2>2. o[i] = o[j]
    BY <1>3, <1>5, <2>1
  <2>3. i \in 1..Len(o) /\ j \in 1..Len(o) /\ i # Len(o) /\ j # Len(o)
    BY <1>1
  <2>4. Simple(o)
    BY DEF WalkInv
  <2>5. ~ (i < j) /\ ~ (j < i)
    BY <2>2, <2>3, <2>4 DEF Simple
  <2>. QED BY <2>5
<1>8. ToSet(p) = ToSet(nodes)
  <2>1. ASSUME NEW n \in 1..m PROVE \E i \in 1..N : p[i] = nodes[n]
    <3>1. PICK j \in 1..Len(o) : o[j] = n
      BY AllVisited DEF Visited
    <3>2. CASE j = N + 1
      <4>. HIDE DEF N
      <4>1. 1 \in 1..N /\ o[1] = n
        BY <1>1, <3>1, <3>2
      <4>. QED BY <1>5, <4>1
    <3>3. CASE j # N + 1
      <4>1. j \in 1..N
        BY <1>1, <3>3
      <4>. QED BY <1>5, <3>1, <4>1
    <3>. QED BY <3>2, <3>3
  <2>2. \A i \in 1..N : \E n \in 1..m : p[i] = nodes[n]
    BY <1>5
  <2>3. ToSet(p) = {p[i] : i \in 1..N} /\ ToSet(nodes) = {nodes[n] : n \in 1..m}
    BY <1>2, <1>5 DEF ToSet
  <2>. QED BY <2>1, <2>2, <2>3
<1>9. ASSUME NEW i \in 1..N
      PROVE  p[i] = nodes[o[i]] /\ p[Following(p, i)] = nodes[o[i+1]]
  <2>1. CASE i = N
    <3>1. Following(p, i) = 1 /\ 1 \in 1..N
      BY <1>1, <1>6, <2>1 DEF Following
    <3>. QED BY <1>1, <1>5, <2>1, <3>1
  <2>2. CASE i # N
    <3>1. Following(p, i) = i + 1 /\ i + 1 \in 1..N
      BY <1>1, <1>6, <2>2 DEF Following
    <3>. QED BY <1>5, <3>1
  <2>. QED BY <2>1, <2>2
<1>10. \A i \in 1..N : \A k : Joins(edges, k, o[i], o[i+1]) => Leads(k, p[i], p[Following(p, i)])
  <2>1. SUFFICES ASSUME NEW i \in 1..N, NEW k, Joins(edges, k, o[i], o[i+1])
                 PROVE  {nodes[edges[k].a], nodes[edges[k].b]} = {p[i], p[Following(p, i)]}
    OBVIOUS
  <2>2. {nodes[edges[k].a], nodes[edges[k].b]} = {nodes[o[i]], nodes[o[i+1]]}
    BY <2>1 DEF Joins
  <2>. QED BY <1>9, <2>2
<1>11. Len(edges) = N
  <2>1. Len(edges) \in Nat /\ DOMAIN edges = 1..Len(edges)
    BY LenProperties DEF Regular, Graphs
  <2>2. Cardinality(w.used) = Len(edges)
    BY <2>1, IntervalSize
  <2>. QED BY <2>2 DEF WalkInv, Counted
<1>12. /\ \A i \in 1..N : \E k \in DOMAIN edges : Joins(edges, k, o[i], o[i+1])
       /\ \A k \in DOMAIN edges : \E i \in 1..N : Joins(edges, k, o[i], o[i+1])
  BY DEF WalkInv, Along
<1>. HIDE DEF N, o, Leads
<1>13. /\ \A i \in 1..N : \E k \in DOMAIN edges : Leads(k, p[i], p[Following(p, i)])
       /\ \A k \in DOMAIN edges : \E i \in 1..N : Leads(k, p[i], p[Following(p, i)])
  BY <1>10, <1>12
<1>. QED BY <1>5, <1>6, <1>7, <1>8, <1>11, <1>13 DEF RunsAlong, Leads, p

First(edges, n) == CHOOSE i : i \in Incident(edges, n)

LEMMA FirstAndOther ==
  ASSUME NEW m \in Nat, NEW edges, Regular(edges, m), NEW n \in 1..m
  PROVE  /\ First(edges, n) \in Incident(edges, n)
         /\ \E j : Incident(edges, n) \ {First(edges, n)} = {j}
<1>1. PICK x, y \in DOMAIN edges : x # y /\ Incident(edges, n) = {x, y}
  BY TwoWalls
<1>2. First(edges, n) \in {x, y}
  BY <1>1 DEF First
<1>3. CASE First(edges, n) = x
  <2>1. {x, y} \ {x} = {y}
    BY <1>1
  <2>. QED BY <1>1, <1>2, <1>3, <2>1
<1>4. CASE First(edges, n) = y
  <2>1. {x, y} \ {y} = {x}
    BY <1>1
  <2>. QED BY <1>1, <1>2, <1>4, <2>1
<1>. QED BY <1>2, <1>3, <1>4

\* There are as many walls as corners: both have two ends.
LEMMA AsManyWalls ==
  ASSUME NEW m \in Nat, NEW edges, Regular(edges, m)
  PROVE  Len(edges) = m
<1>. DEFINE N == Len(edges)
            EndAt(i, s) == IF s = 1 THEN edges[i].a ELSE edges[i].b
            Slot(i, n) == IF i = First(edges, n) THEN 1 ELSE 2
            f == [e \in (1..N) \X {1, 2} |->
                    <<EndAt(e[1], e[2]), Slot(e[1], EndAt(e[1], e[2]))>>]
<1>1. N \in Nat /\ DOMAIN edges = 1..N
  BY LenProperties DEF Regular, Graphs
<1>2. ASSUME NEW i \in 1..N, NEW s \in {1, 2}
      PROVE  /\ EndAt(i, s) \in 1..m /\ i \in Incident(edges, EndAt(i, s))
             /\ EndAt(i, 1) # EndAt(i, 2)
  BY <1>1, RegularEdge DEF Incident
<1>3. ASSUME NEW n \in 1..m, NEW i \in Incident(edges, n)
      PROVE  i \in 1..N /\ \E s \in {1, 2} : EndAt(i, s) = n
  <2>1. i \in 1..N /\ n \in {edges[i].a, edges[i].b}
    BY <1>1, <1>3 DEF Incident
  <2>2. CASE n = edges[i].a
    <3>1. EndAt(i, 1) = n
      BY <2>2
    <3>. QED BY <2>1, <3>1
  <2>3. CASE n = edges[i].b
    <3>1. EndAt(i, 2) = n
      BY <2>3
    <3>. QED BY <2>1, <3>1
  <2>. QED BY <2>1, <2>2, <2>3
<1>. HIDE DEF N, EndAt
<1>4. \A i \in 1..N, s \in {1, 2} :
        f[<<i, s>>] = <<EndAt(i, s), Slot(i, EndAt(i, s))>>
  OBVIOUS
<1>5. f \in [(1..N) \X {1, 2} -> (1..m) \X {1, 2}]
  <2>1. \A i \in 1..N, s \in {1, 2} :
          <<EndAt(i, s), Slot(i, EndAt(i, s))>> \in (1..m) \X {1, 2}
    BY <1>2
  <2>2. \A e \in (1..N) \X {1, 2} : e[1] \in 1..N /\ e[2] \in {1, 2}
    OBVIOUS
  <2>. QED BY <2>1, <2>2
<1>. HIDE DEF f
<1>6. ASSUME NEW i \in 1..N, NEW s \in {1, 2}, NEW j \in 1..N, NEW t \in {1, 2},
             f[<<i, s>>] = f[<<j, t>>]
      PROVE  i = j /\ s = t
  <2>. DEFINE n == EndAt(i, s)
  <2>1. EndAt(j, t) = n /\ Slot(i, n) = Slot(j, n)
    <3>1. /\ f[<<i, s>>] = <<n, Slot(i, n)>>
          /\ f[<<j, t>>] = <<EndAt(j, t), Slot(j, EndAt(j, t))>>
      BY <1>4
    <3>2. n = EndAt(j, t) /\ Slot(i, n) = Slot(j, EndAt(j, t))
      <4>. HIDE DEF n, Slot
      <4>1. <<n, Slot(i, n)>> = <<EndAt(j, t), Slot(j, EndAt(j, t))>>
        BY <1>6, <3>1
      <4>. QED BY <4>1
    <3>. QED BY <3>2
  <2>2. n \in 1..m /\ i \in Incident(edges, n) /\ j \in Incident(edges, n)
    BY <1>2, <2>1
  <2>. HIDE DEF n
  <2>3. PICK k : Incident(edges, n) \ {First(edges, n)} = {k}
    <3>1. n \in 1..m
      BY <2>2
    <3>2. \E k : Incident(edges, n) \ {First(edges, n)} = {k}
      BY <3>1, FirstAndOther
    <3>. QED BY <3>2
  <2>4. i = j
    BY <2>1, <2>2, <2>3
  <2>5. s = t
    BY <1>2, <2>1, <2>4 DEF n
  <2>. QED BY <2>4, <2>5
<1>7. ASSUME NEW n \in 1..m, NEW k \in {1, 2}
      PROVE  \E i \in 1..N, s \in {1, 2} : f[<<i, s>>] = <<n, k>>
  <2>1. PICK j : /\ First(edges, n) \in Incident(edges, n)
                 /\ Incident(edges, n) \ {First(edges, n)} = {j}
    BY FirstAndOther
  <2>2. PICK i \in Incident(edges, n) : Slot(i, n) = k
    <3>1. CASE k = 1
      BY <2>1, <3>1
    <3>2. CASE k = 2
      BY <2>1, <3>2
    <3>. QED BY <3>1, <3>2
  <2>3. PICK s \in {1, 2} : i \in 1..N /\ EndAt(i, s) = n
    BY <1>3
  <2>. QED BY <1>4, <2>2, <2>3
<1>8. ExistsBijection((1..N) \X {1, 2}, (1..m) \X {1, 2})
  <2>1. IsInjective(f)
    <3>1. \A e \in (1..N) \X {1, 2} : \E i \in 1..N, s \in {1, 2} : e = <<i, s>>
      OBVIOUS
    <3>2. DOMAIN f = (1..N) \X {1, 2}
      BY <1>5
    <3>3. ASSUME NEW d \in (1..N) \X {1, 2}, NEW e \in (1..N) \X {1, 2}, f[d] = f[e]
          PROVE  d = e
      <4>. DEFINE i == d[1]
                  s == d[2]
                  j == e[1]
                  t == e[2]
      <4>1. d = <<i, s>> /\ e = <<j, t>>
        OBVIOUS
      <4>2. i \in 1..N /\ s \in {1, 2} /\ j \in 1..N /\ t \in {1, 2}
        OBVIOUS
      <4>. HIDE DEF i, s, j, t
      <4>3. f[<<i, s>>] = f[<<j, t>>]
        BY <3>3, <4>1
      <4>4. i = j /\ s = t
        <5>. DEFINE Walls == 1..N
                    Sides == {1, 2}
                    Same(a, b, c, g) == f[<<a, b>>] = f[<<c, g>>]
        <5>1. \A a \in Walls, b \in Sides, c \in Walls, g \in Sides :
                Same(a, b, c, g) => a = c /\ b = g
          BY <1>6
        <5>2. i \in Walls /\ s \in Sides /\ j \in Walls /\ t \in Sides /\ Same(i, s, j, t)
          BY <4>2, <4>3
        <5>. HIDE DEF Walls, Sides, Same
        <5>. QED BY <5>1, <5>2
      <4>. QED BY <4>1, <4>4
    <3>. QED BY <3>2, <3>3 DEF IsInjective
  <2>2. \A c \in (1..m) \X {1, 2} : \E e \in (1..N) \X {1, 2} : f[e] = c
    <3>1. \A c \in (1..m) \X {1, 2} : \E n \in 1..m, k \in {1, 2} : c = <<n, k>>
      OBVIOUS
    <3>2. ASSUME NEW c \in (1..m) \X {1, 2}
          PROVE  \E e \in (1..N) \X {1, 2} : f[e] = c
      <4>1. PICK n \in 1..m, k \in {1, 2} : c = <<n, k>>
        BY <3>1
      <4>2. PICK i \in 1..N, s \in {1, 2} : f[<<i, s>>] = <<n, k>>
        BY <1>7
      <4>3. <<i, s>> \in (1..N) \X {1, 2}
        OBVIOUS
      <4>. QED BY <4>1, <4>2, <4>3
    <3>. QED BY <3>2
  <2>. QED BY <1>5, <2>1, <2>2 DEF ExistsBijection, Bijection, Injection, Surjection
<1>9. IsFiniteSet({1, 2}) /\ Cardinality({1, 2}) = 2
  <2>1. {1, 2} = 1..2
    OBVIOUS
  <2>. QED BY <2>1, IntervalSize
<1>10. ASSUME NEW n \in Nat
       PROVE  /\ IsFiniteSet((1..n) \X {1, 2})
              /\ Cardinality((1..n) \X {1, 2}) = n * 2
  <2>. DEFINE S == 1..n
              T == {1, 2}
  <2>1. IsFiniteSet(S) /\ Cardinality(S) = n /\ IsFiniteSet(T) /\ Cardinality(T) = 2
    BY <1>9, IntervalSize
  <2>. HIDE DEF S, T
  <2>2. IsFiniteSet(S \X T)
    BY <2>1, FS_Product
  <2>3. Cardinality(S \X T) = Cardinality(S) * Cardinality(T)
    BY <2>1, FS_Product
  <2>4. Cardinality(S \X T) = n * 2
    BY <2>1, <2>3
  <2>. QED BY <2>2, <2>4 DEF S, T
<1>11. Cardinality((1..N) \X {1, 2}) = Cardinality((1..m) \X {1, 2})
  BY <1>1, <1>8, <1>10, FS_Bijection
<1>12. N * 2 = m * 2
  BY <1>1, <1>10, <1>11
<1>13. N = m
  BY <1>1, <1>12
<1>. QED BY <1>13 DEF N

-----------------------------------------------------------------------------
(* assembleClosedLoop makes a boundary of one ring *)

\* The checks that the walls pass before the area of their polygon is taken.
Passes(segments) ==
  LET nodes == Nodes(segments)
      edges == Edges(segments)
      walk == Walk(edges)
  IN /\ Len(segments) >= 3
     /\ \A i \in DOMAIN edges : edges[i].a # edges[i].b
     /\ \A n \in DOMAIN nodes : Degree(edges, n) = 2
     /\ Len(nodes) = Len(segments)
     /\ walk.used = DOMAIN edges
     /\ walk.order[1] = Last(walk.order)

LEMMA LoopPasses ==
  ASSUME NEW segments \in Seq(Span)
  PROVE  LET loop == AssembleClosedLoop(segments)
             polygon == PolygonOf(Nodes(segments), Walk(Edges(segments)))
         IN /\ loop.ok \/ loop.reason \in {"degenerate_polygon", "near_zero_area"}
                 <=> Passes(segments)
            /\ loop.ok => /\ Passes(segments) /\ ~NearZero(EnsureCcw(polygon))
                          /\ loop.polygon = EnsureCcw(polygon)
<1>. DEFINE nodes == Nodes(segments)
            edges == Edges(segments)
            walk == Walk(edges)
            polygon == PolygonOf(nodes, walk)
            loop == AssembleClosedLoop(segments)
            few == Len(segments) < 3
            point == \E i \in DOMAIN edges : edges[i].a = edges[i].b
            branching == \E n \in DOMAIN nodes : Degree(edges, n) # 2
            counts == Len(nodes) # Len(segments)
            apart == walk.used # DOMAIN edges
            open == walk.order[1] # Last(walk.order)
            flat == Shoelace(polygon) = 0
            small == NearZero(EnsureCcw(polygon))
            Un(reason) == [ok |-> FALSE, reason |-> reason, polygon |-> <<>>]
<1>1. loop = IF few THEN Un("fewer_than_three_segments")
             ELSE IF point THEN Un("degenerate_segment")
             ELSE IF branching THEN Un("open_or_branching_corners")
             ELSE IF counts THEN Un("corner_segment_count_mismatch")
             ELSE IF apart THEN Un("disconnected_segments")
             ELSE IF open THEN Un("loop_does_not_close")
             ELSE IF flat THEN Un("degenerate_polygon")
             ELSE IF small THEN Un("near_zero_area")
             ELSE [ok |-> TRUE, reason |-> "none", polygon |-> EnsureCcw(polygon)]
  BY DEF AssembleClosedLoop, Unprocessed, VisitsAll, PolygonOf
<1>2. Passes(segments)
        <=> (Len(segments) >= 3 /\ ~point /\ ~branching /\ ~counts /\ ~apart /\ ~open)
  BY DEF Passes
<1>. QED BY <1>1, <1>2

LEMMA RegularLoop ==
  ASSUME NEW segments \in Seq(Span), Len(segments) >= 3,
         \A i \in DOMAIN Edges(segments) : Edges(segments)[i].a # Edges(segments)[i].b,
         \A n \in DOMAIN Nodes(segments) : Degree(Edges(segments), n) = 2
  PROVE  /\ Regular(Edges(segments), Len(Nodes(segments)))
         /\ WalkInv(Edges(segments), Len(Nodes(segments)), Walk(Edges(segments)))
         /\ Stuck(Edges(segments), Walk(Edges(segments)))
<1>. DEFINE nodes == Nodes(segments)
            edges == Edges(segments)
            m == Len(nodes)
<1>1. nodes \in Seq(Point) /\ m \in Nat /\ DOMAIN nodes = 1..m
  BY NodesCover, LenProperties
<1>2. edges \in Graphs(m) /\ Len(edges) = Len(segments)
  BY EdgesTyped
<1>3. edges # <<>>
  BY <1>2, LenProperties
<1>4. Regular(edges, m)
  BY <1>1, <1>2 DEF Regular
<1>. HIDE DEF nodes, edges, m
<1>5. WalkInv(edges, m, Walk(edges)) /\ Stuck(edges, Walk(edges))
  BY <1>1, <1>3, <1>4, WalkEnds
<1>. QED BY <1>4, <1>5 DEF nodes, edges, m

\* The edges are one ring through corners 1..m.
EdgeRing(edges, m) ==
  /\ Len(edges) >= 3
  /\ \A i \in DOMAIN edges : edges[i].a # edges[i].b
  /\ \A n \in 1..m : Degree(edges, n) = 2
  /\ Connected(edges, m)

\* The checks are those of one ring.
LEMMA PassesIsRing ==
  ASSUME NEW segments \in Seq(Span)
  PROVE  Passes(segments) <=> EdgeRing(Edges(segments), Len(Nodes(segments)))
<1>. DEFINE nodes == Nodes(segments)
            edges == Edges(segments)
            walk == Walk(edges)
            m == Len(nodes)
<1>1. nodes \in Seq(Point) /\ m \in Nat /\ DOMAIN nodes = 1..m
  BY NodesCover, LenProperties
<1>2. Len(edges) = Len(segments)
  BY EdgesTyped
<1>3. ASSUME Len(segments) >= 3, \A i \in DOMAIN edges : edges[i].a # edges[i].b,
             \A n \in DOMAIN nodes : Degree(edges, n) = 2
      PROVE  /\ Regular(edges, m) /\ WalkInv(edges, m, walk) /\ Stuck(edges, walk)
             /\ walk.order[1] = Last(walk.order)
  <2>1. Regular(edges, m) /\ WalkInv(edges, m, walk) /\ Stuck(edges, walk)
    BY <1>3, RegularLoop
  <2>. HIDE DEF nodes, edges, m, walk
  <2>2. walk.order[1] = walk.order[Len(walk.order)]
    BY <1>1, <2>1, WalkIsClosed
  <2>3. walk.order[1] = Last(walk.order)
    BY <2>2 DEF Last
  <2>. QED BY <2>1, <2>3
<1>4. ASSUME Passes(segments) PROVE EdgeRing(edges, m)
  <2>1. /\ Len(segments) >= 3 /\ \A i \in DOMAIN edges : edges[i].a # edges[i].b
        /\ \A n \in DOMAIN nodes : Degree(edges, n) = 2
        /\ walk.used = DOMAIN edges
    BY <1>4 DEF Passes
  <2>2. Regular(edges, m) /\ WalkInv(edges, m, walk)
    BY <1>3, <2>1
  <2>. HIDE DEF nodes, edges, m, walk
  <2>3. Connected(edges, m)
    BY <1>1, <2>1, <2>2, WalkedIsRing
  <2>. QED BY <1>1, <1>2, <2>1, <2>3 DEF EdgeRing
<1>5. ASSUME EdgeRing(edges, m) PROVE Passes(segments)
  <2>1. /\ Len(segments) >= 3 /\ \A i \in DOMAIN edges : edges[i].a # edges[i].b
        /\ \A n \in DOMAIN nodes : Degree(edges, n) = 2
    BY <1>1, <1>2, <1>5 DEF EdgeRing
  <2>2. /\ Regular(edges, m) /\ WalkInv(edges, m, walk) /\ Stuck(edges, walk)
        /\ walk.order[1] = Last(walk.order)
    BY <1>3, <2>1
  <2>3. walk.used = DOMAIN edges /\ m = Len(edges)
    <3>. HIDE DEF nodes, edges, m, walk
    <3>1. Connected(edges, m)
      BY <1>5 DEF EdgeRing
    <3>. QED BY <1>1, <2>2, <3>1, RingIsWalked
  <2>. QED BY <1>2, <2>1, <2>2, <2>3 DEF Passes
<1>. QED BY <1>4, <1>5

LEMMA LoopIsRing ==
  ASSUME NEW segments \in Seq(Span), NEW loop, loop = AssembleClosedLoop(segments)
  PROVE  /\ loop.ok \/ loop.reason \in {"degenerate_polygon", "near_zero_area"}
              <=> EdgeRing(Edges(segments), Len(Nodes(segments)))
         /\ loop.ok => /\ Shoelace(loop.polygon) > 1
                       /\ RunsAlong(loop.polygon, Nodes(segments), Edges(segments))
<1>. DEFINE nodes == Nodes(segments)
            edges == Edges(segments)
            walk == Walk(edges)
            m == Len(nodes)
            p == PolygonOf(nodes, walk)
<1>1. loop.ok \/ loop.reason \in {"degenerate_polygon", "near_zero_area"}
        <=> EdgeRing(edges, m)
  BY LoopPasses, PassesIsRing
<1>2. ASSUME loop.ok
      PROVE  Shoelace(loop.polygon) > 1 /\ RunsAlong(loop.polygon, nodes, edges)
  <2>1. Passes(segments) /\ ~NearZero(EnsureCcw(p)) /\ loop.polygon = EnsureCcw(p)
    BY <1>2, LoopPasses
  <2>2. /\ Regular(edges, m) /\ WalkInv(edges, m, walk) /\ Stuck(edges, walk)
        /\ walk.used = DOMAIN edges
    BY <2>1, RegularLoop DEF Passes
  <2>3. nodes \in Seq(Point) /\ Apart(nodes) /\ m \in Nat
    BY NodesCover, LenProperties
  <2>4. RunsAlong(p, nodes, edges)
    <3>. HIDE DEF edges, walk, p
    <3>1. m = Len(nodes)
      OBVIOUS
    <3>. HIDE DEF nodes, m
    <3>. QED BY <2>2, <2>3, <3>1, PolygonRuns DEF p
  <2>. HIDE DEF p, nodes, edges
  <2>5. p \in Seq(Point)
    BY <2>4 DEF RunsAlong
  <2>6. /\ RunsAlong(Reverse(p), nodes, edges)
        /\ Shoelace(p) \in Int /\ Shoelace(Reverse(p)) = -Shoelace(p)
    BY <2>4, <2>5, ReverseRuns, ReverseArea
  <2>7. CASE Shoelace(p) > 0
    <3>1. loop.polygon = p
      BY <2>1, <2>7 DEF EnsureCcw
    <3>2. Shoelace(p) > 1
      BY <2>1, <2>6, <2>7, <3>1 DEF NearZero
    <3>. QED BY <2>4, <3>1, <3>2
  <2>8. CASE ~ (Shoelace(p) > 0)
    <3>1. loop.polygon = Reverse(p)
      BY <2>1, <2>8 DEF EnsureCcw
    <3>2. Shoelace(Reverse(p)) > 1
      BY <2>1, <2>6, <2>8, <3>1 DEF NearZero
    <3>. QED BY <2>6, <3>1, <3>2
  <2>. QED BY <2>7, <2>8
<1>. QED BY <1>1, <1>2

\* Two of the checks cannot fail after the others.
LEMMA NeverGiven ==
  ASSUME NEW segments \in Seq(Span)
  PROVE  AssembleClosedLoop(segments).reason
           \notin {"corner_segment_count_mismatch", "loop_does_not_close"}
<1>. DEFINE nodes == Nodes(segments)
            edges == Edges(segments)
            walk == Walk(edges)
            m == Len(nodes)
            loop == AssembleClosedLoop(segments)
<1>1. ASSUME Len(segments) >= 3, \A i \in DOMAIN edges : edges[i].a # edges[i].b,
             \A n \in DOMAIN nodes : Degree(edges, n) = 2
      PROVE  Len(nodes) = Len(segments) /\ walk.order[1] = Last(walk.order)
  <2>1. Regular(edges, m) /\ WalkInv(edges, m, walk) /\ Stuck(edges, walk)
    BY <1>1, RegularLoop
  <2>2. m \in Nat /\ Len(edges) = Len(segments)
    BY NodesCover, EdgesTyped, LenProperties
  <2>3. Len(edges) = m
    <3>. HIDE DEF edges, m
    <3>. QED BY <2>1, <2>2, AsManyWalls
  <2>4. walk.order[1] = walk.order[Len(walk.order)]
    <3>. HIDE DEF edges, m, walk
    <3>. QED BY <2>1, <2>2, WalkIsClosed
  <2>. QED BY <2>2, <2>3, <2>4 DEF Last
<1>2. Len(segments) \in Nat
  BY LenProperties
<1>. DEFINE few == Len(segments) < 3
            point == \E i \in DOMAIN edges : edges[i].a = edges[i].b
            branching == \E n \in DOMAIN nodes : Degree(edges, n) # 2
            counts == Len(nodes) # Len(segments)
            apart == walk.used # DOMAIN edges
            open == walk.order[1] # Last(walk.order)
            flat == Shoelace(PolygonOf(nodes, walk)) = 0
            small == NearZero(EnsureCcw(PolygonOf(nodes, walk)))
            Un(reason) == [ok |-> FALSE, reason |-> reason, polygon |-> <<>>]
<1>3. loop = IF few THEN Un("fewer_than_three_segments")
             ELSE IF point THEN Un("degenerate_segment")
             ELSE IF branching THEN Un("open_or_branching_corners")
             ELSE IF counts THEN Un("corner_segment_count_mismatch")
             ELSE IF apart THEN Un("disconnected_segments")
             ELSE IF open THEN Un("loop_does_not_close")
             ELSE IF flat THEN Un("degenerate_polygon")
             ELSE IF small THEN Un("near_zero_area")
             ELSE [ok |-> TRUE, reason |-> "none",
                   polygon |-> EnsureCcw(PolygonOf(nodes, walk))]
  BY DEF AssembleClosedLoop, Unprocessed, VisitsAll, PolygonOf
<1>4. ~few /\ ~point /\ ~branching => ~counts /\ ~open
  BY <1>1, <1>2
<1>. HIDE DEF few, point, branching, counts, apart, open, flat, small, loop
<1>5. loop.reason \notin {"corner_segment_count_mismatch", "loop_does_not_close"}
  BY <1>3, <1>4
<1>. QED BY <1>5 DEF loop

-----------------------------------------------------------------------------
(* The boundary against the ends as captured *)

\* A polygon along the edges is an outline of the walls.
LEMMA RunsOutline ==
  ASSUME NEW segments \in Seq(Span), NEW polygon,
         RunsAlong(polygon, Nodes(segments), Edges(segments))
  PROVE  Outlines(polygon, segments)
<1>. DEFINE nodes == Nodes(segments)
            edges == Edges(segments)
            N == Len(segments)
            Ahead(i) == polygon[Following(polygon, i)]
            Leads(k, x, y) == {nodes[edges[k].a], nodes[edges[k].b]} = {x, y}
<1>1. /\ polygon \in Seq(Point) /\ Len(polygon) = Len(edges)
      /\ IsInjective(polygon) /\ ToSet(polygon) = ToSet(nodes)
      /\ \A i \in DOMAIN polygon : \E k \in DOMAIN edges : Leads(k, polygon[i], Ahead(i))
      /\ \A k \in DOMAIN edges : \E i \in DOMAIN polygon : Leads(k, polygon[i], Ahead(i))
  BY DEF RunsAlong
<1>2. /\ nodes \in Seq(Point) /\ DOMAIN nodes = 1..Len(nodes) /\ Apart(nodes)
      /\ \A n \in DOMAIN nodes : nodes[n] \in Ends(segments)
  BY NodesCover, LenProperties
<1>3. DOMAIN segments = 1..N /\ DOMAIN edges = 1..N /\ Len(edges) = N
  BY EdgesTyped, LenProperties
<1>4. \A k \in 1..N : Near(nodes[edges[k].a], segments[k][1])
                        /\ Near(nodes[edges[k].b], segments[k][2])
  BY EdgesNear
<1>. HIDE DEF nodes, edges, N
<1>5. ASSUME NEW k \in 1..N, NEW x, NEW y, Leads(k, x, y)
      PROVE  LiesAlong(segments[k], x, y)
  <2>1. \/ nodes[edges[k].a] = x /\ nodes[edges[k].b] = y
        \/ nodes[edges[k].a] = y /\ nodes[edges[k].b] = x
    BY <1>5
  <2>. QED BY <1>4, <2>1 DEF LiesAlong
<1>6. \A i \in DOMAIN polygon : \E n \in DOMAIN nodes : polygon[i] = nodes[n]
  <2>1. ToSet(polygon) = {polygon[i] : i \in DOMAIN polygon}
        /\ ToSet(nodes) = {nodes[n] : n \in DOMAIN nodes}
    BY DEF ToSet
  <2>2. ToSet(polygon) = ToSet(nodes)
    BY <1>1
  <2>. QED BY <2>1, <2>2
<1>7. ToSet(polygon) \subseteq Ends(segments)
  <2>1. \A i \in DOMAIN polygon : polygon[i] \in Ends(segments)
    BY <1>2, <1>6
  <2>. QED BY <2>1 DEF ToSet
<1>8. ASSUME NEW i \in DOMAIN polygon, NEW j \in DOMAIN polygon, Near(polygon[i], polygon[j])
      PROVE  i = j
  <2>1. PICK n \in DOMAIN nodes, l \in DOMAIN nodes : polygon[i] = nodes[n] /\ polygon[j] = nodes[l]
    BY <1>6
  <2>2. n = l
    BY <1>2, <1>8, <2>1 DEF Apart
  <2>3. IsInjective(polygon)
    BY <1>1
  <2>. QED BY <2>1, <2>2, <2>3 DEF IsInjective
<1>. HIDE DEF Leads
<1>9. /\ \A i \in DOMAIN polygon : \E k \in 1..N : LiesAlong(segments[k], polygon[i], Ahead(i))
      /\ \A k \in 1..N : \E i \in DOMAIN polygon : LiesAlong(segments[k], polygon[i], Ahead(i))
  BY <1>1, <1>3, <1>5
<1>. QED BY <1>1, <1>3, <1>7, <1>8, <1>9 DEF Outlines, N

\* Where no tolerances are chained, the ends near a node are one corner, a node
\* has no other's, and the edges lead where the walls do.
CornerAt(segments) ==
  [n \in 1..Len(Nodes(segments)) |-> Corner(Ends(segments), Nodes(segments)[n])]

LEMMA CornersOfNodes ==
  ASSUME NEW segments \in Seq(Span), Clear(Ends(segments))
  PROVE  LET at == CornerAt(segments)
             corners == {Corner(Ends(segments), p) : p \in Ends(segments)}
             M == 1..Len(Nodes(segments))
         IN /\ \A n \in M : at[n] \in corners
            /\ \A n, l \in M : at[n] = at[l] => n = l
            /\ \A c \in corners : \E n \in M : at[n] = c
            /\ \A i \in 1..Len(segments) :
                 /\ Edges(segments)[i].a \in M /\ Edges(segments)[i].b \in M
                 /\ Corner(Ends(segments), segments[i][1]) = at[Edges(segments)[i].a]
                 /\ Corner(Ends(segments), segments[i][2]) = at[Edges(segments)[i].b]
<1>. DEFINE ends == Ends(segments)
            nodes == Nodes(segments)
            edges == Edges(segments)
            M == 1..Len(nodes)
            N == Len(segments)
            at == CornerAt(segments)
<1>1. /\ DOMAIN nodes = M /\ Apart(nodes) /\ \A n \in M : nodes[n] \in ends
  BY NodesCover, LenProperties
<1>2. DOMAIN segments = 1..N /\ \A i \in 1..N : segments[i] \in Span
  BY LenProperties
<1>3. ends = {segments[i][1] : i \in 1..N} \cup {segments[i][2] : i \in 1..N}
  BY <1>2 DEF Ends
<1>4. \A p \in ends : p \in Point
  BY <1>2, <1>3 DEF Span
<1>5. \A i \in 1..N : /\ edges[i].a \in M /\ Near(nodes[edges[i].a], segments[i][1])
                      /\ edges[i].b \in M /\ Near(nodes[edges[i].b], segments[i][2])
  BY <1>1, EdgesNear
<1>6. at = [n \in M |-> Corner(ends, nodes[n])]
  BY DEF CornerAt
<1>. HIDE DEF ends, nodes, edges, M, N, at
<1>7. ASSUME NEW p \in ends, NEW q \in ends, Near(p, q)
      PROVE  Corner(ends, p) = Corner(ends, q)
  <2>1. Near(q, p)
    BY <1>4, <1>7, NearEither
  <2>2. \A r \in ends : Near(p, r) <=> Near(q, r)
    BY <1>7, <2>1 DEF Clear, ends
  <2>. QED BY <2>2 DEF Corner
<1>8. \A n \in M : at[n] \in {Corner(ends, p) : p \in ends}
  BY <1>1, <1>6
<1>9. ASSUME NEW n \in M, NEW l \in M, at[n] = at[l]
      PROVE  n = l
  <2>1. nodes[l] \in Corner(ends, nodes[l])
    BY <1>1, <1>4, NearItself DEF Corner
  <2>2. Near(nodes[n], nodes[l])
    BY <1>6, <1>9, <2>1 DEF Corner
  <2>. QED BY <1>1, <2>2 DEF Apart
<1>10. \A i \in 1..N : /\ Corner(ends, segments[i][1]) = at[edges[i].a]
                       /\ Corner(ends, segments[i][2]) = at[edges[i].b]
  <2>1. \A i \in 1..N : segments[i][1] \in ends /\ segments[i][2] \in ends
    BY <1>3
  <2>. QED BY <1>1, <1>5, <1>6, <1>7, <2>1
<1>11. ASSUME NEW p \in ends PROVE \E n \in M : at[n] = Corner(ends, p)
  <2>1. PICK i \in 1..N : p = segments[i][1] \/ p = segments[i][2]
    BY <1>3
  <2>. QED BY <1>5, <1>10, <2>1
<1>12. \A c \in {Corner(ends, p) : p \in ends} : \E n \in M : at[n] = c
  BY <1>11
<1>. QED BY <1>5, <1>8, <1>9, <1>10, <1>12 DEF ends, nodes, edges, M, N, at

\* There the edges are one ring exactly when the walls are.
LEMMA EdgeRingIsRing ==
  ASSUME NEW segments \in Seq(Span), Clear(Ends(segments))
  PROVE  EdgeRing(Edges(segments), Len(Nodes(segments))) <=> IsRing(segments)
<1>. DEFINE ends == Ends(segments)
            edges == Edges(segments)
            m == Len(Nodes(segments))
            N == Len(segments)
            at == CornerAt(segments)
            corners == {Corner(ends, p) : p \in ends}
            From(i) == Corner(ends, segments[i][1])
            To(i) == Corner(ends, segments[i][2])
            Ending(c) == Cardinality({i \in 1..N : From(i) = c})
                           + Cardinality({i \in 1..N : To(i) = c})
            TwoEnds == \A c \in corners : Ending(c) = 2
            Whole == \A part \in (SUBSET corners) \ {{}, corners} :
                       \E i \in 1..N : (From(i) \in part) # (To(i) \in part)
<1>1. DOMAIN segments = 1..N /\ DOMAIN edges = 1..N /\ Len(edges) = N
  BY EdgesTyped, LenProperties
<1>2. /\ \A n \in 1..m : at[n] \in corners
      /\ \A n, l \in 1..m : at[n] = at[l] => n = l
      /\ \A c \in corners : \E n \in 1..m : at[n] = c
      /\ \A i \in 1..N : /\ edges[i].a \in 1..m /\ edges[i].b \in 1..m
                         /\ From(i) = at[edges[i].a] /\ To(i) = at[edges[i].b]
  BY CornersOfNodes
<1>3. IsRing(segments) <=> N >= 3 /\ (\A i \in 1..N : From(i) # To(i)) /\ TwoEnds /\ Whole
  BY <1>1 DEF IsRing
<1>. HIDE DEF ends, edges, m, N, at, corners, From, To
<1>4. (\A i \in 1..N : From(i) # To(i)) <=> (\A i \in 1..N : edges[i].a # edges[i].b)
  BY <1>2
<1>5. ASSUME NEW n \in 1..m
      PROVE  Ending(at[n]) = Degree(edges, n)
  <2>1. /\ {i \in 1..N : From(i) = at[n]} = {i \in DOMAIN edges : edges[i].a = n}
        /\ {i \in 1..N : To(i) = at[n]} = {i \in DOMAIN edges : edges[i].b = n}
    BY <1>1, <1>2
  <2>. QED BY <2>1 DEF Degree
<1>. HIDE DEF Ending
<1>6. TwoEnds <=> \A n \in 1..m : Degree(edges, n) = 2
  BY <1>2, <1>5
<1>7. ASSUME Whole PROVE Connected(edges, m)
  <2>1. SUFFICES ASSUME NEW part \in (SUBSET (1..m)) \ {{}, 1..m}
                 PROVE  \E i \in 1..N : (edges[i].a \in part) # (edges[i].b \in part)
    BY <1>1 DEF Connected
  <2>. DEFINE image == {at[n] : n \in part}
  <2>2. part \subseteq 1..m /\ part # {} /\ part # 1..m
    BY <2>1, Zenon
  <2>3. \A n \in 1..m : at[n] \in image <=> n \in part
    BY <1>2, <2>2
  <2>4. image \in SUBSET corners /\ image # {} /\ image # corners
    <3>1. image \subseteq corners /\ image # {}
      BY <1>2, <2>2
    <3>2. PICK n \in 1..m : n \notin part
      BY <2>2
    <3>3. at[n] \in corners /\ at[n] \notin image
      BY <1>2, <2>3, <3>2
    <3>. QED BY <3>1, <3>3
  <2>. HIDE DEF image
  <2>5. image \in (SUBSET corners) \ {{}, corners}
    BY <2>4, Zenon
  <2>6. PICK i \in 1..N : (From(i) \in image) # (To(i) \in image)
    BY <1>7, <2>5
  <2>. QED BY <1>2, <2>3, <2>6
<1>8. ASSUME Connected(edges, m) PROVE Whole
  <2>1. SUFFICES ASSUME NEW part \in (SUBSET corners) \ {{}, corners}
                 PROVE  \E i \in 1..N : (From(i) \in part) # (To(i) \in part)
    OBVIOUS
  <2>. DEFINE origin == {n \in 1..m : at[n] \in part}
  <2>2. part \subseteq corners /\ part # {} /\ part # corners
    BY <2>1, Zenon
  <2>3. origin \in SUBSET (1..m) /\ origin # {} /\ origin # 1..m
    <3>1. PICK c \in part, d \in corners : d \notin part
      BY <2>2
    <3>2. PICK n \in 1..m, l \in 1..m : at[n] = c /\ at[l] = d
      BY <1>2, <2>2, <3>1
    <3>. QED BY <3>1, <3>2
  <2>4. \A n \in 1..m : n \in origin <=> at[n] \in part
    OBVIOUS
  <2>. HIDE DEF origin
  <2>5. origin \in (SUBSET (1..m)) \ {{}, 1..m}
    BY <2>3, Zenon
  <2>6. PICK i \in 1..N : (edges[i].a \in origin) # (edges[i].b \in origin)
    BY <1>1, <1>8, <2>5 DEF Connected
  <2>. QED BY <1>2, <2>4, <2>6
<1>. HIDE DEF Whole, TwoEnds
<1>9. IsRing(segments) <=> EdgeRing(edges, m)
  BY <1>1, <1>3, <1>4, <1>6, <1>7, <1>8 DEF EdgeRing
<1>. QED BY <1>9 DEF edges, m

\* The segments of the captured walls.
LEMMA WallSegmentsTyped ==
  ASSUME CaptureOK
  PROVE  WallSegments \in Seq(Span)
<1>1. Len(walls) \in Nat /\ Placed \in [0..Len(walls) -> Seq(Entry)]
  BY PlacedSteps, LenProperties DEF CaptureOK
<1>2. Entries \in Seq(Entry)
  BY <1>1 DEF Entries
<1>. DEFINE N == Len(Entries)
            Nth(i) == Entries[i].at
<1>3. N \in Nat /\ DOMAIN Entries = 1..N /\ \A i \in 1..N : Entries[i] \in Entry
  BY <1>2, LenProperties
<1>4. Segments \subseteq Span
  BY GeometryAssumption DEF Span, Point
<1>5. \A i \in 1..N : Nth(i) \in Span
  <2>1. \A e \in Entry : e.at \in Segments
    BY DEF Entry
  <2>. QED BY <1>3, <1>4, <2>1
<1>6. WallSegments = [i \in 1..N |-> Nth(i)]
  BY <1>3 DEF WallSegments
<1>. HIDE DEF N, Nth, Span
<1>. QED BY <1>3, <1>5, <1>6, IsASeq

LEMMA BoundaryFromType ==
  ASSUME CaptureOK
  PROVE  BoundaryIsTheRing
<1>. DEFINE segments == WallSegments
            loop == AssembleClosedLoop(segments)
            closed == loop.ok \/ loop.reason \in {"degenerate_polygon", "near_zero_area"}
<1>1. segments \in Seq(Span)
  BY WallSegmentsTyped
<1>2. closed <=> EdgeRing(Edges(segments), Len(Nodes(segments)))
  BY <1>1, LoopIsRing
<1>3. loop.ok => /\ Shoelace(loop.polygon) > 1
                 /\ RunsAlong(loop.polygon, Nodes(segments), Edges(segments))
  BY <1>1, LoopIsRing
<1>. HIDE DEF segments, loop
<1>4. Clear(Ends(segments)) => (closed <=> IsRing(segments))
  BY <1>1, <1>2, EdgeRingIsRing
<1>5. loop.ok => Outlines(loop.polygon, segments)
  BY <1>1, <1>3, RunsOutline
<1>. QED BY <1>3, <1>4, <1>5 DEF BoundaryIsTheRing, segments, loop

-----------------------------------------------------------------------------
(* Dimensions *)

LEMMA DivideBy ==
  ASSUME NEW a \in Nat
  PROVE  /\ a \div 2 \in Nat /\ a - 2 * (a \div 2) \in 0..1
         /\ a \div 8 \in Nat /\ a - 8 * (a \div 8) \in 0..7
         /\ a \div 96 \in Nat /\ a - 96 * (a \div 96) \in 0..95
OBVIOUS

LEMMA Greatest ==
  ASSUME NEW g \in Int, NEW S, g \in S, S \subseteq Int, \A d \in S : d <= g
  PROVE  Max(S) = g
<1>. DEFINE Is(x) == x \in S /\ \A y \in S : x >= y
<1>1. Is(g)
  <2>1. \A d \in S : g >= d
    OBVIOUS
  <2>. QED BY <2>1
<1>3. ASSUME NEW x, Is(x) PROVE x = g
  <2>1. x \in Int /\ x >= g /\ x <= g
    BY <1>3
  <2>. QED BY <2>1
<1>2. Max(S) = CHOOSE x : Is(x)
  BY DEF Max
<1>. HIDE DEF Is
<1>. QED BY <1>1, <1>2, <1>3

Divisors(n) == {d \in 1..8 : 8 % d = 0 /\ n % d = 0}

LEMMA CommonDivisors ==
  /\ Divisors(1) = {1} /\ Divisors(2) = {1, 2} /\ Divisors(3) = {1}
  /\ Divisors(4) = {1, 2, 4} /\ Divisors(5) = {1} /\ Divisors(6) = {1, 2} /\ Divisors(7) = {1}
<1>1. {d \in 1..8 : 8 % d = 0} = {1, 2, 4, 8}
  OBVIOUS
<1>2. \A n : Divisors(n) = {d \in {1, 2, 4, 8} : n % d = 0}
  BY <1>1 DEF Divisors
<1>. QED BY <1>2

LEMMA CommonDivisor ==
  /\ Max(Divisors(1)) = 1 /\ Max(Divisors(2)) = 2 /\ Max(Divisors(3)) = 1
  /\ Max(Divisors(4)) = 4 /\ Max(Divisors(5)) = 1 /\ Max(Divisors(6)) = 2 /\ Max(Divisors(7)) = 1
<1>1. Max({1}) = 1
  BY Greatest
<1>2. Max({1, 2}) = 2
  BY Greatest
<1>3. Max({1, 2, 4}) = 4
  BY Greatest
<1>. QED BY <1>1, <1>2, <1>3, CommonDivisors

\* What both displays make of the eighths left over.
Reduced(n) ==
  IF n = 0 THEN <<>> ELSE <<n \div Max(Divisors(n)), 8 \div Max(Divisors(n))>>
Listed(n) ==
  IF n = 0 THEN <<>> ELSE IF n % 2 = 0 THEN Quarters(n) ELSE <<n, 8>>
SixteenthsOf(fraction) ==
  IF fraction = <<>> THEN 0 ELSE (16 * fraction[1]) \div fraction[2]

LEMMA FractionsAgree ==
  ASSUME NEW n \in 0..7
  PROVE  Listed(n) = Reduced(n) /\ SixteenthsOf(Reduced(n)) = 2 * n
<1>0. CASE n = 0
  BY <1>0 DEF Listed, Reduced, SixteenthsOf
<1>1. CASE n = 1
  <2>1. Reduced(n) = <<1, 8>>
    BY <1>1, CommonDivisor DEF Reduced
  <2>. QED BY <1>1, <2>1 DEF Listed, SixteenthsOf, Quarters
<1>2. CASE n = 2
  <2>1. Reduced(n) = <<1, 4>>
    BY <1>2, CommonDivisor DEF Reduced
  <2>. QED BY <1>2, <2>1 DEF Listed, SixteenthsOf, Quarters
<1>3. CASE n = 3
  <2>1. Reduced(n) = <<3, 8>>
    BY <1>3, CommonDivisor DEF Reduced
  <2>. QED BY <1>3, <2>1 DEF Listed, SixteenthsOf, Quarters
<1>4. CASE n = 4
  <2>1. Reduced(n) = <<1, 2>>
    BY <1>4, CommonDivisor DEF Reduced
  <2>. QED BY <1>4, <2>1 DEF Listed, SixteenthsOf, Quarters
<1>5. CASE n = 5
  <2>1. Reduced(n) = <<5, 8>>
    BY <1>5, CommonDivisor DEF Reduced
  <2>. QED BY <1>5, <2>1 DEF Listed, SixteenthsOf, Quarters
<1>6. CASE n = 6
  <2>1. Reduced(n) = <<3, 4>>
    BY <1>6, CommonDivisor DEF Reduced
  <2>. QED BY <1>6, <2>1 DEF Listed, SixteenthsOf, Quarters
<1>7. CASE n = 7
  <2>1. Reduced(n) = <<7, 8>>
    BY <1>7, CommonDivisor DEF Reduced
  <2>. QED BY <1>7, <2>1 DEF Listed, SixteenthsOf, Quarters
<1>. QED BY <1>0, <1>1, <1>2, <1>3, <1>4, <1>5, <1>6, <1>7

\* Both displays of a width are the same, and it to the nearest eighth.
LEMMA DisplayOf ==
  ASSUME NEW width \in Nat
  PROVE  LET shown == FormatFeetInches(width)
             sixteenths == 192 * shown.feet + 16 * shown.inches + SixteenthsOf(shown.fraction)
         IN /\ ToFeetInches(width) = shown
            /\ shown.inches < 12 /\ sixteenths - width \in 0..1
<1>. DEFINE eighths == (width + 1) \div 2
            feet == eighths \div 96
            rest == eighths - 96 * feet
            inches == rest \div 8
            n == rest - 8 * inches
            shown == FormatFeetInches(width)
<1>1. eighths \in Nat /\ 2 * eighths - width \in 0..1
  BY DivideBy
<1>. HIDE DEF eighths
<1>2. feet \in Nat /\ rest \in 0..95
  BY <1>1, DivideBy
<1>. HIDE DEF feet
<1>3. rest \in Nat /\ rest = eighths - 96 * feet
  BY <1>2
<1>. HIDE DEF rest
<1>4. inches \in Nat /\ n \in 0..7 /\ inches < 12
  BY <1>2, <1>3, DivideBy
<1>. HIDE DEF inches
<1>5. shown = [feet |-> feet, inches |-> inches, fraction |-> Reduced(n)]
  BY DEF FormatFeetInches, Eighths, Reduced, Divisors, eighths, feet, rest, inches
<1>6. ToFeetInches(width) = [feet |-> feet, inches |-> inches, fraction |-> Listed(n)]
  BY DEF ToFeetInches, Eighths, Listed, eighths, feet, rest, inches
<1>7. n = rest - 8 * inches
  OBVIOUS
<1>. HIDE DEF n, shown
<1>8. Listed(n) = Reduced(n) /\ SixteenthsOf(Reduced(n)) = 2 * n
  BY <1>4, FractionsAgree
<1>9. (192 * feet + 16 * inches + 2 * n) - width \in 0..1
  BY <1>1, <1>2, <1>3, <1>4, <1>7
<1>. QED BY <1>4, <1>5, <1>6, <1>8, <1>9 DEF shown

LEMMA DisplaysFromType ==
  ASSUME CaptureOK
  PROVE  DisplaysAgree
<1>1. SUFFICES ASSUME NEW j \in DOMAIN openings
               PROVE LET width == openings[j]
                         shown == FormatFeetInches(width)
                         sixteenths == 192 * shown.feet + 16 * shown.inches
                                         + SixteenthsOf(shown.fraction)
                     IN /\ ToFeetInches(width) = shown
                        /\ shown.inches < 12 /\ sixteenths - width \in 0..1
  BY DEF DisplaysAgree, SixteenthsOf
<1>2. openings[j] \in Nat
  <2>1. openings[j] \in Widths
    BY <1>1, LenProperties DEF CaptureOK
  <2>. QED BY <2>1, GeometryAssumption
<1>. QED BY <1>2, DisplayOf

-----------------------------------------------------------------------------
(* Theorems about RoomGeometry *)

LEMMA TypeInvariance ==
  /\ CaptureInit => CaptureOK
  /\ CaptureOK /\ [CaptureNext]_captured => CaptureOK'
<1>1. CaptureInit => CaptureOK
  BY DEF CaptureInit, CaptureOK
<1>2. ASSUME CaptureOK, [CaptureNext]_captured PROVE CaptureOK'
  <2>1. CASE \E w \in Wall : CaptureWall(w)
    BY <1>2, <2>1, AppendProperties DEF CaptureWall, CaptureOK
  <2>2. CASE \E width \in Widths : CaptureOpening(width)
    BY <1>2, <2>2, AppendProperties DEF CaptureOpening, CaptureOK
  <2>3. CASE UNCHANGED captured
    BY <1>2, <2>3 DEF CaptureOK, captured
  <2>. QED BY <1>2, <2>1, <2>2, <2>3 DEF CaptureNext
<1>. QED BY <1>1, <1>2

\* A capture is a sequence of walls and one of openings.
THEOREM GeometryTypeCorrect == CaptureSpec => []CaptureOK
BY TypeInvariance, PTL DEF CaptureSpec

\* However many walls are captured and wherever they lie on the grid: unless
\* tolerances are chained, assembleClosedLoop gives them a boundary exactly when
\* their ends, as captured, make them one ring around more than 10 cm2.  Even
\* then, a boundary has every wall for a side and every side for a wall, no two
\* corners near one another, and runs counter-clockwise.
THEOREM BoundariesAreRings == CaptureSpec => []BoundaryIsTheRing
<1>1. CaptureOK => BoundaryIsTheRing
  BY BoundaryFromType
<1>. QED BY <1>1, GeometryTypeCorrect, PTL

\* Whatever is captured, two of the reasons assembleClosedLoop can give for not
\* making a boundary are never given: walls with two at every corner are as many
\* as the corners, and the walk along all of them ends where it began.
THEOREM ReasonsNeverGiven ==
  CaptureSpec => [](AssembleClosedLoop(WallSegments).reason
                      \notin {"corner_segment_count_mismatch", "loop_does_not_close"})
<1>1. CaptureOK => AssembleClosedLoop(WallSegments).reason
                     \notin {"corner_segment_count_mismatch", "loop_does_not_close"}
  BY WallSegmentsTyped, NeverGiven
<1>. QED BY <1>1, GeometryTypeCorrect, PTL

\* The page's table and the schedules show any width alike, to the nearest
\* eighth of an inch.
THEOREM WidthsShownAlike == CaptureSpec => []DisplaysAgree
<1>1. CaptureOK => DisplaysAgree
  BY DisplaysFromType
<1>. QED BY <1>1, GeometryTypeCorrect, PTL
=============================================================================
