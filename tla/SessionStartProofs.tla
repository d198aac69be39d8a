-------------------------- MODULE SessionStartProofs --------------------------
(* What holds of SessionStart for any keys, bodies, requests and tokens. *)
EXTENDS SessionStart, FiniteSetTheorems, TLAPS

(***************************************************************************)
(* Of the requests with one key at most one is past its reservation: it    *)
(* owns the pending row.  A response is of a session its key and body      *)
(* created, and an answer is the response of a row that is done.           *)
(***************************************************************************)
Owns(r) == r.pc \in {"handle", "audit", "complete", "release"}

CreatedFor(k, b, id) ==
  id # NotFound => id \in 1..Len(sessions) /\ sessions[id] = <<k, b>>

Sound(r) ==
  /\ r.pc # "idle" => r.key \in Keys /\ r.body \in Bodies
  /\ Owns(r) => keys[r.key].status = "pending" /\ keys[r.key].hash = r.body
  /\ r.pc \in {"audit", "complete"} =>
       r.response \in Responses /\ CreatedFor(r.key, r.body, r.response)
  /\ r.pc = "reply" => /\ keys[r.key].status = "done" /\ keys[r.key].hash = r.body
                       /\ keys[r.key].response = r.response

RequestInv == \A q \in Requests : Sound(requests[q])

OneOwner ==
  \A q, r \in Requests :
    Owns(requests[q]) /\ Owns(requests[r]) /\ KeyOf(q) = KeyOf(r) => q = r

DoneInv ==
  \A k \in Keys : keys[k].status = "done" =>
    /\ keys[k].response \in Responses /\ keys[k].hash \in Bodies
    /\ CreatedFor(k, keys[k].hash, keys[k].response)

AnswerInv ==
  \A x \in answers : /\ keys[x[1]].status = "done" /\ keys[x[1]].hash = x[2]
                     /\ keys[x[1]].response = x[3]

\* A session more than handlers have thrown late is the one its row stands for.
CountInv ==
  \A k \in Keys :
    /\ Cardinality(CreatedBy(k)) <= lateFailures[k] + 1
    /\ keys[k].status = "absent" => Cardinality(CreatedBy(k)) <= lateFailures[k]
    /\ \A q \in Requests :
         requests[q].pc \in {"handle", "release"} /\ KeyOf(q) = k =>
           Cardinality(CreatedBy(k)) <= lateFailures[k]

IInv == TypeOK /\ RequestInv /\ OneOwner /\ DoneInv /\ AnswerInv /\ CountInv

-----------------------------------------------------------------------------

LEMMA CreatedByFinite ==
  ASSUME TypeOK, NEW k
  PROVE  IsFiniteSet(CreatedBy(k)) /\ Cardinality(CreatedBy(k)) \in Nat
<1>1. Len(sessions) \in Nat
  BY DEF TypeOK
<1>2. IsFiniteSet(1..Len(sessions))
  BY <1>1, FS_Interval
<1>3. CreatedBy(k) \in SUBSET (1..Len(sessions))
  BY DEF CreatedBy
<1>4. IsFiniteSet(CreatedBy(k))
  BY <1>2, <1>3, FS_Subset
<1> QED BY <1>4, FS_CardinalityType

LEMMA InitIInv == Init => IInv
<1> SUFFICES ASSUME Init PROVE IInv
  OBVIOUS
<1> USE DEF Init
<1>1. TypeOK
  <2>1. NoRow \in KeyRow /\ IdleRequest \in RequestType
    BY DEF NoRow, KeyRow, IdleRequest, RequestType
  <2>2. [status |-> "absent", expired |-> FALSE, session |-> None] \in TokenRow
    BY DEF TokenRow
  <2>3. sessions \in Seq(Keys \X Bodies) /\ Len(sessions) <= MaxSessions
    BY StartAssumption
  <2>4. keys \in [Keys -> KeyRow] /\ requests \in [Requests -> RequestType]
        /\ tokens \in [Tokens -> TokenRow]
    BY <2>1, <2>2
  <2>5. failures \in 0..MaxFailures /\ lateFailures \in [Keys -> Nat]
        /\ opened \in [Devices -> SUBSET Tokens]
        /\ redeeming \subseteq Devices \X Tokens /\ lost \subseteq Tokens
    BY StartAssumption
  <2> QED BY <2>3, <2>4, <2>5 DEF TypeOK
<1>2. RequestInv /\ OneOwner
  BY DEF RequestInv, OneOwner, Sound, Owns, IdleRequest
<1>3. DoneInv /\ AnswerInv
  BY DEF DoneInv, AnswerInv, NoRow
<1>4. CountInv
  <2>1. \A k \in Keys : Cardinality(CreatedBy(k)) = 0
    <3>1. \A k \in Keys : CreatedBy(k) = {}
      BY DEF CreatedBy
    <3> QED BY <3>1, FS_EmptySet
  <2> QED BY <2>1 DEF CountInv, IdleRequest
<1> QED BY <1>1, <1>2, <1>3, <1>4 DEF IInv

\* A request goes on or ends, and no row or session changes.
LEMMA RequestMoves ==
  ASSUME NEW q \in Requests, NEW n \in RequestType, IInv,
         requests' = [requests EXCEPT ![q] = n], Sound(n),
         Owns(n) => Owns(requests[q]) /\ n.key = KeyOf(q),
         UNCHANGED <<keys, sessions>>
  PROVE  /\ requests' \in [Requests -> RequestType]
         /\ RequestInv' /\ OneOwner' /\ DoneInv'
<1>1. requests \in [Requests -> RequestType]
  BY DEF IInv, TypeOK
<1>2. requests' \in [Requests -> RequestType]
  BY <1>1
<1>3. \A r \in Requests : requests'[r] = IF r = q THEN n ELSE requests[r]
  BY <1>1
<1>4. RequestInv'
  BY <1>3 DEF IInv, RequestInv, Sound, CreatedFor, Owns
<1>5. OneOwner'
  BY <1>3 DEF IInv, OneOwner, KeyOf
<1>6. DoneInv'
  BY DEF IInv, DoneInv, CreatedFor
<1> QED BY <1>2, <1>4, <1>5, <1>6

\* The count is untouched when a request that has not failed goes on.
LEMMA CountKept ==
  ASSUME NEW q \in Requests, NEW n \in RequestType, IInv,
         requests' = [requests EXCEPT ![q] = n],
         n.pc \in {"handle", "release"} =>
           requests[q].pc \in {"handle", "release"} /\ n.key = KeyOf(q),
         UNCHANGED <<keys, sessions, lateFailures>>
  PROVE  CountInv'
<1>1. \A r \in Requests : requests'[r] = IF r = q THEN n ELSE requests[r]
  BY DEF IInv, TypeOK
<1>2. \A k \in Keys : CreatedBy(k)' = CreatedBy(k)
  BY DEF CreatedBy
<1> QED BY <1>1, <1>2 DEF IInv, CountInv, KeyOf

\* The end of a request without an answer, and one more failure or none.
LEMMA EndStep ==
  ASSUME NEW q \in Requests, IInv, End(q), failures' \in 0..MaxFailures,
         UNCHANGED <<keys, sessions, known, answers, lateFailures, handoffVars>>
  PROVE  IInv'
<1>1. IdleRequest \in RequestType /\ Sound(IdleRequest) /\ ~Owns(IdleRequest)
      /\ IdleRequest.pc = "idle"
  BY DEF IdleRequest, RequestType, Sound, Owns
<1>2. requests' \in [Requests -> RequestType] /\ RequestInv' /\ OneOwner' /\ DoneInv'
  BY <1>1, RequestMoves DEF End
<1>3. CountInv'
  BY <1>1, CountKept DEF End
<1>4. TypeOK'
  BY <1>2 DEF IInv, TypeOK, handoffVars
<1>5. AnswerInv'
  BY DEF IInv, AnswerInv
<1> QED BY <1>2, <1>3, <1>4, <1>5 DEF IInv

\* A request goes on to n.
LEMMA GoesOn ==
  ASSUME NEW q \in Requests, NEW n \in RequestType, IInv,
         requests' = [requests EXCEPT ![q] = n], Sound(n),
         Owns(n) => Owns(requests[q]) /\ n.key = KeyOf(q),
         n.pc \in {"handle", "release"} => requests[q].pc \in {"handle", "release"},
         UNCHANGED <<keys, sessions, known, answers, failures, lateFailures, handoffVars>>
  PROVE  IInv'
<1>1. requests' \in [Requests -> RequestType] /\ RequestInv' /\ OneOwner' /\ DoneInv'
  BY RequestMoves
<1>2. CountInv'
  BY CountKept DEF Owns
<1>3. TypeOK'
  BY <1>1 DEF IInv, TypeOK, handoffVars
<1>4. AnswerInv'
  BY DEF IInv, AnswerInv
<1> QED BY <1>1, <1>2, <1>3, <1>4 DEF IInv

LEMMA ReceiveStep ==
  ASSUME NEW q \in Requests, NEW k \in Keys, NEW b \in Bodies, IInv, Receive(q, k, b)
  PROVE  IInv'
<1>1. PICK n \in RequestType :
         n = [IdleRequest EXCEPT !.pc = "reserve", !.key = k, !.body = b]
  BY DEF IdleRequest, RequestType
<1>2. Sound(n) /\ ~Owns(n) /\ n.pc = "reserve"
  BY <1>1 DEF IdleRequest, Sound, Owns
<1> QED BY <1>1, <1>2, GoesOn DEF Receive

LEMMA CreatePropertyStep ==
  ASSUME IInv, CreateProperty
  PROVE  IInv'
<1> USE DEF CreateProperty
<1>1. TypeOK'
  BY DEF IInv, TypeOK, handoffVars
<1>2. RequestInv' /\ OneOwner' /\ DoneInv' /\ AnswerInv' /\ CountInv'
  BY DEF IInv, RequestInv, Sound, CreatedFor, OneOwner, DoneInv, AnswerInv, CountInv,
         KeyOf, CreatedBy
<1> QED BY <1>1, <1>2 DEF IInv

\* The row was absent, so no request owns it and no answer is of it.
LEMMA ReserveStep ==
  ASSUME NEW q \in Requests, IInv, ReserveKey(q)
  PROVE  IInv'
<1>1. requests[q] \in RequestType /\ requests[q].pc = "reserve" /\ Sound(requests[q])
      /\ KeyOf(q) \in Keys /\ requests[q].body \in Bodies
  BY DEF IInv, TypeOK, RequestInv, ReserveKey, At, Sound, KeyOf
<1>2. CASE ~Reservable(q)
  <2>1. PICK n \in RequestType : n = [requests[q] EXCEPT !.pc = "lookup"]
    BY <1>1 DEF RequestType
  <2>2. Sound(n) /\ ~Owns(n) /\ n.pc = "lookup"
    BY <1>1, <2>1 DEF RequestType, Sound, Owns
  <2> QED BY <1>2, <2>1, <2>2, GoesOn DEF ReserveKey, Goto
<1>3. CASE Reservable(q)
  <2>1. PICK n \in RequestType : n = [requests[q] EXCEPT !.pc = "handle"]
    BY <1>1 DEF RequestType
  <2>2. PICK w \in KeyRow :
          w = [NoRow EXCEPT !.status = "pending", !.hash = requests[q].body]
    BY <1>1 DEF KeyRow, NoRow
  <2>3. /\ n.pc = "handle" /\ n.key = KeyOf(q) /\ n.body = requests[q].body
        /\ w.status = "pending" /\ w.hash = requests[q].body
    BY <1>1, <2>1, <2>2 DEF RequestType, KeyOf, NoRow
  <2>4. PICK k \in Keys : k = KeyOf(q)
    BY <1>1
  <2>5. requests' = [requests EXCEPT ![q] = n] /\ keys' = [keys EXCEPT ![k] = w]
        /\ UNCHANGED <<sessions, known, answers, failures, lateFailures, handoffVars>>
    BY <1>3, <2>1, <2>2, <2>4 DEF ReserveKey, Goto
  <2>6. keys[k].status = "absent"
    BY <1>3, <2>4 DEF Reservable, Row
  <2>7. \A r \in Requests : requests'[r] = IF r = q THEN n ELSE requests[r]
    BY <2>5 DEF IInv, TypeOK
  <2>8. \A j \in Keys : keys'[j] = IF j = k THEN w ELSE keys[j]
    BY <2>5 DEF IInv, TypeOK
  <2>9. TypeOK'
    BY <2>5 DEF IInv, TypeOK, handoffVars
  <2>10. \A r \in Requests : Owns(requests[r]) \/ requests[r].pc = "reply" =>
           KeyOf(r) \in Keys /\ KeyOf(r) # k
    BY <2>6 DEF IInv, RequestInv, Sound, Owns, KeyOf
  <2>11. RequestInv'
    BY <1>1, <2>3, <2>4, <2>5, <2>7, <2>8, <2>10
       DEF IInv, RequestInv, Sound, CreatedFor, Owns, KeyOf
  <2>12. OneOwner'
    BY <2>3, <2>4, <2>7, <2>10 DEF IInv, OneOwner, KeyOf
  <2>13. DoneInv'
    BY <2>3, <2>5, <2>8 DEF IInv, DoneInv, CreatedFor
  <2>14. AnswerInv'
    BY <2>5, <2>6, <2>8 DEF IInv, AnswerInv, TypeOK
  <2>15. \A j \in Keys : CreatedBy(j)' = CreatedBy(j)
    BY <2>5 DEF CreatedBy
  <2>16. CountInv'
    BY <2>3, <2>4, <2>5, <2>6, <2>7, <2>8, <2>15 DEF IInv, CountInv, KeyOf
  <2> QED BY <2>9, <2>11, <2>12, <2>13, <2>14, <2>16 DEF IInv
<1> QED BY <1>2, <1>3

\* An answer is given of a row that is done.
LEMMA AnswerStep ==
  ASSUME NEW q \in Requests, IInv, End(q),
         NEW x, answers' = answers \cup {x},
         x \in Keys \X Bodies \X Responses,
         keys[x[1]].status = "done", keys[x[1]].hash = x[2], keys[x[1]].response = x[3],
         UNCHANGED <<keys, sessions, known, failures, lateFailures, handoffVars>>
  PROVE  IInv'
<1>1. IdleRequest \in RequestType /\ Sound(IdleRequest) /\ ~Owns(IdleRequest)
      /\ IdleRequest.pc = "idle"
  BY DEF IdleRequest, RequestType, Sound, Owns
<1>2. requests' \in [Requests -> RequestType] /\ RequestInv' /\ OneOwner' /\ DoneInv'
  BY <1>1, RequestMoves DEF End
<1>3. CountInv'
  BY <1>1, CountKept DEF End
<1>4. TypeOK'
  BY <1>2 DEF IInv, TypeOK, handoffVars
<1>5. AnswerInv'
  BY DEF IInv, AnswerInv
<1> QED BY <1>2, <1>3, <1>4, <1>5 DEF IInv

LEMMA ReplayStep ==
  ASSUME NEW q \in Requests, IInv, Replay(q)
  PROVE  IInv'
<1>1. KeyOf(q) \in Keys /\ requests[q].body \in Bodies /\ ~At(q, "idle")
  BY DEF IInv, RequestInv, Sound, Replay, At, KeyOf
<1>2. CASE Row(q).status = "done" /\ SameRequest(q)
  <2>1. PICK x : x = <<KeyOf(q), requests[q].body, Row(q).response>>
    OBVIOUS
  <2>2. Row(q).response \in Responses
    BY <1>1, <1>2 DEF IInv, DoneInv, Row
  <2>3. x \in Keys \X Bodies \X Responses
    BY <1>1, <2>1, <2>2
  <2>4. keys[x[1]].status = "done" /\ keys[x[1]].hash = x[2] /\ keys[x[1]].response = x[3]
    BY <1>2, <2>1 DEF Row, SameRequest
  <2>5. answers' = answers \cup {x} /\ End(q)
        /\ UNCHANGED <<keys, sessions, known, failures, lateFailures, handoffVars>>
    BY <1>2, <2>1 DEF Replay
  <2> QED BY <2>3, <2>4, <2>5, AnswerStep
<1>3. CASE ~(Row(q).status = "done" /\ SameRequest(q))
  BY <1>3, EndStep DEF Replay, IInv, TypeOK
<1> QED BY <1>2, <1>3

LEMMA ReplyStep ==
  ASSUME NEW q \in Requests, IInv, Reply(q)
  PROVE  IInv'
<1>1. KeyOf(q) \in Keys /\ requests[q].body \in Bodies /\ Row(q).status = "done"
      /\ Row(q).hash = requests[q].body /\ Row(q).response = requests[q].response
  BY DEF IInv, RequestInv, Sound, Reply, At, KeyOf, Row
<1>2. requests[q].response \in Responses
  BY <1>1 DEF IInv, DoneInv, Row
<1>3. PICK x : x = <<KeyOf(q), requests[q].body, requests[q].response>>
  OBVIOUS
<1>4. x \in Keys \X Bodies \X Responses
  BY <1>1, <1>2, <1>3
<1>5. keys[x[1]].status = "done" /\ keys[x[1]].hash = x[2] /\ keys[x[1]].response = x[3]
  BY <1>1, <1>3 DEF Row
<1>6. answers' = answers \cup {x} /\ End(q)
      /\ UNCHANGED <<keys, sessions, known, failures, lateFailures, handoffVars>>
  BY <1>3 DEF Reply
<1> QED BY <1>4, <1>5, <1>6, AnswerStep

\* The one request that owns the key counts one session more.
LEMMA CreateStep ==
  ASSUME NEW q \in Requests, IInv, CreateScanSession(q)
  PROVE  IInv'
<1>1. PICK k \in Keys, b \in Bodies :
        /\ k = KeyOf(q) /\ b = requests[q].body /\ requests[q].pc = "handle"
        /\ keys[k].status = "pending" /\ keys[k].hash = b /\ requests[q] \in RequestType
  BY DEF CreateScanSession, At, IInv, RequestInv, Sound, Owns, KeyOf, TypeOK
<1>2. PICK id \in Ids : id = Len(sessions) + 1
  BY StartAssumption DEF CreateScanSession, IInv, TypeOK, Ids
<1>3. PICK n \in RequestType :
        n = [requests[q] EXCEPT !.pc = "audit", !.response = id]
  <2>1. id \in Responses
    BY DEF Responses
  <2> QED BY <1>1, <2>1 DEF RequestType
<1>4. n.pc = "audit" /\ n.key = k /\ n.body = b /\ n.response = id
  BY <1>1, <1>3 DEF RequestType, KeyOf
<1>5. /\ sessions' = Append(sessions, <<k, b>>)
      /\ requests' = [requests EXCEPT ![q] = n]
      /\ UNCHANGED <<keys, known, answers, failures, lateFailures, handoffVars>>
  BY <1>1, <1>2, <1>3 DEF CreateScanSession
<1>6. \A r \in Requests : requests'[r] = IF r = q THEN n ELSE requests[r]
  BY <1>5 DEF IInv, TypeOK
<1>7. /\ sessions \in Seq(Keys \X Bodies) /\ Len(sessions) \in Nat
      /\ sessions' \in Seq(Keys \X Bodies) /\ Len(sessions') = id
      /\ \A i \in 1..Len(sessions) : sessions'[i] = sessions[i]
      /\ sessions'[id] = <<k, b>>
  BY <1>2, <1>5 DEF IInv, TypeOK
<1>8. TypeOK'
  BY <1>2, <1>5, <1>7 DEF IInv, TypeOK, Ids, handoffVars
<1>9. \A j, c, i : CreatedFor(j, c, i) => CreatedFor(j, c, i)'
  BY <1>2, <1>7 DEF CreatedFor
<1>10. CreatedFor(k, b, id)'
  BY <1>2, <1>7 DEF CreatedFor, Ids
<1>11. RequestInv'
  <2>1. Sound(n)'
    BY <1>1, <1>4, <1>5, <1>10 DEF Sound, Owns, Responses
  <2>2. \A r \in Requests : Sound(requests[r]) => Sound(requests[r])'
    BY <1>5, <1>6, <1>9, <2>1 DEF Sound, Owns
  <2> QED BY <2>2 DEF IInv, RequestInv
<1>12. OneOwner'
  BY <1>1, <1>4, <1>6 DEF IInv, OneOwner, KeyOf, Owns
<1>13. DoneInv' /\ AnswerInv'
  BY <1>5, <1>9 DEF IInv, DoneInv, AnswerInv
<1>14. \A j \in Keys : CreatedBy(j)' = IF j = k THEN CreatedBy(j) \cup {id} ELSE CreatedBy(j)
  BY <1>2, <1>7 DEF CreatedBy, Ids
<1>15. Cardinality(CreatedBy(k)') <= lateFailures[k] + 1
  <2>1. IsFiniteSet(CreatedBy(k)) /\ Cardinality(CreatedBy(k)) \in Nat
    BY CreatedByFinite DEF IInv
  <2>2. Cardinality(CreatedBy(k)) <= lateFailures[k] /\ lateFailures[k] \in Nat
    BY <1>1 DEF IInv, CountInv, TypeOK
  <2>3. Cardinality(CreatedBy(k) \cup {id}) =
          IF id \in CreatedBy(k) THEN Cardinality(CreatedBy(k))
                                 ELSE Cardinality(CreatedBy(k)) + 1
    BY <2>1, FS_AddElement
  <2>4. CreatedBy(k)' = CreatedBy(k) \cup {id}
    BY <1>14
  <2>5. PICK c \in Nat : c = Cardinality(CreatedBy(k))
    BY <2>1
  <2>6. Cardinality(CreatedBy(k) \cup {id}) <= c + 1
    BY <2>3, <2>5
  <2>7. Cardinality(CreatedBy(k) \cup {id}) \in Nat
    BY <2>3, <2>5
  <2> QED BY <2>2, <2>4, <2>5, <2>6, <2>7
<1>16. CountInv'
  <2>1. ASSUME NEW j \in Keys, j # k
        PROVE  /\ Cardinality(CreatedBy(j)') <= lateFailures'[j] + 1
               /\ keys'[j].status = "absent" =>
                    Cardinality(CreatedBy(j)') <= lateFailures'[j]
               /\ \A r \in Requests :
                    requests'[r].pc \in {"handle", "release"} /\ requests'[r].key = j =>
                      Cardinality(CreatedBy(j)') <= lateFailures'[j]
    BY <1>4, <1>5, <1>6, <1>14, <2>1 DEF IInv, CountInv, KeyOf
  <2>2. \A r \in Requests : requests'[r].pc \in {"handle", "release"} => requests'[r].key # k
    BY <1>1, <1>4, <1>6 DEF IInv, OneOwner, Owns, KeyOf
  <2> QED BY <1>1, <1>5, <1>15, <2>1, <2>2 DEF CountInv, KeyOf
<1> QED BY <1>8, <1>11, <1>12, <1>13, <1>16 DEF IInv

LEMMA HandledStep ==
  ASSUME NEW q \in Requests, IInv, AnswerNotFound(q) \/ RecordAuditEvent(q)
  PROVE  IInv'
<1>1. requests[q] \in RequestType /\ Sound(requests[q]) /\ Owns(requests[q])
  BY DEF IInv, TypeOK, RequestInv, AnswerNotFound, RecordAuditEvent, At, Owns
<1>2. CASE AnswerNotFound(q)
  <2>1. PICK n \in RequestType :
          n = [requests[q] EXCEPT !.pc = "complete", !.response = NotFound]
    BY <1>1 DEF RequestType, Responses
  <2>2. Sound(n) /\ n.key = KeyOf(q) /\ n.pc = "complete"
    BY <1>1, <2>1 DEF RequestType, Sound, Owns, Responses, CreatedFor, KeyOf
  <2> QED BY <1>1, <1>2, <2>1, <2>2, GoesOn DEF AnswerNotFound
<1>3. CASE RecordAuditEvent(q)
  <2>1. PICK n \in RequestType : n = [requests[q] EXCEPT !.pc = "complete"]
    BY <1>1 DEF RequestType
  <2>2. Sound(n) /\ n.key = KeyOf(q) /\ n.pc = "complete"
    BY <1>1, <1>3, <2>1 DEF RequestType, Sound, Owns, KeyOf, RecordAuditEvent, At
  <2> QED BY <1>1, <1>3, <2>1, <2>2, GoesOn DEF RecordAuditEvent, Goto
<1> QED BY <1>2, <1>3

\* A session that was created before the handler threw is made up for.
LEMMA ThrowStep ==
  ASSUME NEW q \in Requests, IInv, HandlerThrows(q)
  PROVE  IInv'
<1>1. /\ requests[q] \in RequestType /\ Sound(requests[q]) /\ Owns(requests[q])
      /\ requests[q].pc \in {"handle", "audit"} /\ KeyOf(q) \in Keys
  BY DEF IInv, TypeOK, RequestInv, HandlerThrows, Owns, Sound, KeyOf
<1>2. PICK n \in RequestType : n = [requests[q] EXCEPT !.pc = "release"]
  BY <1>1 DEF RequestType
<1>3. Sound(n) /\ n.key = KeyOf(q) /\ n.pc = "release" /\ requests' = [requests EXCEPT ![q] = n]
  BY <1>1, <1>2 DEF RequestType, Sound, Owns, KeyOf, HandlerThrows, Goto
<1>4. /\ UNCHANGED <<keys, sessions, known, answers, handoffVars>>
      /\ failures' \in 0..MaxFailures
  BY StartAssumption DEF HandlerThrows, IInv, TypeOK
<1>5. \A k \in Keys : /\ lateFailures[k] \in Nat /\ lateFailures'[k] \in Nat
                      /\ lateFailures'[k] >= lateFailures[k]
  BY DEF HandlerThrows, IInv, TypeOK
<1>6. requests[q].pc = "audit" => lateFailures'[KeyOf(q)] = lateFailures[KeyOf(q)] + 1
  BY <1>1 DEF HandlerThrows, At, IInv, TypeOK
<1>7. lateFailures' \in [Keys -> Nat]
  <2>1. PICK c \in Nat : c = IF At(q, "audit") THEN lateFailures[KeyOf(q)] + 1
                                              ELSE lateFailures[KeyOf(q)]
    BY <1>1, <1>5
  <2>2. lateFailures' = [lateFailures EXCEPT ![KeyOf(q)] = c]
    BY <2>1 DEF HandlerThrows
  <2> QED BY <2>1, <2>2 DEF IInv, TypeOK
<1>8. requests' \in [Requests -> RequestType] /\ RequestInv' /\ OneOwner' /\ DoneInv'
  BY <1>1, <1>3, <1>4, RequestMoves
<1>9. TypeOK'
  BY <1>4, <1>7, <1>8 DEF IInv, TypeOK, handoffVars
<1>10. AnswerInv'
  BY <1>4 DEF IInv, AnswerInv
<1>11. \A r \in Requests : requests'[r] = IF r = q THEN n ELSE requests[r]
  BY <1>3 DEF IInv, TypeOK
<1>12. \A k \in Keys : CreatedBy(k)' = CreatedBy(k) /\ Cardinality(CreatedBy(k)) \in Nat
  BY <1>4, CreatedByFinite DEF CreatedBy, IInv
<1>13. Cardinality(CreatedBy(KeyOf(q))) <= lateFailures'[KeyOf(q)]
  BY <1>1, <1>5, <1>6, <1>12 DEF IInv, CountInv
<1>14. CountInv'
  <2>1. ASSUME NEW k \in Keys
        PROVE  /\ Cardinality(CreatedBy(k)) <= lateFailures'[k] + 1
               /\ keys[k].status = "absent" => Cardinality(CreatedBy(k)) <= lateFailures'[k]
    BY <1>5, <1>12 DEF IInv, CountInv
  <2>2. ASSUME NEW k \in Keys, NEW r \in Requests,
               requests'[r].pc \in {"handle", "release"}, requests'[r].key = k
        PROVE  Cardinality(CreatedBy(k)) <= lateFailures'[k]
    BY <1>3, <1>5, <1>11, <1>12, <1>13, <2>2 DEF IInv, CountInv, KeyOf
  <2> QED BY <1>4, <1>12, <2>1, <2>2 DEF CountInv, KeyOf
<1> QED BY <1>8, <1>9, <1>10, <1>14 DEF IInv

\* The owner gives its row up; nobody else has anything to do with the row.
LEMMA ReleaseStep ==
  ASSUME NEW q \in Requests, IInv, ReleaseKey(q)
  PROVE  IInv'
<1>1. PICK k \in Keys : /\ k = KeyOf(q) /\ keys[k].status = "pending"
                        /\ requests[q].pc = "release"
  BY DEF IInv, RequestInv, Sound, Owns, ReleaseKey, At, KeyOf
<1>2. /\ keys' = [keys EXCEPT ![k] = NoRow]
      /\ requests' = [requests EXCEPT ![q] = IdleRequest]
      /\ UNCHANGED <<sessions, known, answers, failures, lateFailures, handoffVars>>
  BY <1>1 DEF ReleaseKey, Row, End
<1>3. NoRow \in KeyRow /\ NoRow.status = "absent"
      /\ IdleRequest \in RequestType /\ IdleRequest.pc = "idle"
  BY DEF NoRow, KeyRow, IdleRequest, RequestType
<1>4. \A r \in Requests : requests'[r] = IF r = q THEN IdleRequest ELSE requests[r]
  BY <1>2 DEF IInv, TypeOK
<1>5. \A j \in Keys : keys'[j] = IF j = k THEN NoRow ELSE keys[j]
  BY <1>2 DEF IInv, TypeOK
<1>6. TypeOK'
  BY <1>2, <1>3 DEF IInv, TypeOK, handoffVars
<1>7. \A r \in Requests : (Owns(requests[r]) \/ requests[r].pc = "reply") /\ r # q =>
        KeyOf(r) \in Keys /\ KeyOf(r) # k
  BY <1>1 DEF IInv, RequestInv, OneOwner, Sound, Owns, KeyOf
<1>8. RequestInv'
  BY <1>2, <1>3, <1>4, <1>5, <1>7 DEF IInv, RequestInv, Sound, CreatedFor, Owns, KeyOf
<1>9. OneOwner'
  BY <1>3, <1>4 DEF IInv, OneOwner, KeyOf, Owns
<1>10. DoneInv'
  BY <1>2, <1>3, <1>5 DEF IInv, DoneInv, CreatedFor
<1>11. AnswerInv'
  BY <1>1, <1>2, <1>5 DEF IInv, AnswerInv, TypeOK
<1>12. \A j \in Keys : CreatedBy(j)' = CreatedBy(j)
  BY <1>2 DEF CreatedBy
<1>13. CountInv'
  BY <1>1, <1>2, <1>3, <1>4, <1>5, <1>12 DEF IInv, CountInv, KeyOf
<1> QED BY <1>6, <1>8, <1>9, <1>10, <1>11, <1>13 DEF IInv

LEMMA CompleteStep ==
  ASSUME NEW q \in Requests, IInv, CompleteRecord(q)
  PROVE  IInv'
<1>1. PICK k \in Keys : /\ k = KeyOf(q) /\ keys[k].status = "pending"
                        /\ keys[k].hash = requests[q].body /\ requests[q].body \in Bodies
                        /\ requests[q].pc = "complete" /\ requests[q].response \in Responses
                        /\ CreatedFor(k, keys[k].hash, requests[q].response)
                        /\ keys[k] \in KeyRow /\ requests[q] \in RequestType
  BY DEF IInv, TypeOK, RequestInv, Sound, Owns, CompleteRecord, At, KeyOf
<1>2. PICK w \in KeyRow :
        w = [keys[k] EXCEPT !.status = "done", !.response = requests[q].response]
  BY <1>1 DEF KeyRow
<1>3. w.status = "done" /\ w.response = requests[q].response /\ w.hash = keys[k].hash
  BY <1>1, <1>2 DEF KeyRow
<1>4. PICK n \in RequestType : n = [requests[q] EXCEPT !.pc = "reply"]
  BY <1>1 DEF RequestType
<1>5. /\ n.pc = "reply" /\ n.key = k /\ n.body = requests[q].body
      /\ n.response = requests[q].response
  BY <1>1, <1>4 DEF RequestType, KeyOf
<1>6. /\ keys' = [keys EXCEPT ![k] = w] /\ requests' = [requests EXCEPT ![q] = n]
      /\ UNCHANGED <<sessions, known, answers, failures, lateFailures, handoffVars>>
  BY <1>1, <1>2, <1>4 DEF CompleteRecord, Stored, Goto
<1>7. \A r \in Requests : requests'[r] = IF r = q THEN n ELSE requests[r]
  BY <1>6 DEF IInv, TypeOK
<1>8. \A j \in Keys : keys'[j] = IF j = k THEN w ELSE keys[j]
  BY <1>6 DEF IInv, TypeOK
<1>9. TypeOK'
  BY <1>6 DEF IInv, TypeOK, handoffVars
<1>10. \A r \in Requests : (Owns(requests[r]) \/ requests[r].pc = "reply") /\ r # q =>
         KeyOf(r) \in Keys /\ KeyOf(r) # k
  BY <1>1 DEF IInv, RequestInv, OneOwner, Sound, Owns, KeyOf
<1>11. RequestInv'
  <2>1. Sound(n)'
    BY <1>1, <1>3, <1>5, <1>8 DEF Sound, Owns
  <2>2. ASSUME NEW r \in Requests, r # q PROVE Sound(requests[r])'
    BY <1>6, <1>7, <1>8, <1>10, <2>2 DEF IInv, RequestInv, Sound, CreatedFor, Owns, KeyOf
  <2> QED BY <1>6, <1>7, <2>1, <2>2 DEF RequestInv, Sound
<1>12. OneOwner'
  BY <1>5, <1>7 DEF IInv, OneOwner, KeyOf, Owns
<1>13. DoneInv'
  BY <1>1, <1>3, <1>6, <1>8 DEF IInv, DoneInv, CreatedFor
<1>14. AnswerInv'
  BY <1>1, <1>6, <1>8 DEF IInv, AnswerInv, TypeOK
<1>15. \A j \in Keys : CreatedBy(j)' = CreatedBy(j)
  BY <1>6 DEF CreatedBy
<1>16. CountInv'
  BY <1>1, <1>3, <1>5, <1>6, <1>7, <1>8, <1>15 DEF IInv, CountInv, KeyOf
<1> QED BY <1>9, <1>11, <1>12, <1>13, <1>14, <1>16 DEF IInv

LEMMA HandoffStep ==
  ASSUME NEW t \in Tokens, IInv,
         \/ \E s \in Ids : IssueHandoffToken(t, s)
         \/ Expire(t)
         \/ \E d \in Devices :
              RedeemHandoffToken(t, d) \/ AnswerRedemption(t, d) \/ LoseRedemption(t, d)
  PROVE  IInv'
<1> USE DEF startVars
<1>1. UNCHANGED <<keys, sessions, known, requests, answers, failures, lateFailures>>
  BY DEF IssueHandoffToken, Expire, RedeemHandoffToken, AnswerRedemption, LoseRedemption
<1> DEFINE HandoffOK == /\ tokens \in [Tokens -> TokenRow]
                        /\ redeeming \subseteq Devices \X Tokens
                        /\ opened \in [Devices -> SUBSET Tokens]
                        /\ lost \subseteq Tokens
<1>2. HandoffOK'
  <2>1. HandoffOK /\ tokens[t] \in TokenRow
    BY DEF IInv, TypeOK
  <2>2. ASSUME NEW s \in Ids, IssueHandoffToken(t, s) PROVE HandoffOK'
    <3>1. [tokens[t] EXCEPT !.status = "unused", !.session = s] \in TokenRow
      BY <2>1 DEF TokenRow
    <3> QED BY <2>1, <2>2, <3>1 DEF IssueHandoffToken
  <2>3. CASE Expire(t)
    <3>1. [tokens[t] EXCEPT !.expired = TRUE] \in TokenRow
      BY <2>1 DEF TokenRow
    <3> QED BY <2>1, <2>3, <3>1 DEF Expire
  <2>4. ASSUME NEW d \in Devices, RedeemHandoffToken(t, d) PROVE HandoffOK'
    <3>1. [tokens[t] EXCEPT !.status = "used"] \in TokenRow
      BY <2>1 DEF TokenRow
    <3> QED BY <2>1, <2>4, <3>1 DEF RedeemHandoffToken
  <2>5. ASSUME NEW d \in Devices, AnswerRedemption(t, d) \/ LoseRedemption(t, d)
        PROVE  HandoffOK'
    BY <2>1, <2>5 DEF AnswerRedemption, LoseRedemption
  <2> QED BY <2>2, <2>3, <2>4, <2>5
<1>3. TypeOK'
  BY <1>1, <1>2 DEF IInv, TypeOK
<1>4. RequestInv' /\ OneOwner' /\ DoneInv' /\ AnswerInv' /\ CountInv'
  BY <1>1 DEF IInv, RequestInv, Sound, CreatedFor, OneOwner, DoneInv, AnswerInv, CountInv,
              KeyOf, CreatedBy
<1> QED BY <1>3, <1>4 DEF IInv

LEMMA NextIInv ==
  ASSUME IInv, [Next]_vars
  PROVE  IInv'
<1>1. ASSUME NEW q \in Requests, RequestStep(q) PROVE IInv'
  <2>1. ASSUME NEW k \in Keys, NEW b \in Bodies, Receive(q, k, b) PROVE IInv'
    BY <2>1, ReceiveStep
  <2>2. CASE ReserveKey(q)
    BY <2>2, ReserveStep
  <2>3. CASE Replay(q)
    BY <2>3, ReplayStep
  <2>4. CASE CreateScanSession(q)
    BY <2>4, CreateStep
  <2>5. CASE AnswerNotFound(q) \/ RecordAuditEvent(q)
    BY <2>5, HandledStep
  <2>6. CASE HandlerThrows(q)
    BY <2>6, ThrowStep
  <2>7. CASE ReleaseKey(q)
    BY <2>7, ReleaseStep
  <2>8. CASE CompleteRecord(q)
    BY <2>8, CompleteStep
  <2>9. CASE Reply(q)
    BY <2>9, ReplyStep
  <2>10. CASE RequestDies(q)
    <3>1. failures' \in 0..MaxFailures
      BY <2>10, StartAssumption DEF RequestDies, IInv, TypeOK
    <3> QED BY <2>10, <3>1, EndStep DEF RequestDies
  <2> QED BY <1>1, <2>1, <2>2, <2>3, <2>4, <2>5, <2>6, <2>7, <2>8, <2>9, <2>10
          DEF RequestStep
<1>2. CASE CreateProperty
  BY <1>2, CreatePropertyStep
<1>3. CASE UNCHANGED vars
  <2>1. TypeOK'
    BY <1>3 DEF vars, startVars, handoffVars, IInv, TypeOK
  <2>2. RequestInv' /\ OneOwner' /\ DoneInv' /\ AnswerInv' /\ CountInv'
    BY <1>3 DEF vars, startVars, IInv, RequestInv, Sound, CreatedFor, OneOwner, DoneInv, AnswerInv,
                CountInv, KeyOf, CreatedBy
  <2> QED BY <2>1, <2>2 DEF IInv
<1> QED BY <1>1, <1>2, <1>3, HandoffStep DEF Next

\* The inductive invariant of the specification.
THEOREM Invariance == Spec => []IInv
<1>1. IInv /\ [Next]_vars => IInv'
  BY NextIInv
<1> QED BY InitIInv, <1>1, PTL DEF Spec

\* Every variable keeps its type, for any number of keys, bodies, requests,
\* tokens, devices and failures.
THEOREM TypeCorrect == Spec => []TypeOK
<1>1. IInv => TypeOK
  BY DEF IInv
<1> QED BY <1>1, Invariance, PTL

\* Whoever is answered for a key gets one answer, and only of a session its own
\* body created (withIdempotency around the creation of a session).
THEOREM OneAnswerPerKey == Spec => []AnswersAgree
<1>1. IInv => AnswersAgree
  <2> SUFFICES ASSUME IInv PROVE AnswersAgree
    OBVIOUS
  <2>1. \A x, y \in answers : x[1] = y[1] => x[3] = y[3]
    BY DEF IInv, AnswerInv
  <2>2. ASSUME NEW x \in answers, x[3] # NotFound
        PROVE  sessions[x[3]] = <<x[1], x[2]>>
    <3>1. x[1] \in Keys
      BY DEF IInv, TypeOK
    <3>2. CreatedFor(x[1], x[2], x[3])
      BY <3>1 DEF IInv, AnswerInv, DoneInv
    <3> QED BY <2>2, <3>2 DEF CreatedFor
  <2> QED BY <2>1, <2>2 DEF AnswersAgree
<1> QED BY <1>1, Invariance, PTL

\* A second session under one key takes a handler that threw after its insert.
THEOREM DuplicatesAreExplained == Spec => []DuplicateNeedsLateFailure
<1>1. IInv => DuplicateNeedsLateFailure
  <2> SUFFICES ASSUME IInv, NEW k \in Keys
               PROVE  Cardinality(CreatedBy(k)) <= 1 + lateFailures[k]
    BY DEF DuplicateNeedsLateFailure
  <2>1. Cardinality(CreatedBy(k)) \in Nat /\ lateFailures[k] \in Nat
    BY CreatedByFinite DEF IInv, TypeOK
  <2> QED BY <2>1 DEF IInv, CountInv
<1> QED BY <1>1, Invariance, PTL

-----------------------------------------------------------------------------
(* The handoff token *)

\* An unused token has been promised to nobody; there is at most one
\* redemption of a used one, answered, unanswered or lost.
TokenInv ==
  \A t \in Tokens :
    /\ tokens[t].status # "used" =>
         t \notin lost /\ Openers(t) = {} /\ Redeemers(t) = {}
    /\ t \in lost => Openers(t) = {} /\ Redeemers(t) = {}
    /\ Openers(t) # {} => Redeemers(t) = {}
    /\ \A d, e \in Openers(t) : d = e
    /\ \A d, e \in Redeemers(t) : d = e

\* A step of a redemption leaves alone what is known of the other tokens.
LEMMA OtherTokens ==
  ASSUME NEW t \in Tokens, NEW d \in Devices, NEW u \in Tokens, u # t, TypeOK,
         RedeemHandoffToken(t, d) \/ AnswerRedemption(t, d) \/ LoseRedemption(t, d)
  PROVE  /\ tokens'[u] = tokens[u] /\ (u \in lost <=> u \in lost')
         /\ Openers(u)' = Openers(u) /\ Redeemers(u)' = Redeemers(u)
<1>1. tokens'[u] = tokens[u] /\ (u \in lost <=> u \in lost')
  BY DEF RedeemHandoffToken, AnswerRedemption, LoseRedemption, TypeOK
<1>2. \A e \in Devices : u \in opened[e] <=> u \in opened'[e]
  BY DEF RedeemHandoffToken, AnswerRedemption, LoseRedemption, TypeOK
<1>3. \A e \in Devices : <<e, u>> \in redeeming <=> <<e, u>> \in redeeming'
  BY DEF RedeemHandoffToken, AnswerRedemption, LoseRedemption
<1> QED BY <1>1, <1>2, <1>3 DEF Openers, Redeemers

\* Issuing a token or letting it expire redeems none.
LEMMA UnusedStep ==
  ASSUME NEW t \in Tokens, TypeOK, TokenInv,
         (\E s \in Ids : IssueHandoffToken(t, s)) \/ Expire(t)
  PROVE  TokenInv'
<1>1. UNCHANGED <<redeeming, opened, lost>>
  BY DEF IssueHandoffToken, Expire
<1>2. \A u \in Tokens : tokens[u].status = "used" => tokens'[u].status = "used"
  BY DEF IssueHandoffToken, Expire, TypeOK, TokenRow
<1>3. \A u \in Tokens : Openers(u)' = Openers(u) /\ Redeemers(u)' = Redeemers(u)
  BY <1>1 DEF Openers, Redeemers
<1>4. ASSUME NEW u \in Tokens, tokens'[u].status # "used" PROVE tokens[u].status # "used"
  BY <1>2, <1>4
<1> QED BY <1>1, <1>3, <1>4 DEF TokenInv

\* One redemption of a token is granted, whichever device asks and whether the
\* answer arrives or not (redeemHandoffToken and the route around it).
THEOREM TokensOpenOnce == Spec => []OneDevicePerToken
<1>1. Init => TokenInv
  BY DEF Init, TokenInv, Openers, Redeemers
<1>2. TypeOK /\ TokenInv /\ [Next]_vars => TokenInv'
  <2> SUFFICES ASSUME TypeOK, TokenInv, [Next]_vars PROVE TokenInv'
    OBVIOUS
  <2>1. CASE UNCHANGED handoffVars
    BY <2>1 DEF handoffVars, TokenInv, Openers, Redeemers
  <2>2. ASSUME NEW t \in Tokens, NEW d \in Devices, RedeemHandoffToken(t, d)
        PROVE  TokenInv'
    <3>1. t \notin lost' /\ Openers(t)' = {} /\ tokens'[t].status = "used"
      BY <2>2 DEF RedeemHandoffToken, Redeemable, TokenInv, Openers, TypeOK, TokenRow
    <3>2. Redeemers(t)' \subseteq {d}
      BY <2>2 DEF RedeemHandoffToken, Redeemable, TokenInv, Redeemers
    <3> QED BY <2>2, <3>1, <3>2, OtherTokens DEF TokenInv
  <2>3. ASSUME NEW t \in Tokens, NEW d \in Devices,
               AnswerRedemption(t, d) \/ LoseRedemption(t, d)
        PROVE  TokenInv'
    <3>1. d \in Redeemers(t)
      BY <2>3 DEF AnswerRedemption, LoseRedemption, Redeemers
    <3>2. /\ tokens[t].status = "used" /\ t \notin lost /\ Openers(t) = {}
          /\ \A e \in Redeemers(t) : e = d
      BY <3>1 DEF TokenInv
    <3>3. Redeemers(t)' = {} /\ tokens'[t].status = "used"
      BY <2>3, <3>2 DEF AnswerRedemption, LoseRedemption, Redeemers
    <3>4. CASE AnswerRedemption(t, d)
      <4>1. t \notin lost' /\ Openers(t)' \subseteq {d}
        BY <3>2, <3>4 DEF AnswerRedemption, Openers, TypeOK
      <4> QED BY <2>3, <3>3, <4>1, OtherTokens DEF TokenInv
    <3>5. CASE LoseRedemption(t, d)
      <4>1. Openers(t)' = {}
        BY <3>2, <3>5 DEF LoseRedemption, Openers
      <4> QED BY <2>3, <3>3, <4>1, OtherTokens DEF TokenInv
    <3> QED BY <2>3, <3>4, <3>5
  <2>4. ASSUME NEW q \in Requests, RequestStep(q) PROVE UNCHANGED handoffVars
    BY <2>4 DEF RequestStep, Receive, ReserveKey, Replay, CreateScanSession,
                AnswerNotFound, RecordAuditEvent, HandlerThrows, ReleaseKey,
                CompleteRecord, Reply, RequestDies
  <2>5. CASE CreateProperty
    BY <2>1, <2>5 DEF CreateProperty
  <2>6. CASE UNCHANGED vars
    BY <2>1, <2>6 DEF vars
  <2>7. CASE \E t \in Tokens :
               \/ \E s \in Ids : IssueHandoffToken(t, s)
               \/ Expire(t)
               \/ \E d \in Devices :
                    RedeemHandoffToken(t, d) \/ AnswerRedemption(t, d) \/ LoseRedemption(t, d)
    <3>1. PICK t \in Tokens :
               \/ \E s \in Ids : IssueHandoffToken(t, s)
               \/ Expire(t)
               \/ \E d \in Devices :
                    RedeemHandoffToken(t, d) \/ AnswerRedemption(t, d) \/ LoseRedemption(t, d)
      BY <2>7
    <3> QED BY <2>2, <2>3, <3>1, UnusedStep
  <2> QED BY <2>1, <2>4, <2>5, <2>6, <2>7 DEF Next
<1>3. TokenInv => OneDevicePerToken
  <2> SUFFICES ASSUME TokenInv, NEW t \in Tokens
               PROVE  Cardinality(Openers(t) \cup Redeemers(t)) <= 1
    BY DEF TokenInv, OneDevicePerToken
  <2>1. CASE Openers(t) \cup Redeemers(t) = {}
    BY <2>1, FS_EmptySet
  <2>2. ASSUME NEW d \in Openers(t) \cup Redeemers(t)
        PROVE  Cardinality(Openers(t) \cup Redeemers(t)) <= 1
    <3>1. Openers(t) \cup Redeemers(t) = {d}
      BY <2>2 DEF TokenInv
    <3> QED BY <3>1, FS_Singleton
  <2> QED BY <2>1, <2>2
<1> QED BY <1>1, <1>2, <1>3, TypeCorrect, PTL DEF Spec
=============================================================================
