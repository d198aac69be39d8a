----------------------------- MODULE SessionStart -----------------------------
(***************************************************************************)
(* How a scan begins: POST /v1/scan-sessions under an Idempotency-Key      *)
(* (withIdempotency around the creation of the session), the handoff       *)
(* token issued for the session, and its single redemption by a device.    *)
(*                                                                         *)
(* Each SQL statement is a step; requests with the same key overlap, fail  *)
(* after any step, and are repeated by their clients.  Entitlement, tenant *)
(* and schema are checked before the first modelled step.                  *)
(***************************************************************************)
EXTENDS Naturals, Sequences, FiniteSets

CONSTANTS
  Keys,          \* Idempotency-Key values
  Bodies,        \* request bodies, told apart by hashRequestBody
  Requests,      \* requests the API serves at a time (bound)
  Tokens,        \* handoff tokens (bound)
  Devices,       \* callers of redeemHandoff
  MaxSessions,   \* scan_sessions rows (bound)
  MaxFailures,   \* handlers that throw, and requests that die (bound)
  None, NotFound

VARIABLES
  keys,          \* idempotency_keys rows
  sessions,      \* scan_sessions rows: the key and body that created each
  known,         \* the property and the floor of the bodies exist
  requests,      \* control state of each request
  answers,       \* history: <<key, body, response>> sent to clients
  failures,      \* failures so far
  lateFailures,  \* history: keys whose handler threw after its insert
  tokens,        \* scan_handoff_tokens rows
  redeeming,     \* <<device, token>> of each redemption not answered yet
  opened,        \* the tokens each device has been given a session for
  lost           \* history: tokens whose redemption was never answered

handoffVars == <<tokens, redeeming, opened, lost>>
startVars == <<keys, sessions, known, requests, answers, failures, lateFailures>>
vars == <<startVars, handoffVars>>

Ids == 1..MaxSessions
Responses == Ids \cup {NotFound}

ASSUME StartAssumption ==
  /\ MaxSessions \in Nat /\ MaxFailures \in Nat
  /\ NotFound \notin Ids /\ None \notin Responses \cup Keys \cup Bodies

KeyRow == [status : {"absent", "pending", "done"}, hash : Bodies \cup {None},
           response : Responses \cup {None}]
RequestType == [pc : {"idle", "reserve", "lookup", "handle", "audit",
                      "release", "complete", "reply"},
                key : Keys \cup {None}, body : Bodies \cup {None},
                response : Responses \cup {None}]
TokenRow == [status : {"absent", "unused", "used"}, expired : BOOLEAN,
             session : Ids \cup {None}]

TypeOK ==
  /\ keys \in [Keys -> KeyRow]
  /\ sessions \in Seq(Keys \X Bodies) /\ Len(sessions) <= MaxSessions
  /\ known \in BOOLEAN
  /\ requests \in [Requests -> RequestType]
  /\ answers \subseteq Keys \X Bodies \X Responses
  /\ failures \in 0..MaxFailures
  /\ lateFailures \in [Keys -> Nat]
  /\ tokens \in [Tokens -> TokenRow]
  /\ redeeming \subseteq Devices \X Tokens
  /\ opened \in [Devices -> SUBSET Tokens]
  /\ lost \subseteq Tokens

NoRow == [status |-> "absent", hash |-> None, response |-> None]
IdleRequest == [pc |-> "idle", key |-> None, body |-> None, response |-> None]

Init ==
  /\ keys = [k \in Keys |-> NoRow]
  /\ sessions = <<>>
  /\ known \in BOOLEAN
  /\ requests = [q \in Requests |-> IdleRequest]
  /\ answers = {}
  /\ failures = 0
  /\ lateFailures = [k \in Keys |-> 0]
  /\ tokens = [t \in Tokens |-> [status |-> "absent", expired |-> FALSE,
                                 session |-> None]]
  /\ redeeming = {}
  /\ opened = [d \in Devices |-> {}]
  /\ lost = {}

-----------------------------------------------------------------------------
(* withIdempotency *)

At(q, pc) == requests[q].pc = pc
Goto(q, pc) == requests' = [requests EXCEPT ![q].pc = pc]
End(q) == requests' = [requests EXCEPT ![q] = IdleRequest]
KeyOf(q) == requests[q].key
Row(q) == keys[KeyOf(q)]

\* A client sends a request, or repeats one: the dashboard with a new key for
\* each click, other clients with the key of the request they repeat.
Receive(q, k, b) ==
  /\ At(q, "idle")
  /\ requests' = [requests EXCEPT ![q] =
       [IdleRequest EXCEPT !.pc = "reserve", !.key = k, !.body = b]]
  /\ UNCHANGED <<keys, sessions, known, answers, failures, lateFailures, handoffVars>>

CreateProperty ==
  /\ ~known
  /\ known' = TRUE
  /\ UNCHANGED <<keys, sessions, requests, answers, failures, lateFailures, handoffVars>>

\* insert ... on conflict do nothing.
\* Mistake: a pending reservation is taken over.
ReservableAgain(q) == Row(q).status # "done"
Reservable(q) == Row(q).status = "absent"

ReserveKey(q) ==
  /\ At(q, "reserve")
  /\ IF Reservable(q)
       THEN /\ keys' = [keys EXCEPT ![KeyOf(q)] =
                 [NoRow EXCEPT !.status = "pending", !.hash = requests[q].body]]
            /\ Goto(q, "handle")
       ELSE UNCHANGED keys /\ Goto(q, "lookup")
  /\ UNCHANGED <<sessions, known, answers, failures, lateFailures, handoffVars>>

\* Mistake: the body of the request is not compared.
SameRequestUnchecked(q) == TRUE
SameRequest(q) == Row(q).hash = requests[q].body

\* The row that stood in the way, if it is still there: a stored answer, 422
\* for another body, or 409.
Replay(q) ==
  /\ At(q, "lookup")
  /\ answers' = IF Row(q).status = "done" /\ SameRequest(q)
                  THEN answers \cup {<<KeyOf(q), requests[q].body, Row(q).response>>}
                  ELSE answers
  /\ End(q)
  /\ UNCHANGED <<keys, sessions, known, failures, lateFailures, handoffVars>>

\* The handler: no such property or floor is an answer like any other.
CreateScanSession(q) ==
  /\ At(q, "handle")
  /\ known
  /\ Len(sessions) < MaxSessions
  /\ sessions' = Append(sessions, <<KeyOf(q), requests[q].body>>)
  /\ requests' = [requests EXCEPT ![q] = [@ EXCEPT !.pc = "audit",
                                                   !.response = Len(sessions) + 1]]
  /\ UNCHANGED <<keys, known, answers, failures, lateFailures, handoffVars>>

AnswerNotFound(q) ==
  /\ At(q, "handle")
  /\ ~known
  /\ requests' = [requests EXCEPT ![q] = [@ EXCEPT !.pc = "complete",
                                                   !.response = NotFound]]
  /\ UNCHANGED <<keys, sessions, known, answers, failures, lateFailures, handoffVars>>

RecordAuditEvent(q) ==
  /\ At(q, "audit")
  /\ Goto(q, "complete")
  /\ UNCHANGED <<keys, sessions, known, answers, failures, lateFailures, handoffVars>>

\* A statement of the handler rejects, before or after the insert.
HandlerThrows(q) ==
  /\ requests[q].pc \in {"handle", "audit"}
  /\ failures < MaxFailures
  /\ failures' = failures + 1
  /\ lateFailures' = [lateFailures EXCEPT
       ![KeyOf(q)] = IF At(q, "audit") THEN @ + 1 ELSE @]
  /\ Goto(q, "release")
  /\ UNCHANGED <<keys, sessions, known, answers, handoffVars>>

ReleaseKey(q) ==
  /\ At(q, "release")
  /\ keys' = IF Row(q).status = "pending" THEN [keys EXCEPT ![KeyOf(q)] = NoRow]
                                          ELSE keys
  /\ End(q)
  /\ UNCHANGED <<sessions, known, answers, failures, lateFailures, handoffVars>>

\* Mistake: the status is stored without the response.
StoredForgotten(q) == None
Stored(q) == requests[q].response

CompleteRecord(q) ==
  /\ At(q, "complete")
  /\ keys' = [keys EXCEPT ![KeyOf(q)] =
       [@ EXCEPT !.status = "done", !.response = Stored(q)]]
  /\ Goto(q, "reply")
  /\ UNCHANGED <<sessions, known, answers, failures, lateFailures, handoffVars>>

Reply(q) ==
  /\ At(q, "reply")
  /\ answers' = answers \cup {<<KeyOf(q), requests[q].body, requests[q].response>>}
  /\ End(q)
  /\ UNCHANGED <<keys, sessions, known, failures, lateFailures, handoffVars>>

\* The process dies, or a statement outside the handler rejects: the
\* reservation stays.
RequestDies(q) ==
  /\ ~At(q, "idle")
  /\ failures < MaxFailures
  /\ failures' = failures + 1
  /\ End(q)
  /\ UNCHANGED <<keys, sessions, known, answers, lateFailures, handoffVars>>

-----------------------------------------------------------------------------
(* The handoff *)

\* The row is committed before the audit event and the answer: a token that
\* nobody ever learns is possible.
IssueHandoffToken(t, s) ==
  /\ tokens[t].status = "absent"
  /\ s \in 1..Len(sessions)
  /\ tokens' = [tokens EXCEPT ![t] = [@ EXCEPT !.status = "unused", !.session = s]]
  /\ UNCHANGED <<startVars, redeeming, opened, lost>>

Expire(t) ==
  /\ tokens[t].status # "absent" /\ ~tokens[t].expired
  /\ tokens' = [tokens EXCEPT ![t].expired = TRUE]
  /\ UNCHANGED <<startVars, redeeming, opened, lost>>

\* Mistake: the update does not ask whether the token was used.
RedeemableAgain(t) == tokens[t].status # "absent" /\ ~tokens[t].expired
Redeemable(t) == tokens[t].status = "unused" /\ ~tokens[t].expired

\* One conditional update,
RedeemHandoffToken(t, d) ==
  /\ Redeemable(t)
  /\ tokens' = [tokens EXCEPT ![t].status = "used"]
  /\ redeeming' = redeeming \cup {<<d, t>>}
  /\ UNCHANGED <<startVars, opened, lost>>

\* then the session is read and answered,
AnswerRedemption(t, d) ==
  /\ <<d, t>> \in redeeming
  /\ redeeming' = redeeming \ {<<d, t>>}
  /\ opened' = [opened EXCEPT ![d] = @ \cup {t}]
  /\ UNCHANGED <<startVars, tokens, lost>>

\* or the read fails, or the answer never arrives: the token is spent.
LoseRedemption(t, d) ==
  /\ <<d, t>> \in redeeming
  /\ redeeming' = redeeming \ {<<d, t>>}
  /\ lost' = lost \cup {t}
  /\ UNCHANGED <<startVars, tokens, opened>>

-----------------------------------------------------------------------------

RequestStep(q) ==
  \/ \E k \in Keys, b \in Bodies : Receive(q, k, b)
  \/ ReserveKey(q) \/ Replay(q) \/ CreateScanSession(q) \/ AnswerNotFound(q)
  \/ RecordAuditEvent(q) \/ HandlerThrows(q) \/ ReleaseKey(q)
  \/ CompleteRecord(q) \/ Reply(q) \/ RequestDies(q)

Next ==
  \/ \E q \in Requests : RequestStep(q)
  \/ CreateProperty
  \/ \E t \in Tokens :
       \/ \E s \in Ids : IssueHandoffToken(t, s)
       \/ Expire(t)
       \/ \E d \in Devices :
            RedeemHandoffToken(t, d) \/ AnswerRedemption(t, d) \/ LoseRedemption(t, d)

Spec == Init /\ [][Next]_vars

-----------------------------------------------------------------------------
(* Properties *)

\* Every client that is answered for a key gets the same answer, whether it
\* sent the first request, raced it or came after it, and whatever failed in
\* between; and no client is told of a session that another body created.
AnswersAgree ==
  /\ \A x, y \in answers : x[1] = y[1] => x[3] = y[3]
  /\ \A x \in answers : x[3] # NotFound => sessions[x[3]] = <<x[1], x[2]>>

CreatedBy(k) == { s \in 1..Len(sessions) : sessions[s][1] = k }

\* A key creates a second session only if the handler threw after it had
\* inserted the first one: never because two requests overlapped.
DuplicateNeedsLateFailure ==
  \A k \in Keys : Cardinality(CreatedBy(k)) <= 1 + lateFailures[k]

Openers(t) == { d \in Devices : t \in opened[d] }
Redeemers(t) == { d \in Devices : <<d, t>> \in redeeming }

\* However many devices ask, one redemption of a token is ever granted: the
\* device that was answered is the only one that ever will be, and nobody is
\* once an answer was lost.
OneDevicePerToken ==
  \A t \in Tokens :
    /\ Cardinality(Openers(t) \cup Redeemers(t)) <= 1
    /\ Openers(t) \cap Redeemers(t) = {}
    /\ t \in lost => Openers(t) \cup Redeemers(t) = {}
=============================================================================
