-------------------------- MODULE FacadeMeasurements --------------------------
(***************************************************************************)
(* The facades of a property, their openings and the measurements of them, *)
(* for an organization whose entitlement to exterior features is granted   *)
(* and revoked while requests are served.                                  *)
(*                                                                         *)
(* A measurement is inserted and, if it is a field-verified dimension of a *)
(* facade opening, denormalized into the opening's row by an UPDATE of the *)
(* same transaction, which waits for any other that has written the row.   *)
(* A measurement's created_at is the time its transaction began.  A client *)
(* that gets no answer repeats its request: there is no idempotency key.   *)
(***************************************************************************)
EXTENDS Naturals, FiniteSets

CONSTANTS
  Openings,      \* ids of facade openings
  Values,        \* dimensions in meters
  Requests,      \* requests the API serves at a time (bound)
  MaxRequests,   \* requests over a behaviour (bound)
  None

VARIABLES
  entitlement,   \* the exterior_capture row, "none" before it is written
  facade,        \* the facade exists
  openings,      \* facade_openings rows
  measurements,  \* committed measurements, with the time of their commit
  requests,      \* control state of each request
  received,      \* requests so far
  now,           \* counts the beginnings and commits of transactions
  granted        \* history: the organization was entitled at some time

vars == <<entitlement, facade, openings, measurements, requests, received, now, granted>>

Dimensions == {"width", "height"}

ASSUME FacadeAssumption ==
  /\ MaxRequests \in Nat
  /\ None \notin Values

Times == Nat
OpeningRow == [exists : BOOLEAN, verified : BOOLEAN,
               size : [Dimensions -> Values \cup {None}]]
Measurement == [opening : Openings, type : Dimensions \cup {"thickness"}, value : Values,
                verified : BOOLEAN, began : Times]
RequestType == [pc : {"idle", "facade", "opening", "found", "recorded", "applied"},
                measurement : Measurement \cup {None}]

TypeOK ==
  /\ entitlement \in {"none", "enabled", "disabled"}
  /\ {facade, granted} \subseteq BOOLEAN
  /\ openings \in [Openings -> OpeningRow]
  /\ measurements \subseteq [m : Measurement, committed : Times]
  /\ requests \in [Requests -> RequestType]
  /\ received \in 0..MaxRequests /\ now \in Times

IdleRequest == [pc |-> "idle", measurement |-> None]

Init ==
  /\ entitlement = "none" /\ facade = FALSE /\ granted = FALSE
  /\ openings = [o \in Openings |-> [exists |-> FALSE, verified |-> FALSE,
                                     size |-> [d \in Dimensions |-> None]]]
  /\ measurements = {}
  /\ requests = [q \in Requests |-> IdleRequest]
  /\ received = 0 /\ now = 0

At(q, pc) == requests[q].pc = pc
End(q) == requests' = [requests EXCEPT ![q] = IdleRequest]
Receive(q, pc, m) ==
  /\ At(q, "idle") /\ received < MaxRequests
  /\ received' = received + 1
  /\ requests' = [requests EXCEPT ![q] = [pc |-> pc, measurement |-> m]]
-----------------------------------------------------------------------------
(* Entitlements *)

SetEntitlement(enabled) ==
  /\ entitlement' = IF enabled THEN "enabled" ELSE "disabled"
  /\ granted' = (granted \/ enabled)
  /\ UNCHANGED <<facade, openings, measurements, requests, received, now>>

\* Mistake: what was not disabled is on.
EntitledUnlessDisabled == entitlement # "disabled"
IsEntitled == entitlement = "enabled"

-----------------------------------------------------------------------------
(* Facades and openings: looked up first, inserted after *)

BeginFacade(q) ==
  /\ IsEntitled
  /\ Receive(q, "facade", None)
  /\ UNCHANGED <<entitlement, facade, openings, measurements, now, granted>>

CreateFacade(q) ==
  /\ At(q, "facade")
  /\ facade' = TRUE
  /\ End(q)
  /\ UNCHANGED <<entitlement, openings, measurements, received, now, granted>>

BeginOpening(q) ==
  /\ IsEntitled /\ facade
  /\ Receive(q, "opening", None)
  /\ UNCHANGED <<entitlement, facade, openings, measurements, now, granted>>

CreateFacadeOpening(q, o, size) ==
  /\ At(q, "opening")
  /\ ~openings[o].exists
  /\ openings' = [openings EXCEPT ![o] =
                   [exists |-> TRUE, verified |-> FALSE, size |-> size]]
  /\ End(q)
  /\ UNCHANGED <<entitlement, facade, measurements, received, now, granted>>

-----------------------------------------------------------------------------
(* POST /v1/measurements *)

\* The entitlement is not asked for.
FindFacadeOpening(q, o, type, value, verified) ==
  /\ openings[o].exists
  /\ Receive(q, "found", [opening |-> o, type |-> type, value |-> value,
                          verified |-> verified, began |-> 0])
  /\ UNCHANGED <<entitlement, facade, openings, measurements, now, granted>>

\* BEGIN, and the row that only this transaction sees.
RecordMeasurement(q) ==
  /\ At(q, "found")
  /\ requests' = [requests EXCEPT ![q] =
       [pc |-> "recorded", measurement |-> [@.measurement EXCEPT !.began = now + 1]]]
  /\ now' = now + 1
  /\ UNCHANGED <<entitlement, facade, openings, measurements, received, granted>>

\* Mistake: whatever was measured is shown.
DisplayedAlways(m) == m.type \in Dimensions
Displayed(m) == m.verified /\ m.type \in Dimensions

\* Mistakes: the column is not named; a dimension is only filled in.
SizedWhole(o, m) == [o EXCEPT !.size = m.value, !.verified = TRUE]
SizedIfMissing(o, m) ==
  [o EXCEPT !.size[m.type] = IF @ = None THEN m.value ELSE @, !.verified = TRUE]
\* applyFacadeOpeningMeasurement: one dimension, and the whole row is verified.
Sized(o, m) == [o EXCEPT !.size[m.type] = m.value, !.verified = TRUE]

\* The UPDATE, once no other transaction holds the row.
ApplyMeasurement(q) ==
  LET m == requests[q].measurement IN
  /\ At(q, "recorded") /\ Displayed(m)
  /\ \A r \in Requests : At(r, "applied") => requests[r].measurement.opening # m.opening
  /\ requests' = [requests EXCEPT ![q].pc = "applied"]
  /\ UNCHANGED <<entitlement, facade, openings, measurements, received, now, granted>>

Commit(q) ==
  LET m == requests[q].measurement IN
  /\ \/ At(q, "applied")
     \/ At(q, "recorded") /\ ~Displayed(m)
  /\ measurements' = measurements \cup {[m |-> m, committed |-> now + 1]}
  /\ openings' = IF Displayed(m) THEN [openings EXCEPT ![m.opening] = Sized(@, m)]
                                 ELSE openings
  /\ now' = now + 1
  /\ End(q)
  /\ UNCHANGED <<entitlement, facade, received, granted>>

\* A failure before the commit: nothing of the request stays.
Fail(q) ==
  /\ ~At(q, "idle")
  /\ End(q)
  /\ UNCHANGED <<entitlement, facade, openings, measurements, received, now, granted>>

-----------------------------------------------------------------------------

Sizes == [Dimensions -> Values \cup {None}]

RequestStep(q) ==
  \/ BeginFacade(q) \/ CreateFacade(q) \/ BeginOpening(q)
  \/ \E o \in Openings, size \in Sizes : CreateFacadeOpening(q, o, size)
  \/ \E o \in Openings, type \in Dimensions \cup {"thickness"}, value \in Values,
        verified \in BOOLEAN : FindFacadeOpening(q, o, type, value, verified)
  \/ RecordMeasurement(q) \/ ApplyMeasurement(q) \/ Commit(q) \/ Fail(q)

Next == \/ \E enabled \in BOOLEAN : SetEntitlement(enabled)
        \/ \E q \in Requests : RequestStep(q)

Spec == Init /\ [][Next]_vars

-----------------------------------------------------------------------------
(* Properties *)

\* The field-verified measurements of a dimension of an opening.
VerifiedOf(o, d) ==
  { r \in measurements : r.m.opening = o /\ r.m.type = d /\ r.m.verified }

\* The dimension shown was measured, and no measurement of it began after that
\* one was committed.  Not more: of two that overlap, the later created_at may
\* be the one that is not shown.
DisplayIsRecent ==
  \A o \in Openings, d \in Dimensions :
    VerifiedOf(o, d) # {} =>
      \E r \in VerifiedOf(o, d) :
        /\ openings[o].size[d] = r.m.value
        /\ \A k \in VerifiedOf(o, d) : k.m.began <= r.committed

\* However transactions fail or wait for each other, an opening is field-verified
\* exactly if a verified measurement of one of its dimensions is on record; the
\* other dimensions may be what a client declared.
VerifiedIsBacked ==
  \A o \in Openings :
    openings[o].verified <=> \E d \in Dimensions : VerifiedOf(o, d) # {}

\* An organization that was never entitled has no facade, opening or measurement
\* of one, although measurements do not ask for the entitlement.
NeverGrantedMeansNone ==
  ~granted => /\ ~facade /\ measurements = {}
              /\ \A o \in Openings : ~openings[o].exists
=============================================================================
