----------------------- MODULE FacadeMeasurementsProofs -----------------------
(* What holds of FacadeMeasurements for any openings, values and requests. *)
EXTENDS FacadeMeasurements, TLAPS

(***************************************************************************)
(* A measurement under way began before now, one on record was committed   *)
(* after it began and before now.  A request that has looked an opening up *)
(* carries a measurement of an opening that exists.                        *)
(***************************************************************************)
Recording(q) == requests[q].pc \in {"found", "recorded", "applied"}

RequestInv ==
  /\ \A q \in Requests : Recording(q) =>
       /\ requests[q].measurement \in Measurement
       /\ requests[q].measurement.began <= now
       /\ openings[requests[q].measurement.opening].exists
  /\ \A q \in Requests : At(q, "applied") => Displayed(requests[q].measurement)

RecordInv ==
  \A r \in measurements : /\ r.m.began <= r.committed /\ r.committed <= now
                           /\ openings[r.m.opening].exists

\* Whoever got past a check of the entitlement, or of what needed one, was
\* served at a time when it had been granted.
GrantInv ==
  ~granted =>
    /\ entitlement # "enabled" /\ ~facade
    /\ \A q \in Requests : At(q, "idle")
    /\ measurements = {}
    /\ \A o \in Openings : ~openings[o].exists

IInv == TypeOK /\ RequestInv /\ RecordInv /\ GrantInv
          /\ VerifiedIsBacked /\ DisplayIsRecent

\* What a new request may carry.
Startable(pc, m) ==
  \/ pc \in {"facade", "opening"} /\ m = None /\ IsEntitled
  \/ pc = "found" /\ m \in Measurement /\ m.began = 0 /\ openings[m.opening].exists

Others == <<entitlement, facade, openings, measurements, now, granted>>

-----------------------------------------------------------------------------

LEMMA InitIInv == Init => IInv
<1> SUFFICES ASSUME Init PROVE IInv
  OBVIOUS
<1> USE DEF Init, IdleRequest
<1>1. TypeOK
  <2>1. [exists |-> FALSE, verified |-> FALSE, size |-> [d \in Dimensions |-> None]]
          \in OpeningRow
    BY DEF OpeningRow
  <2>2. IdleRequest \in RequestType
    BY DEF RequestType
  <2>3. openings \in [Openings -> OpeningRow] /\ requests \in [Requests -> RequestType]
    BY <2>1, <2>2
  <2>4. received \in 0..MaxRequests /\ now \in Times
    BY FacadeAssumption DEF Times
  <2>5. entitlement \in {"none", "enabled", "disabled"} /\ {facade, granted} \subseteq BOOLEAN
        /\ measurements \subseteq [m : Measurement, committed : Times]
    OBVIOUS
  <2> QED BY <2>3, <2>4, <2>5 DEF TypeOK
<1>2. RequestInv
  BY DEF RequestInv, Recording, At
<1>3. RecordInv /\ GrantInv
  BY DEF RecordInv, GrantInv, At
<1>4. VerifiedIsBacked /\ DisplayIsRecent
  BY DEF VerifiedIsBacked, DisplayIsRecent, VerifiedOf
<1> QED BY <1>1, <1>2, <1>3, <1>4 DEF IInv

\* The properties speak of openings and measurements only.
LEMMA PropertiesKept ==
  ASSUME VerifiedIsBacked, DisplayIsRecent, UNCHANGED <<openings, measurements>>
  PROVE  VerifiedIsBacked' /\ DisplayIsRecent'
BY DEF VerifiedIsBacked, DisplayIsRecent, VerifiedOf

\* The beginning of a request: a request slot that was idle.
LEMMA ReceiveStep ==
  ASSUME NEW q \in Requests, NEW pc, NEW m, IInv,
         Startable(pc, m), Receive(q, pc, m), UNCHANGED Others
  PROVE  IInv'
<1> USE DEF Others, Startable
<1>1. requests' = [requests EXCEPT ![q] = [pc |-> pc, measurement |-> m]]
      /\ received' = received + 1 /\ received < MaxRequests
  BY DEF Receive
<1>2. [pc |-> pc, measurement |-> m] \in RequestType
  BY DEF RequestType
<1>3. TypeOK'
  BY <1>1, <1>2, FacadeAssumption DEF IInv, TypeOK
<1>4. RequestInv'
  BY <1>1 DEF IInv, TypeOK, RequestInv, Recording, At, RequestType, Times
<1>5. RecordInv'
  BY DEF IInv, RecordInv
<1>6. granted
  <2>1. CASE IsEntitled
    BY <2>1 DEF IInv, GrantInv, IsEntitled
  <2>2. CASE m \in Measurement /\ openings[m.opening].exists
    BY <2>2 DEF IInv, GrantInv, Measurement
  <2> QED BY <2>1, <2>2
<1>7. GrantInv'
  BY <1>6 DEF GrantInv
<1> QED BY <1>3, <1>4, <1>5, <1>7, PropertiesKept DEF IInv

\* The end of a request that leaves openings and measurements alone.
LEMMA EndStep ==
  ASSUME NEW q \in Requests, IInv, ~At(q, "idle"), End(q),
         UNCHANGED <<entitlement, openings, measurements, received, now, granted>>,
         facade' \in BOOLEAN
  PROVE  IInv'
<1>1. IdleRequest \in RequestType
  BY DEF IdleRequest, RequestType
<1>2. TypeOK'
  BY <1>1 DEF IInv, TypeOK, End
<1>3. RequestInv'
  BY DEF IInv, TypeOK, RequestInv, Recording, At, End, IdleRequest
<1>4. RecordInv'
  BY DEF IInv, RecordInv
<1>5. granted
  BY DEF IInv, GrantInv
<1>6. GrantInv'
  BY <1>5 DEF GrantInv
<1> QED BY <1>2, <1>3, <1>4, <1>6, PropertiesKept DEF IInv

LEMMA SetEntitlementStep ==
  ASSUME NEW enabled \in BOOLEAN, IInv, SetEntitlement(enabled)
  PROVE  IInv'
<1> USE DEF SetEntitlement
<1>1. TypeOK'
  BY DEF IInv, TypeOK
<1>2. RequestInv' /\ RecordInv'
  BY DEF IInv, RequestInv, RecordInv, Recording, At
<1>3. GrantInv'
  BY DEF IInv, GrantInv, At
<1> QED BY <1>1, <1>2, <1>3, PropertiesKept DEF IInv

LEMMA CreateOpeningStep ==
  ASSUME NEW q \in Requests, NEW o \in Openings, NEW size \in Sizes, IInv,
         CreateFacadeOpening(q, o, size)
  PROVE  IInv'
<1> USE DEF CreateFacadeOpening
<1>1. [exists |-> TRUE, verified |-> FALSE, size |-> size] \in OpeningRow
  BY DEF OpeningRow, Sizes
<1>2. IdleRequest \in RequestType
  BY DEF IdleRequest, RequestType
<1>3. TypeOK'
  BY <1>1, <1>2 DEF IInv, TypeOK, End
<1>4. \A p \in Openings : p # o => openings'[p] = openings[p]
  BY DEF IInv, TypeOK
<1>5. openings'[o].exists /\ ~openings'[o].verified
  BY DEF IInv, TypeOK
<1>6. RequestInv'
  BY <1>4, <1>5 DEF IInv, TypeOK, RequestInv, Recording, At, End, IdleRequest, Measurement
<1>7. RecordInv'
  BY <1>4, <1>5 DEF IInv, RecordInv, TypeOK, Measurement
<1>8. granted
  BY DEF IInv, GrantInv, At
<1>9. GrantInv'
  BY <1>8 DEF GrantInv
\* What does not exist has not been measured.
<1>10. \A d \in Dimensions : VerifiedOf(o, d) = {}
  BY DEF IInv, RecordInv, VerifiedOf
<1>11. \A p \in Openings, d \in Dimensions : VerifiedOf(p, d)' = VerifiedOf(p, d)
  BY DEF VerifiedOf
<1>12. VerifiedIsBacked'
  BY <1>4, <1>5, <1>10, <1>11 DEF IInv, VerifiedIsBacked
<1>13. DisplayIsRecent'
  BY <1>4, <1>10, <1>11 DEF IInv, DisplayIsRecent
<1> QED BY <1>3, <1>6, <1>7, <1>9, <1>12, <1>13 DEF IInv

LEMMA RecordStep ==
  ASSUME NEW q \in Requests, IInv, RecordMeasurement(q)
  PROVE  IInv'
<1> USE DEF RecordMeasurement
<1>1. PICK m \in Measurement : m = requests[q].measurement /\ openings[m.opening].exists
  BY DEF IInv, RequestInv, Recording, At
<1>2. [m EXCEPT !.began = now + 1] \in Measurement
  BY <1>1 DEF Measurement, Times, IInv, TypeOK
<1>3. PICK n \in Measurement : n = [m EXCEPT !.began = now + 1]
  BY <1>2
<1>4. n.began = now + 1 /\ n.opening = m.opening
  BY <1>1, <1>3 DEF Measurement
<1>5. requests' = [requests EXCEPT ![q] = [pc |-> "recorded", measurement |-> n]]
  BY <1>1, <1>3
<1>6. requests'[q] = [pc |-> "recorded", measurement |-> n]
  BY <1>5 DEF IInv, TypeOK
<1>7. requests'[q] \in RequestType
  BY <1>6 DEF RequestType
<1>8. \A r \in Requests : r # q => requests'[r] = requests[r]
  BY <1>5 DEF IInv, TypeOK
<1>9. TypeOK'
  <2>1. requests' \in [Requests -> RequestType]
    BY <1>5, <1>7, <1>8 DEF IInv, TypeOK
  <2> QED BY <2>1 DEF IInv, TypeOK, Times
<1>10. RequestInv'
  <2>1. ASSUME NEW r \in Requests, r # q PROVE
          /\ Recording(r)' => /\ requests'[r].measurement \in Measurement
                              /\ requests'[r].measurement.began <= now'
                              /\ openings'[requests'[r].measurement.opening].exists
          /\ At(r, "applied")' => Displayed(requests'[r].measurement)
    BY <1>8, <2>1 DEF IInv, TypeOK, RequestInv, Recording, At, Times, Measurement
  <2>2. /\ requests'[q].measurement \in Measurement
        /\ requests'[q].measurement.began <= now'
        /\ openings'[requests'[q].measurement.opening].exists
        /\ ~At(q, "applied")'
    BY <1>1, <1>4, <1>6 DEF IInv, TypeOK, At, Times
  <2> QED BY <2>1, <2>2 DEF RequestInv
<1>11. RecordInv'
  BY DEF IInv, TypeOK, RecordInv, Times, Measurement
<1>12. granted
  BY DEF IInv, GrantInv, At
<1>13. GrantInv'
  BY <1>12 DEF GrantInv
<1> QED BY <1>9, <1>10, <1>11, <1>13, PropertiesKept DEF IInv

LEMMA ApplyStep ==
  ASSUME NEW q \in Requests, IInv, ApplyMeasurement(q)
  PROVE  IInv'
<1> USE DEF ApplyMeasurement
<1>1. requests' = [requests EXCEPT ![q].pc = "applied"]
  OBVIOUS
<1>2. TypeOK'
  BY <1>1 DEF IInv, TypeOK, RequestType
<1>3. RequestInv'
  BY <1>1 DEF IInv, TypeOK, RequestInv, Recording, At, RequestType
<1>4. RecordInv'
  BY DEF IInv, RecordInv
<1>5. granted
  BY DEF IInv, GrantInv, At
<1>6. GrantInv'
  BY <1>5 DEF GrantInv
<1> QED BY <1>2, <1>3, <1>4, <1>6, PropertiesKept DEF IInv

\* The commit is later than every measurement that has begun, so whatever it
\* shows is recent; it backs the mark it sets.
LEMMA CommitStep ==
  ASSUME NEW q \in Requests, IInv, Commit(q)
  PROVE  IInv'
<1> USE DEF Commit
<1>1. PICK m \in Measurement : /\ m = requests[q].measurement
                              /\ m.began <= now /\ openings[m.opening].exists
  BY DEF IInv, RequestInv, Recording, At
<1>2. now \in Nat
  BY DEF IInv, TypeOK, Times
<1>3. PICK r \in [m : Measurement, committed : Times] : r = [m |-> m, committed |-> now + 1]
  <2>1. [m |-> m, committed |-> now + 1] \in [m : Measurement, committed : Nat]
    BY <1>2
  <2> QED BY <2>1 DEF Times
<1>4. r.m = m /\ r.committed = now + 1
  BY <1>3
<1>5. /\ measurements' = measurements \cup {r} /\ now' = now + 1
      /\ openings' = IF Displayed(m) THEN [openings EXCEPT ![m.opening] = Sized(@, m)]
                                     ELSE openings
      /\ UNCHANGED <<entitlement, facade, received, granted>>
  BY <1>1, <1>3
<1>6. requests' = [requests EXCEPT ![q] = IdleRequest] /\ IdleRequest \in RequestType
  BY DEF End, IdleRequest, RequestType
<1>7. ~At(q, "idle")
  BY DEF At
<1>8. m.opening \in Openings /\ m.value \in Values /\ m.began \in Nat
      /\ m.verified \in BOOLEAN /\ m.type \in Dimensions \cup {"thickness"}
  BY <1>1 DEF Measurement, Times
<1>9. Displayed(m) => Sized(openings[m.opening], m) \in OpeningRow
  BY <1>8 DEF Sized, Displayed, OpeningRow, IInv, TypeOK
<1> HIDE DEF Commit
<1>10. TypeOK'
  BY <1>5, <1>6, <1>8, <1>9, <1>2, <1>3, <1>1 DEF IInv, TypeOK, Times
<1>11. \A o \in Openings : /\ openings'[o].exists = openings[o].exists
                           /\ o # m.opening => openings'[o] = openings[o]
  <2>1. CASE ~Displayed(m)
    BY <1>5, <2>1
  <2>2. CASE Displayed(m)
    <3>1. openings' = [openings EXCEPT ![m.opening] = Sized(@, m)]
      BY <1>5, <2>2
    <3>2. openings \in [Openings -> OpeningRow]
      BY DEF IInv, TypeOK
    <3>3. Sized(openings[m.opening], m).exists = openings[m.opening].exists
      BY <1>8, <3>2 DEF Sized, OpeningRow
    <3> QED BY <1>8, <3>1, <3>2, <3>3
  <2> QED BY <2>1, <2>2
<1>12. RequestInv'
  BY <1>5, <1>6, <1>11, <1>2
     DEF IInv, TypeOK, RequestInv, Recording, At, IdleRequest, Times, Measurement
<1>13. RecordInv'
  <2>1. ASSUME NEW k \in measurements
        PROVE  /\ k.m.began <= k.committed /\ k.committed <= now'
               /\ openings'[k.m.opening].exists
    <3>1. /\ k.m.opening \in Openings /\ k.m.began \in Nat /\ k.committed \in Nat
          /\ k.m.began <= k.committed /\ k.committed <= now
          /\ openings[k.m.opening].exists
      BY <2>1 DEF IInv, TypeOK, RecordInv, Times, Measurement
    <3> QED BY <1>2, <1>5, <1>11, <3>1
  <2>2. r.m.began <= r.committed /\ r.committed <= now' /\ openings'[r.m.opening].exists
    BY <1>1, <1>5, <1>8, <1>11, <1>4, <1>2
  <2> QED BY <1>5, <2>1, <2>2 DEF RecordInv
<1>14. granted
  BY <1>7 DEF IInv, GrantInv
<1>15. GrantInv'
  BY <1>5, <1>14 DEF GrantInv
<1>16. ASSUME NEW o \in Openings, NEW d \in Dimensions
       PROVE  VerifiedOf(o, d)' = IF Displayed(m) /\ o = m.opening /\ d = m.type
                                    THEN VerifiedOf(o, d) \cup {r} ELSE VerifiedOf(o, d)
  BY <1>5, <1>8, <1>4 DEF VerifiedOf, Displayed
<1>17. CASE ~Displayed(m)
  BY <1>5, <1>10, <1>12, <1>13, <1>15, <1>16, <1>17
     DEF IInv, VerifiedIsBacked, DisplayIsRecent
<1>18. CASE Displayed(m)
  <2>1. m.type \in Dimensions
    BY <1>18 DEF Displayed
  <2>2. openings'[m.opening] = Sized(openings[m.opening], m)
    BY <1>5, <1>8, <1>18 DEF IInv, TypeOK
  <2>3. openings'[m.opening].verified /\ openings'[m.opening].size[m.type] = m.value
        /\ \A d \in Dimensions : d # m.type =>
             openings'[m.opening].size[d] = openings[m.opening].size[d]
    BY <1>8, <2>1, <2>2 DEF Sized, IInv, TypeOK, OpeningRow
  <2>4. VerifiedIsBacked'
    <3>1. ASSUME NEW o \in Openings, o # m.opening
          PROVE  openings'[o].verified <=> \E d \in Dimensions : VerifiedOf(o, d)' # {}
      BY <1>11, <1>16, <3>1 DEF IInv, VerifiedIsBacked
    <3>2. VerifiedOf(m.opening, m.type)' # {}
      BY <1>8, <1>16, <1>18, <2>1
    <3> QED BY <1>8, <2>1, <2>3, <3>1, <3>2 DEF VerifiedIsBacked
  <2>5. DisplayIsRecent'
    <3>1. ASSUME NEW o \in Openings, NEW d \in Dimensions, VerifiedOf(o, d)' # {},
                 ~(o = m.opening /\ d = m.type)
          PROVE  \E k \in VerifiedOf(o, d)' :
                   /\ openings'[o].size[d] = k.m.value
                   /\ \A l \in VerifiedOf(o, d)' : l.m.began <= k.committed
      <4>1. VerifiedOf(o, d)' = VerifiedOf(o, d)
        BY <1>16, <3>1
      <4>2. openings'[o].size[d] = openings[o].size[d]
        BY <1>11, <2>3, <3>1
      <4> QED BY <3>1, <4>1, <4>2 DEF IInv, DisplayIsRecent
    <3>2. r \in VerifiedOf(m.opening, m.type)' /\ r.m.value = m.value /\ r.committed = now + 1
      BY <1>8, <1>16, <1>18, <1>4, <2>1
    <3>3. ASSUME NEW l \in VerifiedOf(m.opening, m.type)'
          PROVE  l.m.began <= r.committed
      <4>1. CASE l = r
        BY <1>1, <1>8, <1>4, <1>2, <4>1
      <4>2. CASE l \in VerifiedOf(m.opening, m.type)
        <5>1. l.m.began <= l.committed /\ l.committed <= now
              /\ l.m.began \in Nat /\ l.committed \in Nat
          BY <4>2 DEF VerifiedOf, IInv, RecordInv, TypeOK, Measurement, Times
        <5> QED BY <1>2, <3>2, <5>1
      <4> QED BY <1>8, <1>16, <1>18, <2>1, <4>1, <4>2
    <3> QED BY <1>8, <2>1, <2>3, <3>1, <3>2, <3>3 DEF DisplayIsRecent
  <2> QED BY <1>10, <1>12, <1>13, <1>15, <2>4, <2>5 DEF IInv
<1> QED BY <1>17, <1>18

LEMMA NextIInv == IInv /\ [Next]_vars => IInv'
<1> SUFFICES ASSUME IInv, [Next]_vars PROVE IInv'
  OBVIOUS
<1>1. ASSUME NEW enabled \in BOOLEAN, SetEntitlement(enabled) PROVE IInv'
  BY <1>1, SetEntitlementStep
<1>2. ASSUME NEW q \in Requests, BeginFacade(q) \/ BeginOpening(q) PROVE IInv'
  <2>1. CASE BeginFacade(q)
    <3>1. Startable("facade", None) /\ Receive(q, "facade", None) /\ UNCHANGED Others
      BY <2>1 DEF BeginFacade, Others, Startable
    <3> QED BY <3>1, ReceiveStep
  <2>2. CASE BeginOpening(q)
    <3>1. Startable("opening", None) /\ Receive(q, "opening", None) /\ UNCHANGED Others
      BY <2>2 DEF BeginOpening, Others, Startable
    <3> QED BY <3>1, ReceiveStep
  <2> QED BY <1>2, <2>1, <2>2
<1>3. ASSUME NEW q \in Requests, CreateFacade(q) \/ Fail(q) PROVE IInv'
  <2>1. ~At(q, "idle") /\ facade' \in BOOLEAN
    BY <1>3 DEF CreateFacade, Fail, At, IInv, TypeOK
  <2> QED BY <1>3, <2>1, EndStep DEF CreateFacade, Fail
<1>4. ASSUME NEW q \in Requests, NEW o \in Openings, NEW size \in Sizes,
             CreateFacadeOpening(q, o, size) PROVE IInv'
  BY <1>4, CreateOpeningStep
<1>5. ASSUME NEW q \in Requests, NEW o \in Openings,
             NEW type \in Dimensions \cup {"thickness"}, NEW value \in Values,
             NEW verified \in BOOLEAN, FindFacadeOpening(q, o, type, value, verified)
      PROVE IInv'
  <2> DEFINE m == [opening |-> o, type |-> type, value |-> value,
                   verified |-> verified, began |-> 0]
  <2>1. m \in Measurement /\ m.began = 0 /\ m.opening = o
    BY DEF Measurement, Times
  <2>2. Startable("found", m) /\ Receive(q, "found", m) /\ UNCHANGED Others
    BY <1>5, <2>1 DEF FindFacadeOpening, Others, Startable
  <2> HIDE DEF m
  <2> QED BY <2>2, ReceiveStep
<1>6. ASSUME NEW q \in Requests,
             RecordMeasurement(q) \/ ApplyMeasurement(q) \/ Commit(q) PROVE IInv'
  BY <1>6, RecordStep, ApplyStep, CommitStep
<1>7. CASE UNCHANGED vars
  BY <1>7, PropertiesKept DEF vars, IInv, TypeOK, RequestInv, RecordInv, GrantInv, Recording, At
<1> QED BY <1>1, <1>2, <1>3, <1>4, <1>5, <1>6, <1>7 DEF Next, RequestStep

\* The inductive invariant holds in every reachable state.
THEOREM Invariance == Spec => []IInv
BY InitIInv, NextIInv, PTL DEF Spec

-----------------------------------------------------------------------------
(* The theorems *)

\* Rows, records and requests keep their shape.
THEOREM TypeCorrect == Spec => []TypeOK
<1>1. IInv => TypeOK
  BY DEF IInv
<1> QED BY <1>1, Invariance, PTL

\* What an opening shows was measured, and is not older than a measurement that
\* was on record before it began, however many overlap.
THEOREM DisplaysAreRecent == Spec => []DisplayIsRecent
<1>1. IInv => DisplayIsRecent
  BY DEF IInv
<1> QED BY <1>1, Invariance, PTL

\* The mark of an opening and the measurements on record agree.
THEOREM MarksAreBacked == Spec => []VerifiedIsBacked
<1>1. IInv => VerifiedIsBacked
  BY DEF IInv
<1> QED BY <1>1, Invariance, PTL

\* Without the entitlement nothing of the exterior comes into being, by any
\* sequence of requests.
THEOREM NothingWithoutGrant == Spec => []NeverGrantedMeansNone
<1>1. IInv => NeverGrantedMeansNone
  BY DEF IInv, GrantInv, NeverGrantedMeansNone
<1> QED BY <1>1, Invariance, PTL
=============================================================================
