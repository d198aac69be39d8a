------------------------ MODULE WebhookDeliveryProofs ------------------------
(* Proofs about WebhookDelivery for every number of events, endpoints,      *)
(* workers and concurrent requests.                                         *)
EXTENDS WebhookDelivery, TLAPS

(***************************************************************************)
(* The inductive invariant.  What a worker remembers stays true of the     *)
(* tables although others write them: rows are never deleted and never     *)
(* change their event or endpoint, and a subscriber forgets nothing.       *)
(***************************************************************************)

Present(r) == rows[r].status # "absent"
HasRow(e, p) == \E r \in Rows : rows[r].event = e /\ rows[r].endpoint = p
Acknowledged(r) == rows[r].event \in seen[rows[r].endpoint]

RowInv ==
  \A r \in Rows :
    /\ Present(r) => rows[r].event \in Events /\ rows[r].endpoint \in Endpoints
    /\ ~Present(r) => rows[r].event = None

HandlerInv ==
  \A h \in Handlers :
    /\ handlers[h].pc # "idle" => /\ handlers[h].event \in Events
                                  /\ handlers[h].endpoint \in Endpoints
    /\ handlers[h].pc = "marked" =>
         handlers[h].event \in seen[handlers[h].endpoint]

\* The worker waits for an answer about its delivery.
WaitsFor(w, h) ==
  /\ h \in Handlers
  /\ handlers[h].pc # "idle"
  /\ handlers[h].event = rows[workers[w].delivery[1]].event
  /\ handlers[h].endpoint = rows[workers[w].delivery[1]].endpoint

WorkerOK(w) ==
  /\ workers[w].pc = "insert" =>
       /\ workers[w].event \in Events
       /\ \A p \in Endpoints \ workers[w].left : HasRow(workers[w].event, p)
  /\ \A d \in workers[w].batch : Present(d[1])
  /\ workers[w].pc \in {"waiting", "ok", "failed"} =>
       workers[w].delivery \in Snapshots /\ Present(workers[w].delivery[1])
  /\ workers[w].pc = "waiting" => WaitsFor(w, workers[w].handler)
  /\ workers[w].pc = "ok" => Acknowledged(workers[w].delivery[1])

WorkerInv == \A w \in Workers : WorkerOK(w)

IInv == /\ TypeOK /\ RowInv /\ HandlerInv /\ WorkerInv
        /\ EveryEventIsFannedOut /\ SuccessWasAcknowledged

-----------------------------------------------------------------------------

\* Before anything is published there is nothing to be wrong about.
LEMMA InitIInv == Init => IInv
<1> SUFFICES ASSUME Init PROVE IInv
  OBVIOUS
<1> USE DeliveryAssumption DEF Init, IdleWorker, IdleHandler
<1>1. TypeOK
  BY DEF TypeOK, RowType, WorkerType, HandlerType
<1>2. RowInv /\ HandlerInv
  BY DEF RowInv, HandlerInv, Present
<1>3. WorkerInv
  BY DEF WorkerInv, WorkerOK
<1>4. EveryEventIsFannedOut /\ SuccessWasAcknowledged
  BY DEF EveryEventIsFannedOut, SuccessWasAcknowledged
<1> QED BY <1>1, <1>2, <1>3, <1>4 DEF IInv

\* The tables only grow: what every step leaves true of a row, of a subscriber
\* and of a request it has not answered.
RowsKept ==
  \A r \in Rows : Present(r) => /\ rows'[r].status # "absent"
                                /\ rows'[r].event = rows[r].event
                                /\ rows'[r].endpoint = rows[r].endpoint
SeenKept == \A p \in Endpoints : seen[p] \subseteq seen'[p]
RequestKept(h) == handlers[h].pc # "idle" =>
  /\ handlers'[h].pc # "idle"
  /\ handlers'[h].event = handlers[h].event
  /\ handlers'[h].endpoint = handlers[h].endpoint
RequestsKept == \A h \in Handlers : RequestKept(h)
AwaitedKept(v) == \A h \in Handlers :
  workers[v].pc = "waiting" /\ workers[v].handler = h => RequestKept(h)

\* A row that exists goes on standing for its event and endpoint.
LEMMA RowStays ==
  ASSUME IInv, RowsKept, NEW e \in Events, NEW p \in Endpoints, HasRow(e, p)
  PROVE  HasRow(e, p)'
<1>1. PICK r \in Rows : rows[r].event = e /\ rows[r].endpoint = p
  BY DEF HasRow
<1>2. Present(r)
  BY <1>1, DeliveryAssumption DEF IInv, RowInv
<1> QED BY <1>1, <1>2 DEF HasRow, RowsKept

\* A worker that takes no part in a step keeps its part of the invariant.
LEMMA WorkerStays ==
  ASSUME IInv, RowsKept, SeenKept, NEW v \in Workers, AwaitedKept(v),
         workers'[v] = workers[v]
  PROVE  WorkerOK(v)'
<1>1. WorkerOK(v) /\ workers[v] \in WorkerType
  BY DEF IInv, WorkerInv, TypeOK
<1>2. workers[v].pc = "insert" =>
        \A p \in Endpoints \ workers[v].left : HasRow(workers[v].event, p)'
  BY <1>1, RowStays DEF WorkerOK
<1>3. \A d \in workers[v].batch : d[1] \in Rows
  BY <1>1 DEF WorkerType, Snapshots
<1>4. \A d \in workers[v].batch : Present(d[1])'
  BY <1>1, <1>3 DEF WorkerOK, RowsKept, Present
<1>5. ASSUME workers[v].pc \in {"waiting", "ok", "failed"}
      PROVE  /\ workers[v].delivery \in Snapshots
             /\ workers[v].delivery[1] \in Rows
             /\ Present(workers[v].delivery[1])
             /\ Present(workers[v].delivery[1])'
             /\ rows'[workers[v].delivery[1]].event
                  = rows[workers[v].delivery[1]].event
             /\ rows'[workers[v].delivery[1]].endpoint
                  = rows[workers[v].delivery[1]].endpoint
             /\ rows[workers[v].delivery[1]].endpoint \in Endpoints
  BY <1>1, <1>5 DEF WorkerOK, RowsKept, Present, Snapshots, IInv, RowInv
<1>6. workers[v].pc = "waiting" => WaitsFor(v, workers[v].handler)'
  BY <1>1, <1>5 DEF WorkerOK, WaitsFor, AwaitedKept, RequestKept
<1>7. workers[v].pc = "ok" => Acknowledged(workers[v].delivery[1])'
  BY <1>1, <1>5 DEF WorkerOK, Acknowledged, SeenKept
<1> QED BY <1>1, <1>2, <1>4, <1>5, <1>6, <1>7 DEF WorkerOK

LEMMA OthersStay ==
  ASSUME IInv, RowsKept, SeenKept, RequestsKept,
         NEW v \in Workers, workers'[v] = workers[v]
  PROVE  WorkerOK(v)'
BY WorkerStays DEF RequestsKept, AwaitedKept

\* A step that writes no table: only the worker that takes it has to be checked.
LEMMA PrivateStep ==
  ASSUME IInv, NEW w \in Workers, UNCHANGED <<events, rows, handlers, seen>>,
         TypeOK', \A v \in Workers \ {w} : workers'[v] = workers[v], WorkerOK(w)'
  PROVE  IInv'
<1>1. RowsKept /\ SeenKept /\ RequestsKept
  BY DEF RowsKept, SeenKept, RequestsKept, RequestKept, Present
<1>2. WorkerInv'
  BY <1>1, OthersStay DEF WorkerInv
<1>3. RowInv' /\ HandlerInv'
  BY DEF IInv, RowInv, HandlerInv, Present
<1>4. EveryEventIsFannedOut' /\ SuccessWasAcknowledged'
  BY DEF IInv, EveryEventIsFannedOut, SuccessWasAcknowledged
<1> QED BY <1>2, <1>3, <1>4 DEF IInv

-----------------------------------------------------------------------------
(* The dispatcher's steps *)

\* Selecting, opening, ending: only what the worker remembers changes.
LEMMA SelectStep ==
  ASSUME IInv, NEW w \in Workers,
         \/ SelectEvents(w)
         \/ \E e \in Events : OpenEvent(w, e)
         \/ SelectDeliveries(w)
         \/ EndDispatch(w)
  PROVE  IInv'
<1> USE DEF subscriberVars
<1>1. WorkerOK(w) /\ workers[w] \in WorkerType /\ workers \in [Workers -> WorkerType]
  BY DEF IInv, WorkerInv, TypeOK
<1>2. CASE SelectEvents(w)
  <2>0. [IdleWorker EXCEPT !.pc = "fanout",
                           !.todo = { e \in Events : events[e] = "new" }] \in WorkerType
    BY DEF IdleWorker, WorkerType
  <2>1. TypeOK'
    BY <1>2, <2>0 DEF SelectEvents, IInv, TypeOK
  <2>2. WorkerOK(w)'
    BY <1>1, <1>2 DEF SelectEvents, IdleWorker, WorkerOK
  <2> QED BY <1>1, <1>2, <2>1, <2>2, PrivateStep DEF SelectEvents
<1>3. ASSUME NEW e \in Events, OpenEvent(w, e) PROVE IInv'
  <2> DEFINE x == [workers[w] EXCEPT !.pc = "insert",
                     !.todo = workers[w].todo \ {e}, !.event = e, !.left = Endpoints]
  <2>0. workers' = [workers EXCEPT ![w] = x] /\ x \in WorkerType
    <3>1. workers[w].todo \ {e} \in SUBSET Events
      BY <1>1 DEF WorkerType
    <3> QED BY <1>1, <1>3, <3>1 DEF OpenEvent, WorkerType
  <2>1. TypeOK'
    BY <1>3, <2>0 DEF OpenEvent, IInv, TypeOK
  <2>2. WorkerOK(w)'
    BY <1>1, <1>3 DEF OpenEvent, WorkerOK, Present, WorkerType
  <2> QED BY <1>1, <1>3, <2>1, <2>2, PrivateStep DEF OpenEvent
<1>4. CASE SelectDeliveries(w)
  <2> DEFINE B == { <<r, rows[r].attempts>> : r \in { q \in Rows : Retryable(q) } }
  <2>1. B \in SUBSET Snapshots /\ \A d \in B : Present(d[1])
    BY DEF Retryable, Present, Snapshots, IInv, TypeOK, RowType
  <2>2. workers' = [workers EXCEPT ![w] = [@ EXCEPT !.pc = "deliver", !.batch = B]]
    BY <1>4 DEF SelectDeliveries
  <2>5. [workers[w] EXCEPT !.pc = "deliver", !.batch = B] \in WorkerType
    <3> HIDE DEF B
    <3> QED BY <1>1, <2>1 DEF WorkerType
  <2>3. TypeOK'
    BY <1>4, <2>2, <2>5 DEF SelectDeliveries, IInv, TypeOK
  <2>4. WorkerOK(w)'
    BY <1>1, <1>4, <2>1, <2>2 DEF SelectDeliveries, WorkerOK, Present, WorkerType
  <2> QED BY <1>1, <1>4, <2>2, <2>3, <2>4, PrivateStep DEF SelectDeliveries
<1>5. CASE EndDispatch(w)
  <2>0. IdleWorker \in WorkerType
    BY DEF IdleWorker, WorkerType
  <2>1. TypeOK'
    BY <1>5, <2>0 DEF EndDispatch, IInv, TypeOK
  <2>2. WorkerOK(w)'
    BY <1>1, <1>5 DEF EndDispatch, IdleWorker, WorkerOK
  <2> QED BY <1>1, <1>5, <2>1, <2>2, PrivateStep DEF EndDispatch
<1> QED BY <1>2, <1>3, <1>4, <1>5

\* Giving up on an answer, or on the whole dispatch.
LEMMA AbandonStep ==
  ASSUME IInv, NEW w \in Workers, TimeOut(w) \/ Interrupt(w)
  PROVE  IInv'
<1> USE DEF subscriberVars
<1>1. WorkerOK(w) /\ workers[w] \in WorkerType /\ workers \in [Workers -> WorkerType]
  BY DEF IInv, WorkerInv, TypeOK
<1>2. CASE TimeOut(w)
  <2>0. [workers[w] EXCEPT !.pc = "failed", !.handler = None] \in WorkerType
    BY <1>1 DEF WorkerType
  <2>1. TypeOK'
    BY <1>2, <2>0 DEF TimeOut, TimeoutOutcome, IInv, TypeOK
  <2>2. WorkerOK(w)'
    BY <1>1, <1>2 DEF TimeOut, TimeoutOutcome, At, WorkerOK, Present, WorkerType
  <2> QED BY <1>1, <1>2, <2>1, <2>2, PrivateStep DEF TimeOut
<1>3. CASE Interrupt(w)
  <2>0. IdleWorker \in WorkerType
    BY DEF IdleWorker, WorkerType
  <2>1. TypeOK'
    BY <1>3, <2>0, DeliveryAssumption DEF Interrupt, IInv, TypeOK
  <2>2. WorkerOK(w)'
    BY <1>1, <1>3 DEF Interrupt, IdleWorker, WorkerOK
  <2> QED BY <1>1, <1>3, <2>1, <2>2, PrivateStep DEF Interrupt
<1> QED BY <1>2, <1>3

\* The new row takes the place of none, and covers one more endpoint.
LEMMA InsertStep ==
  ASSUME IInv, NEW w \in Workers, NEW p \in Endpoints, NEW r \in Rows,
         InsertDelivery(w, p, r)
  PROVE  IInv'
<1> USE DEF subscriberVars
<1>1. WorkerOK(w) /\ workers[w] \in WorkerType /\ workers \in [Workers -> WorkerType]
  BY DEF IInv, WorkerInv, TypeOK
<1>2. PICK e \in Events : e = workers[w].event
  BY <1>1 DEF InsertDelivery, At, WorkerOK
<1>3. ~Present(r)
  BY DeliveryAssumption DEF InsertDelivery, Present, Rows
<1>4. rows' = [rows EXCEPT ![r] = [status |-> "pending", attempts |-> 0,
                                   event |-> e, endpoint |-> p]]
  BY <1>2 DEF InsertDelivery
<1>5. workers' = [workers EXCEPT ![w].left = @ \ {p}]
  BY DEF InsertDelivery
<1>6. TypeOK'
  <2>1. workers[w].left \ {p} \in SUBSET Endpoints
    BY <1>1 DEF WorkerType
  <2>2. [workers[w] EXCEPT !.left = workers[w].left \ {p}] \in WorkerType
    BY <1>1, <2>1 DEF WorkerType
  <2>3. workers' \in [Workers -> WorkerType]
    BY <1>1, <1>5, <2>2
  <2>4. rows' \in [Rows -> RowType]
    <3>1. rows \in [Rows -> RowType]
      BY DEF IInv, TypeOK
    <3> QED BY <1>2, <1>4, <3>1 DEF RowType
  <2> QED BY <2>3, <2>4 DEF InsertDelivery, IInv, TypeOK
<1>7. RowsKept /\ SeenKept /\ RequestsKept
  BY <1>3, <1>4 DEF InsertDelivery, RowsKept, SeenKept, RequestsKept, RequestKept, Present,
     IInv, TypeOK
<1>8. RowInv'
  BY <1>2, <1>4 DEF IInv, TypeOK, RowInv, Present
<1>9. WorkerInv'
  <2>1. \A v \in Workers \ {w} : WorkerOK(v)'
    BY <1>5, <1>7, OthersStay DEF IInv, TypeOK
  <2>2. HasRow(e, p)'
    <3>1. rows'[r].event = e /\ rows'[r].endpoint = p
      BY <1>4 DEF IInv, TypeOK
    <3> QED BY <3>1 DEF HasRow
  <2>3. \A q \in Endpoints \ workers[w].left : HasRow(e, q)'
    BY <1>1, <1>2, <1>7, RowStays DEF InsertDelivery, At, WorkerOK
  <2>4. /\ workers'[w].pc = "insert" /\ workers'[w].event = e
        /\ workers'[w].left = workers[w].left \ {p}
        /\ workers'[w].batch = workers[w].batch
    BY <1>1, <1>2, <1>5 DEF InsertDelivery, At, WorkerType
  <2>5. \A d \in workers[w].batch : d[1] \in Rows /\ Present(d[1])
    BY <1>1 DEF WorkerOK, WorkerType, Snapshots
  <2>6. WorkerOK(w)'
    BY <1>2, <1>7, <2>2, <2>3, <2>4, <2>5 DEF WorkerOK, RowsKept, Present
  <2> QED BY <2>1, <2>6 DEF WorkerInv
<1>10. EveryEventIsFannedOut'
  BY <1>7, RowStays DEF InsertDelivery, IInv, EveryEventIsFannedOut, HasRow
<1>11. SuccessWasAcknowledged'
  BY <1>4 DEF InsertDelivery, IInv, TypeOK, SuccessWasAcknowledged
<1> QED BY <1>6, <1>8, <1>9, <1>10, <1>11 DEF IInv, HandlerInv, InsertDelivery

\* The event is marked only when no endpoint is left without a row.
LEMMA MarkDispatchedStep ==
  ASSUME IInv, NEW w \in Workers, MarkDispatched(w)
  PROVE  IInv'
<1> USE DEF subscriberVars
<1> DEFINE e == workers[w].event
<1>1. WorkerOK(w) /\ workers[w] \in WorkerType /\ workers \in [Workers -> WorkerType]
  BY DEF IInv, WorkerInv, TypeOK
<1>2. e \in Events /\ \A p \in Endpoints : HasRow(e, p)
  BY <1>1 DEF MarkDispatched, FannedOut, At, WorkerOK
<1>3. TypeOK'
  <2>1. workers' = [workers EXCEPT ![w] = [workers[w] EXCEPT
                      !.pc = "fanout", !.event = None, !.left = {}]]
    BY DEF MarkDispatched
  <2>2. [workers[w] EXCEPT !.pc = "fanout", !.event = None, !.left = {}] \in WorkerType
    BY <1>1 DEF WorkerType
  <2>3. workers' \in [Workers -> WorkerType]
    BY <1>1, <2>1, <2>2
  <2>4. events' \in [Events -> {"absent", "new", "dispatched"}]
    BY DEF MarkDispatched, IInv, TypeOK
  <2> QED BY <2>3, <2>4 DEF MarkDispatched, IInv, TypeOK
<1>4. RowsKept /\ SeenKept /\ RequestsKept
  BY DEF MarkDispatched, RowsKept, SeenKept, RequestsKept, RequestKept, Present
<1>5. WorkerInv'
  <2>1. \A v \in Workers \ {w} : WorkerOK(v)'
    BY <1>4, OthersStay DEF MarkDispatched, IInv, TypeOK
  <2>2. WorkerOK(w)'
    BY <1>1 DEF MarkDispatched, WorkerOK, Present, WorkerType
  <2> QED BY <2>1, <2>2 DEF WorkerInv
<1>6. EveryEventIsFannedOut'
  BY <1>2 DEF MarkDispatched, IInv, TypeOK, EveryEventIsFannedOut, HasRow
<1> QED BY <1>3, <1>5, <1>6
        DEF IInv, RowInv, HandlerInv, Present, SuccessWasAcknowledged, MarkDispatched

\* A commit adds an event that nobody has looked at.
LEMMA PublishStep ==
  ASSUME IInv, NEW e \in Events, Publish(e)
  PROVE  IInv'
<1> USE DEF subscriberVars
<1>1. TypeOK'
  BY DEF Publish, IInv, TypeOK
<1>2. RowsKept /\ SeenKept /\ RequestsKept
  BY DEF Publish, RowsKept, SeenKept, RequestsKept, RequestKept, Present
<1>3. WorkerInv'
  BY <1>2, OthersStay DEF Publish, WorkerInv
<1>4. EveryEventIsFannedOut'
  BY DEF Publish, IInv, TypeOK, EveryEventIsFannedOut
<1> QED BY <1>1, <1>3, <1>4
        DEF IInv, RowInv, HandlerInv, Present, SuccessWasAcknowledged, Publish

\* A new verdict on a row that exists: all that is left to check is the worker.
LEMMA VerdictStep ==
  ASSUME IInv, NEW w \in Workers, NEW r \in Rows, Present(r),
         NEW s \in {"succeeded", "failed", "dead"}, NEW n \in Nat,
         rows' = [rows EXCEPT ![r] = [rows[r] EXCEPT !.status = s, !.attempts = n]],
         s = "succeeded" => Acknowledged(r),
         UNCHANGED <<events, handlers, seen, acted, overlapped, interrupts,
         externalDisabled>>,
         workers' \in [Workers -> WorkerType],
         \A v \in Workers \ {w} : workers'[v] = workers[v],
         RowsKept => WorkerOK(w)'
  PROVE  IInv'
<1>1. rows' \in [Rows -> RowType]
  <2>1. rows \in [Rows -> RowType]
    BY DEF IInv, TypeOK
  <2>2. [rows[r] EXCEPT !.status = s, !.attempts = n] \in RowType
    BY <2>1 DEF RowType
  <2> QED BY <2>1, <2>2
<1>2. TypeOK'
  <2>1. TypeOK
    BY DEF IInv
  <2> QED BY <1>1, <2>1 DEF TypeOK
<1>3. /\ rows'[r].status = s
      /\ \A q \in Rows : /\ q # r => rows'[q] = rows[q]
                        /\ rows'[q].event = rows[q].event
                        /\ rows'[q].endpoint = rows[q].endpoint
  <2>1. rows \in [Rows -> RowType]
    BY DEF IInv, TypeOK
  <2> QED BY <2>1 DEF RowType
<1>4. RowsKept /\ SeenKept /\ RequestsKept
  BY <1>3 DEF RowsKept, SeenKept, RequestsKept, RequestKept, Present
<1>5. WorkerInv'
  BY <1>4, OthersStay DEF WorkerInv
<1>6. RowInv'
  BY <1>3 DEF IInv, RowInv, Present
<1>7. HandlerInv'
  BY DEF IInv, HandlerInv
<1>8. EveryEventIsFannedOut'
  BY <1>3 DEF IInv, EveryEventIsFannedOut
<1>9. SuccessWasAcknowledged'
  BY <1>3 DEF IInv, SuccessWasAcknowledged, Acknowledged
<1> QED BY <1>2, <1>5, <1>6, <1>7, <1>8, <1>9 DEF IInv

LEMMA RefuseStep ==
  ASSUME IInv, NEW w \in Workers, NEW d \in workers[w].batch, RefuseRemote(w, d)
  PROVE  IInv'
<1> USE DEF subscriberVars
<1>1. WorkerOK(w) /\ workers[w] \in WorkerType /\ workers \in [Workers -> WorkerType]
  BY DEF IInv, WorkerInv, TypeOK
<1>2. d[1] \in Rows /\ Present(d[1]) /\ workers[w].batch \ {d} \in SUBSET Snapshots
  BY <1>1 DEF WorkerOK, WorkerType, Snapshots
<1>3. PICK r \in Rows : r = d[1]
  BY <1>2
<1>4. PICK n \in Nat : n = rows[r].attempts
  BY DEF IInv, TypeOK, RowType
<1>5. rows' = [rows EXCEPT ![r] = [rows[r] EXCEPT !.status = "dead", !.attempts = n]]
  <2>1. rows' = [rows EXCEPT ![r] = [rows[r] EXCEPT !.status = "dead"]]
    BY <1>3 DEF RefuseRemote
  <2>2. [rows[r] EXCEPT !.status = "dead"]
          = [rows[r] EXCEPT !.status = "dead", !.attempts = n]
    <3>1. rows[r] \in RowType
      BY DEF IInv, TypeOK
    <3> QED BY <1>4, <3>1 DEF RowType
  <2> QED BY <2>1, <2>2
<1>6. workers' = [workers EXCEPT ![w].batch = workers[w].batch \ {d}]
  BY DEF RefuseRemote
<1>7. workers' \in [Workers -> WorkerType]
  <2>1. [workers[w] EXCEPT !.batch = workers[w].batch \ {d}] \in WorkerType
    BY <1>1, <1>2 DEF WorkerType
  <2> QED BY <1>1, <1>6, <2>1
<1>8. RowsKept => WorkerOK(w)'
  <2> SUFFICES ASSUME RowsKept PROVE WorkerOK(w)'
    OBVIOUS
  <2>1. workers'[w].pc = "deliver" /\ workers'[w].batch = workers[w].batch \ {d}
    BY <1>1, <1>6 DEF RefuseRemote, IsNext, At, WorkerType
  <2>2. \A c \in workers[w].batch : c[1] \in Rows /\ Present(c[1])
    BY <1>1 DEF WorkerOK, WorkerType, Snapshots
  <2> QED BY <2>1, <2>2 DEF WorkerOK, RowsKept, Present
<1>9. /\ UNCHANGED <<events, handlers, seen, acted, overlapped, interrupts,
         externalDisabled>>
      /\ \A v \in Workers \ {w} : workers'[v] = workers[v]
  BY <1>1, <1>6 DEF RefuseRemote
<1> QED BY <1>2, <1>3, <1>5, <1>7, <1>8, <1>9, VerdictStep

\* Recording what became of a POST.  A success is recorded only with the
\* subscriber's answer in hand.
LEMMA RecordStep ==
  ASSUME IInv, NEW w \in Workers, RecordSuccess(w) \/ RecordFailure(w)
  PROVE  IInv'
<1> USE DEF subscriberVars
<1>1. WorkerOK(w) /\ workers[w] \in WorkerType /\ workers \in [Workers -> WorkerType]
  BY DEF IInv, WorkerInv, TypeOK
<1>2. /\ workers[w].delivery \in Snapshots /\ workers[w].delivery[1] \in Rows
      /\ workers[w].delivery[2] \in Nat /\ Present(workers[w].delivery[1])
  BY <1>1 DEF WorkerOK, RecordSuccess, RecordFailure, At, Snapshots
<1>3. PICK r \in Rows : r = workers[w].delivery[1]
  BY <1>2
<1>4. /\ UNCHANGED <<events, handlers, seen, acted, overlapped, interrupts,
         externalDisabled>>
      /\ workers' = [workers EXCEPT ![w] = [workers[w] EXCEPT !.pc = "deliver",
                                                            !.delivery = None]]
  BY DEF RecordSuccess, RecordFailure, Delivered
<1>5. workers' \in [Workers -> WorkerType]
  <2>1. [workers[w] EXCEPT !.pc = "deliver", !.delivery = None] \in WorkerType
    BY <1>1 DEF WorkerType
  <2> QED BY <1>1, <1>4, <2>1
<1>6. RowsKept => WorkerOK(w)'
  <2> SUFFICES ASSUME RowsKept PROVE WorkerOK(w)'
    OBVIOUS
  <2>1. workers'[w].pc = "deliver" /\ workers'[w].batch = workers[w].batch
    BY <1>1, <1>4 DEF WorkerType
  <2>2. \A c \in workers[w].batch : c[1] \in Rows /\ Present(c[1])
    BY <1>1 DEF WorkerOK, WorkerType, Snapshots
  <2> QED BY <2>1, <2>2 DEF WorkerOK, RowsKept, Present
<1>7. \A v \in Workers \ {w} : workers'[v] = workers[v]
  BY <1>1, <1>4
<1>8. CASE RecordSuccess(w)
  <2>1. PICK n \in Nat : n = rows[r].attempts + 1
    BY DEF IInv, TypeOK, RowType
  <2>2. rows' = [rows EXCEPT ![r] = [rows[r] EXCEPT !.status = "succeeded",
                                                    !.attempts = n]]
    BY <1>3, <1>8, <2>1 DEF RecordSuccess
  <2>3. Acknowledged(r)
    BY <1>1, <1>3, <1>8 DEF RecordSuccess, At, WorkerOK
  <2> QED BY <1>2, <1>3, <1>4, <1>5, <1>6, <1>7, <2>2, <2>3, VerdictStep
<1>9. CASE RecordFailure(w)
  <2>1. PICK n \in Nat : n = workers[w].delivery[2] + 1
    BY <1>2
  <2>2. PICK s \in {"failed", "dead"} : s = Verdict(n)
    BY DEF Verdict
  <2>3. rows' = [rows EXCEPT ![r] = [rows[r] EXCEPT !.status = s, !.attempts = n]]
    BY <1>3, <1>9, <2>1, <2>2 DEF RecordFailure
  <2> QED BY <1>2, <1>3, <1>4, <1>5, <1>6, <1>7, <2>3, VerdictStep
<1> QED BY <1>8, <1>9

\* The worker takes up a delivery whose row exists, and the request speaks of it.
LEMMA PostStep ==
  ASSUME IInv, NEW w \in Workers, NEW d \in workers[w].batch,
         PostFails(w, d) \/ \E h \in Handlers : Post(w, d, h)
  PROVE  IInv'
<1> USE DEF subscriberVars
<1>1. WorkerOK(w) /\ workers[w] \in WorkerType /\ workers \in [Workers -> WorkerType]
  BY DEF IInv, WorkerInv, TypeOK
<1>2. /\ d \in Snapshots /\ d[1] \in Rows /\ Present(d[1])
      /\ rows[d[1]].event \in Events /\ rows[d[1]].endpoint \in Endpoints
      /\ workers[w].batch \ {d} \in SUBSET Snapshots
  BY <1>1 DEF WorkerOK, WorkerType, Snapshots, IInv, RowInv
<1>3. \A c \in workers[w].batch \ {d} : Present(c[1])
  BY <1>1 DEF WorkerOK
<1>4. CASE PostFails(w, d)
  <2> DEFINE x == [workers[w] EXCEPT !.pc = "failed",
                     !.batch = workers[w].batch \ {d}, !.delivery = d]
  <2>1. workers' = [workers EXCEPT ![w] = x] /\ x \in WorkerType
    BY <1>1, <1>2, <1>4 DEF PostFails, WorkerType
  <2>2. TypeOK'
    BY <1>4, <2>1 DEF PostFails, IInv, TypeOK
  <2>3. /\ workers'[w].pc = "failed" /\ workers'[w].delivery = d
        /\ workers'[w].batch = workers[w].batch \ {d}
    BY <1>1, <2>1 DEF WorkerType
  <2>4. WorkerOK(w)'
    BY <1>2, <1>3, <1>4, <2>3 DEF PostFails, WorkerOK, Present
  <2> QED BY <1>1, <1>4, <2>1, <2>2, <2>4, PrivateStep DEF PostFails
<1>5. ASSUME NEW h \in Handlers, Post(w, d, h) PROVE IInv'
  <2> DEFINE x == [workers[w] EXCEPT !.pc = "waiting",
                     !.batch = workers[w].batch \ {d}, !.delivery = d, !.handler = h]
             y == [pc |-> "arrived", event |-> rows[d[1]].event,
                   endpoint |-> rows[d[1]].endpoint]
  <2>1. workers' = [workers EXCEPT ![w] = x] /\ x \in WorkerType
    BY <1>1, <1>2, <1>5 DEF Post, WorkerType
  <2>2. handlers' = [handlers EXCEPT ![h] = y] /\ y \in HandlerType
    BY <1>2, <1>5 DEF Post, HandlerType
  <2>3. UNCHANGED <<events, rows, seen, acted, interrupts,
         externalDisabled>> /\ handlers[h].pc = "idle"
    BY <1>5 DEF Post
  <2>11. overlapped' \in [Endpoints -> SUBSET Events]
    BY <1>2, <1>5 DEF Post, IInv, TypeOK
  <2>4. /\ workers'[w].pc = "waiting" /\ workers'[w].delivery = d
        /\ workers'[w].batch = workers[w].batch \ {d} /\ workers'[w].handler = h
    BY <1>1, <2>1 DEF WorkerType
  <2>5. /\ handlers'[h].pc = "arrived" /\ handlers'[h].event = rows[d[1]].event
        /\ handlers'[h].endpoint = rows[d[1]].endpoint
        /\ \A g \in Handlers \ {h} : handlers'[g] = handlers[g]
    BY <2>2 DEF IInv, TypeOK
  <2> HIDE DEF x, y
  <2>6. TypeOK'
    BY <2>1, <2>2, <2>3, <2>11 DEF IInv, TypeOK
  <2>7. RowsKept /\ SeenKept /\ RequestsKept
    BY <2>3, <2>5
    DEF RowsKept, SeenKept, RequestsKept, RequestKept, Present
  <2>8. WorkerOK(w)'
    BY <1>2, <1>3, <2>3, <2>4, <2>5 DEF WorkerOK, WaitsFor, Present
  <2>9. WorkerInv'
    BY <1>1, <2>1, <2>7, <2>8, OthersStay DEF WorkerInv
  <2>10. HandlerInv'
    BY <1>2, <2>3, <2>5 DEF HandlerInv, IInv
  <2> QED BY <2>3, <2>6, <2>9, <2>10
          DEF IInv, RowInv, Present, EveryEventIsFannedOut, SuccessWasAcknowledged
<1> QED BY <1>4, <1>5

-----------------------------------------------------------------------------
(* The subscriber's steps *)

\* The request goes on: what it is about stays, and nobody hears of it yet.
LEMMA ProgressStep ==
  ASSUME IInv, NEW h \in Handlers, handlers[h].pc # "idle",
         NEW pc \in {"unseen", "marked"},
         handlers' = [handlers EXCEPT ![h].pc = pc],
         UNCHANGED <<events, rows, workers, acted, overlapped, interrupts,
         externalDisabled>>,
         seen' \in [Endpoints -> SUBSET Events], SeenKept,
         pc = "marked" => handlers[h].event \in seen'[handlers[h].endpoint]
  PROVE  IInv'
<1> handlers \in [Handlers -> HandlerType]
  BY DEF IInv, TypeOK
<1>1. [handlers[h] EXCEPT !.pc = pc] \in HandlerType
  BY DEF HandlerType
<1>2. TypeOK'
  BY <1>1 DEF IInv, TypeOK
<1>3. \A g \in Handlers : /\ handlers'[g].event = handlers[g].event
                          /\ handlers'[g].endpoint = handlers[g].endpoint
                          /\ g # h => handlers'[g].pc = handlers[g].pc
                          /\ g = h => handlers'[g].pc = pc
  BY DEF HandlerType
<1>4. RowsKept /\ RequestsKept
  BY <1>3 DEF RowsKept, RequestsKept, RequestKept, Present
<1>5. WorkerInv'
  BY <1>4, OthersStay DEF WorkerInv
<1>6. HandlerInv'
  BY <1>3 DEF IInv, HandlerInv, SeenKept
<1>7. RowInv' /\ EveryEventIsFannedOut'
  BY DEF IInv, RowInv, Present, EveryEventIsFannedOut
<1>8. SuccessWasAcknowledged'
  <2> SUFFICES ASSUME NEW r \in Rows, rows[r].status = "succeeded"
               PROVE  rows[r].event \in seen'[rows[r].endpoint]
    BY DEF SuccessWasAcknowledged
  <2>1. rows[r].endpoint \in Endpoints /\ rows[r].event \in seen[rows[r].endpoint]
    BY DEF IInv, RowInv, Present, SuccessWasAcknowledged
  <2> QED BY <2>1 DEF SeenKept
<1> QED BY <1>2, <1>5, <1>6, <1>7, <1>8 DEF IInv

\* The request ends.  A worker that is told "ok" is told by the request of its
\* own delivery, which has found or put the event among the seen ones.
LEMMA AnswerStep ==
  ASSUME IInv, NEW h \in Handlers, handlers[h].pc # "idle",
         NEW outcome \in {"ok", "failed"}, Answer(h, outcome),
         outcome = "ok" => handlers[h].event \in seen[handlers[h].endpoint],
         UNCHANGED <<events, rows, seen, overlapped, interrupts, externalDisabled>>,
         acted' \in [Endpoints -> [Events -> Nat]]
  PROVE  IInv'
<1>1. handlers' = [handlers EXCEPT ![h] = IdleHandler] /\ IdleHandler \in HandlerType
  BY DEF Answer, IdleHandler, HandlerType
<1>2. ASSUME NEW v \in Workers, At(v, "waiting"), workers[v].handler = h
      PROVE  /\ workers'[v] \in WorkerType /\ workers'[v].pc = outcome
             /\ workers'[v].batch = workers[v].batch
             /\ workers'[v].delivery = workers[v].delivery
  <2>1. workers'[v] = [workers[v] EXCEPT !.pc = outcome, !.handler = None]
    BY <1>2 DEF Answer
  <2>2. workers[v] \in WorkerType
    BY DEF IInv, TypeOK
  <2> QED BY <2>1, <2>2 DEF WorkerType
<1>3. ASSUME NEW v \in Workers, ~(At(v, "waiting") /\ workers[v].handler = h)
      PROVE  workers'[v] = workers[v] /\ workers[v] \in WorkerType
  BY <1>3 DEF Answer, IInv, TypeOK
<1>4. TypeOK'
  <2>1. workers' \in [Workers -> WorkerType]
    BY <1>2, <1>3 DEF Answer
  <2> QED BY <1>1, <2>1 DEF IInv, TypeOK
<1>5. RowsKept /\ SeenKept
  BY DEF RowsKept, SeenKept, Present
<1>6. ASSUME NEW v \in Workers PROVE WorkerOK(v)'
  <2>1. WorkerOK(v)
    BY DEF IInv, WorkerInv
  <2>2. CASE At(v, "waiting") /\ workers[v].handler = h
    BY <1>2, <2>1, <2>2 DEF WorkerOK, WaitsFor, Acknowledged, Present, At
  <2>3. CASE ~(At(v, "waiting") /\ workers[v].handler = h)
    <3>1. AwaitedKept(v)
      BY <1>1, <2>3 DEF AwaitedKept, RequestKept, At, IInv, TypeOK
    <3> QED BY <1>3, <1>5, <2>3, <3>1, WorkerStays
  <2> QED BY <2>2, <2>3
<1>7. HandlerInv'
  BY <1>1 DEF IInv, TypeOK, HandlerInv, IdleHandler
<1> QED BY <1>4, <1>6, <1>7
        DEF IInv, WorkerInv, RowInv, Present, EveryEventIsFannedOut,
            SuccessWasAcknowledged

LEMMA SubscriberStep ==
  ASSUME IInv, NEW h \in Handlers,
         Serve(h)
  PROVE  IInv'
<1>1. /\ handlers[h].pc # "idle"
      /\ handlers[h].event \in Events /\ handlers[h].endpoint \in Endpoints
  BY DEF Serve, CheckSeen, MarkSeen, Act, HandlerFails, IInv, HandlerInv
<1>2. seen \in [Endpoints -> SUBSET Events] /\ acted \in [Endpoints -> [Events -> Nat]]
  BY DEF IInv, TypeOK
<1>3. CASE CheckSeen(h)
  <2>1. CASE handlers[h].event \in seen[handlers[h].endpoint]
    BY <1>1, <1>2, <1>3, <2>1, AnswerStep DEF CheckSeen, HasSeen
  <2>2. CASE handlers[h].event \notin seen[handlers[h].endpoint]
    <3>1. handlers' = [handlers EXCEPT ![h].pc = "unseen"] /\ SeenKept
      BY <1>3, <2>2 DEF CheckSeen, HasSeen, SeenKept
    <3> QED BY <1>1, <1>2, <1>3, <2>2, <3>1, ProgressStep DEF CheckSeen, HasSeen
  <2> QED BY <2>1, <2>2
<1>4. CASE MarkSeen(h)
  <2>1. /\ seen' = [seen EXCEPT ![handlers[h].endpoint]
                      = seen[handlers[h].endpoint] \cup {handlers[h].event}]
        /\ handlers' = [handlers EXCEPT ![h].pc = "marked"]
    BY <1>4 DEF MarkSeen
  <2>2. /\ seen' \in [Endpoints -> SUBSET Events] /\ SeenKept
        /\ handlers[h].event \in seen'[handlers[h].endpoint]
    BY <1>1, <1>2, <2>1 DEF SeenKept
  <2> QED BY <1>1, <1>4, <2>1, <2>2, ProgressStep DEF MarkSeen
<1>5. CASE Act(h)
  <2>1. acted' \in [Endpoints -> [Events -> Nat]]
    <3>1. CASE handlers[h].event \in Actionable
      <4>1. acted' = [acted EXCEPT ![handlers[h].endpoint]
               = [acted[handlers[h].endpoint] EXCEPT ![handlers[h].event]
                    = acted[handlers[h].endpoint][handlers[h].event] + 1]]
        BY <1>1, <1>2, <1>5, <3>1 DEF Act
      <4> QED BY <1>1, <1>2, <4>1
    <3>2. CASE handlers[h].event \notin Actionable
      BY <1>2, <1>5, <3>2 DEF Act
    <3> QED BY <3>1, <3>2
  <2>2. handlers[h].event \in seen[handlers[h].endpoint]
    BY <1>5 DEF Act, IInv, HandlerInv
  <2> QED BY <1>1, <1>5, <2>1, <2>2, AnswerStep DEF Act
<1>7. CASE HandlerFails(h)
  BY <1>1, <1>2, <1>7, AnswerStep DEF HandlerFails
<1> QED BY <1>3, <1>4, <1>5, <1>7 DEF Serve

-----------------------------------------------------------------------------

LEMMA NextIInv == IInv /\ [Next]_vars => IInv'
<1> SUFFICES ASSUME IInv, [Next]_vars PROVE IInv'
  OBVIOUS
<1>1. CASE UNCHANGED vars
  BY <1>1 DEF vars, IInv, TypeOK, RowInv, HandlerInv, WorkerInv, WorkerOK,
     WaitsFor, Acknowledged, Present, HasRow, EveryEventIsFannedOut,
     SuccessWasAcknowledged
<1>2. ASSUME NEW e \in Events, Publish(e) PROVE IInv'
  BY <1>2, PublishStep
<1>3. ASSUME NEW w \in Workers, DispatchStep(w) PROVE IInv'
  <2>1. CASE \/ SelectEvents(w) \/ \E e \in Events : OpenEvent(w, e)
             \/ SelectDeliveries(w) \/ EndDispatch(w)
    BY <2>1, SelectStep
  <2>2. CASE \E p \in Endpoints, r \in Rows : InsertDelivery(w, p, r)
    BY <2>2, InsertStep
  <2>3. CASE MarkDispatched(w)
    BY <2>3, MarkDispatchedStep
  <2>4. CASE \E d \in workers[w].batch : RefuseRemote(w, d)
    BY <2>4, RefuseStep
  <2>5. CASE \E d \in workers[w].batch :
               PostFails(w, d) \/ \E h \in Handlers : Post(w, d, h)
    BY <2>5, PostStep
  <2>6. CASE TimeOut(w)
    BY <2>6, AbandonStep
  <2>7. CASE RecordSuccess(w) \/ RecordFailure(w)
    BY <2>7, RecordStep
  <2> QED BY <1>3, <2>1, <2>2, <2>3, <2>4, <2>5, <2>6, <2>7 DEF DispatchStep
<1>4. ASSUME NEW w \in Workers, Interrupt(w) PROVE IInv'
  BY <1>4, AbandonStep
<1>5. CASE Subscriber
  BY <1>5, SubscriberStep DEF Subscriber
<1> QED BY <1>1, <1>2, <1>3, <1>4, <1>5 DEF Next

LEMMA Invariance == Spec => []IInv
BY InitIInv, NextIInv, PTL DEF Spec

-----------------------------------------------------------------------------
(* An event that its subscriber was never sent while serving it: one request is
   about it at a time, and none that has acted lets another get past the check. *)

AloneInv ==
  \A p \in Endpoints, e \in Events : e \notin overlapped[p] =>
    /\ \A g, h \in Serving(p, e) : g = h
    /\ acted[p][e] <= 1
    /\ acted[p][e] > 0 =>
         e \in seen[p] /\ \A h \in Serving(p, e) : handlers[h].pc = "arrived"

LEMMA AlonePost ==
  ASSUME IInv, AloneInv, NEW w \in Workers, NEW d \in workers[w].batch,
         NEW h \in Handlers, Post(w, d, h)
  PROVE  AloneInv'
<1> DEFINE q == rows[d[1]].endpoint
           x == rows[d[1]].event
<1>1. q \in Endpoints /\ x \in Events
  BY DEF IInv, TypeOK, WorkerInv, WorkerOK, WorkerType, Snapshots, RowInv
<1>2. /\ handlers' = [handlers EXCEPT ![h] = [pc |-> "arrived", event |-> x, endpoint |-> q]]
      /\ overlapped' = IF Serving(q, x) = {} THEN overlapped
                       ELSE [overlapped EXCEPT ![q] = overlapped[q] \cup {x}]
      /\ UNCHANGED <<seen, acted>> /\ handlers[h].pc = "idle"
  BY DEF Post
<1> HIDE DEF q, x
<1> SUFFICES ASSUME NEW p \in Endpoints, NEW e \in Events, e \notin overlapped'[p]
             PROVE  /\ \A g, k \in Serving(p, e)' : g = k
                    /\ acted'[p][e] <= 1
                    /\ acted'[p][e] > 0 =>
                         e \in seen'[p] /\ \A k \in Serving(p, e)' : handlers'[k].pc = "arrived"
  BY DEF AloneInv
<1>3. e \notin overlapped[p]
  BY <1>1, <1>2 DEF IInv, TypeOK
<1>4. CASE p = q /\ e = x
  <2>1. Serving(p, e) = {}
    BY <1>1, <1>2, <1>4 DEF IInv, TypeOK
  <2>2. Serving(p, e)' = {h} /\ handlers'[h].pc = "arrived"
    BY <1>2, <1>4, <2>1 DEF Serving, IInv, TypeOK
  <2> QED BY <1>2, <1>3, <2>2 DEF AloneInv
<1>5. CASE ~(p = q /\ e = x)
  <2>1. Serving(p, e)' = Serving(p, e) /\ h \notin Serving(p, e)
    BY <1>2, <1>5 DEF Serving, IInv, TypeOK
  <2>2. \A k \in Serving(p, e) : handlers'[k] = handlers[k]
    BY <1>2, <2>1 DEF Serving, IInv, TypeOK
  <2> QED BY <1>2, <1>3, <2>1, <2>2 DEF AloneInv
<1> QED BY <1>4, <1>5

LEMMA AloneServe ==
  ASSUME IInv, AloneInv, NEW h \in Handlers, Serve(h)
  PROVE  AloneInv'
<1> DEFINE q == handlers[h].endpoint
           x == handlers[h].event
<1>1. /\ handlers[h].pc # "idle" /\ q \in Endpoints /\ x \in Events /\ h \in Serving(q, x)
      /\ overlapped' = overlapped
  BY DEF Serve, CheckSeen, MarkSeen, Act, HandlerFails, IInv, HandlerInv, Serving
<1>2. /\ handlers \in [Handlers -> HandlerType] /\ seen \in [Endpoints -> SUBSET Events]
      /\ acted \in [Endpoints -> [Events -> Nat]]
  BY DEF IInv, TypeOK
<1> SUFFICES ASSUME NEW p \in Endpoints, NEW e \in Events, e \notin overlapped[p]
             PROVE  /\ \A g, k \in Serving(p, e)' : g = k
                    /\ acted'[p][e] <= 1
                    /\ acted'[p][e] > 0 =>
                         e \in seen'[p] /\ \A k \in Serving(p, e)' : handlers'[k].pc = "arrived"
  BY <1>1 DEF AloneInv
<1>3. /\ \A g, k \in Serving(p, e) : g = k
      /\ acted[p][e] <= 1
      /\ acted[p][e] > 0 =>
           e \in seen[p] /\ \A k \in Serving(p, e) : handlers[k].pc = "arrived"
  BY DEF AloneInv
<1>4. \A g \in Handlers \ {h} : handlers'[g] = handlers[g]
  BY <1>2 DEF Serve, CheckSeen, MarkSeen, Act, HandlerFails, Answer
<1>5. Serving(p, e)' \subseteq Serving(p, e)
  <2>1. handlers'[h].pc = "idle" \/ (handlers'[h].event = x /\ handlers'[h].endpoint = q)
    <3>1. \/ handlers' = [handlers EXCEPT ![h] = IdleHandler]
          \/ handlers' = [handlers EXCEPT ![h].pc = "unseen"]
          \/ handlers' = [handlers EXCEPT ![h].pc = "marked"]
      BY DEF Serve, CheckSeen, MarkSeen, Act, HandlerFails, Answer
    <3> QED BY <1>2, <3>1 DEF IdleHandler, HandlerType
  <2> QED BY <1>1, <1>4, <2>1 DEF Serving
<1>6. seen[p] \subseteq seen'[p]
  BY <1>1, <1>2 DEF Serve, CheckSeen, MarkSeen, Act, HandlerFails
<1>7. CASE ~(p = q /\ e = x)
  <2>1. h \notin Serving(p, e)
    BY <1>7 DEF Serving
  <2>2. acted'[p][e] = acted[p][e]
    BY <1>1, <1>2, <1>7 DEF Serve, CheckSeen, MarkSeen, Act, HandlerFails
  <2>3. \A k \in Serving(p, e) : handlers'[k] = handlers[k]
    BY <1>4, <2>1 DEF Serving
  <2> QED BY <1>3, <1>5, <1>6, <2>2, <2>3
<1>8. CASE p = q /\ e = x
  <2>1. Serving(p, e) = {h}
    BY <1>1, <1>3, <1>8
  <2>2. CASE CheckSeen(h)
    <3>1. acted'[p][e] = acted[p][e]
      BY <2>2 DEF CheckSeen
    <3>2. CASE e \in seen[p]
      <4>1. handlers' = [handlers EXCEPT ![h] = IdleHandler]
        BY <1>8, <2>2, <3>2 DEF CheckSeen, HasSeen, Answer
      <4>2. Serving(p, e)' = {}
        BY <1>2, <1>5, <2>1, <4>1 DEF Serving, IdleHandler
      <4> QED BY <1>3, <1>6, <3>1, <4>2
    <3>3. CASE e \notin seen[p]
      <4>1. ~(acted[p][e] > 0)
        BY <1>3, <3>3
      <4> QED BY <1>3, <1>5, <3>1, <4>1
    <3> QED BY <3>2, <3>3
  <2>3. CASE MarkSeen(h)
    <3>1. acted'[p][e] = acted[p][e] /\ handlers[h].pc = "unseen"
      BY <2>3 DEF MarkSeen
    <3>2. ~(acted[p][e] > 0)
      BY <1>3, <2>1, <3>1
    <3> QED BY <1>3, <1>5, <3>1, <3>2
  <2>4. CASE Act(h)
    <3>1. handlers[h].pc = "marked" /\ e \in seen[p]
      BY <1>1, <1>8, <2>4 DEF Act, IInv, HandlerInv
    <3>2. acted[p][e] = 0
      <4>1. ~(acted[p][e] > 0)
        BY <1>3, <2>1, <3>1
      <4>2. acted[p][e] \in Nat
        BY <1>2
      <4> QED BY <4>1, <4>2
    <3>3. acted'[p][e] \in 0..1
      BY <1>1, <1>2, <1>8, <2>4, <3>2 DEF Act
    <3>4. Serving(p, e)' = {}
      BY <1>2, <1>5, <2>1, <2>4 DEF Act, Answer, Serving, IdleHandler
    <3> QED BY <1>6, <3>1, <3>3, <3>4
  <2>5. CASE HandlerFails(h)
    <3>1. acted'[p][e] = acted[p][e]
      BY <2>5 DEF HandlerFails
    <3>2. Serving(p, e)' = {}
      BY <1>2, <1>5, <2>1, <2>5 DEF HandlerFails, Answer, Serving, IdleHandler
    <3> QED BY <1>3, <1>6, <3>1, <3>2
  <2> QED BY <2>2, <2>3, <2>4, <2>5 DEF Serve
<1> QED BY <1>7, <1>8

LEMMA AloneInvariance == Spec => []AloneInv
<1>1. Init => AloneInv
  BY DEF Init, AloneInv, Serving, IdleHandler
<1>2. ASSUME IInv, AloneInv, [Next]_vars PROVE AloneInv'
  <2>1. CASE UNCHANGED <<handlers, seen, acted, overlapped>>
    BY <1>2, <2>1 DEF AloneInv, Serving
  <2>2. ASSUME NEW w \in Workers, DispatchStep(w) PROVE AloneInv'
    <3>1. CASE \E d \in workers[w].batch, h \in Handlers : Post(w, d, h)
      BY <1>2, <3>1, AlonePost
    <3>2. CASE ~\E d \in workers[w].batch, h \in Handlers : Post(w, d, h)
      BY <2>1, <2>2, <3>2
      DEF DispatchStep, SelectEvents, OpenEvent, InsertDelivery, MarkDispatched,
          SelectDeliveries, EndDispatch, RefuseRemote, PostFails, TimeOut,
          RecordSuccess, RecordFailure, subscriberVars
    <3> QED BY <3>1, <3>2
  <2>3. CASE Subscriber
    BY <1>2, <2>3, AloneServe DEF Subscriber
  <2>4. ASSUME NEW e \in Events, Publish(e) PROVE AloneInv'
    BY <2>1, <2>4 DEF Publish, subscriberVars
  <2>5. ASSUME NEW w \in Workers, Interrupt(w) PROVE AloneInv'
    BY <2>1, <2>5 DEF Interrupt, subscriberVars
  <2>6. CASE UNCHANGED vars
    BY <2>1, <2>6 DEF vars
  <2> QED BY <1>2, <2>2, <2>3, <2>4, <2>5, <2>6 DEF Next
<1> QED BY <1>1, <1>2, Invariance, PTL DEF Spec

-----------------------------------------------------------------------------
(* Theorems *)

\* Every table, worker and request keeps its declared shape, however many
\* workers dispatch the same rows and wherever they stop.
THEOREM TypeCorrect == Spec => []TypeOK
<1>1. IInv => TypeOK
  BY DEF IInv
<1> QED BY <1>1, Invariance, PTL

\* An event is marked as dispatched only when every endpoint has a delivery row
\* for it, although dispatchOutbox writes rows and mark in separate statements.
THEOREM FanOutIsComplete == Spec => []EveryEventIsFannedOut
<1>1. IInv => EveryEventIsFannedOut
  BY DEF IInv
<1> QED BY <1>1, Invariance, PTL

\* deliverOne records a success only for an event that the subscriber has seen,
\* whatever timeouts, late answers and retries came before.
THEOREM SuccessIsAcknowledged == Spec => []SuccessWasAcknowledged
<1>1. IInv => SuccessWasAcknowledged
  BY DEF IInv
<1> QED BY <1>1, Invariance, PTL

\* Two workers that post one event, or one that posts it again after a timeout,
\* make a subscriber act twice only if it serves both requests at once: the
\* handler then finds the event unseen in both.
THEOREM ActionsRepeatOnlyInOverlap == Spec => []ActsAgainOnlyInOverlap
<1>1. IInv /\ AloneInv => ActsAgainOnlyInOverlap
  BY DEF IInv, TypeOK, AloneInv, ActsAgainOnlyInOverlap
<1> QED BY <1>1, Invariance, AloneInvariance, PTL
=============================================================================
