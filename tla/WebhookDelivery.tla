--------------------------- MODULE WebhookDelivery ---------------------------
(***************************************************************************)
(* From an outbox row to the action of a subscriber: the dispatcher that   *)
(* every worker runs at the start of each tick, the webhook_deliveries     *)
(* rows it keeps, and the event handler of the StudioKL integration, which *)
(* deduplicates by event id before it acts.                                *)
(*                                                                         *)
(* Each SQL statement, each POST and each call of the handler's store is a *)
(* step of its own; no lock or claim keeps two workers from dispatching    *)
(* the same rows.  Events and deliveries are fewer than the queries' LIMIT,*)
(* and a delivery whose backoff has not elapsed is one the worker has not  *)
(* selected yet.                                                           *)
(***************************************************************************)
EXTENDS Naturals, FiniteSets

CONSTANTS
  Events,               \* outbox_events rows
  Actionable,           \* those for whose type the subscriber has an action
  Endpoints,            \* active webhook endpoints of the organization
  Remote,               \* those whose host is not in LOCAL_HOSTS
  Workers,              \* worker processes
  Handlers,             \* requests the subscribers serve at a time (bound)
  MaxRows,              \* webhook_deliveries rows (bound)
  MaxDeliveryAttempts,
  MaxInterrupts,        \* dispatches cut short by an error or a crash (bound)
  None

VARIABLES
  events,      \* outbox_events: not committed yet, new, or dispatched
  rows,        \* webhook_deliveries, by order of created_at
  workers,     \* control state of each worker's dispatchOutbox
  handlers,    \* control state of each request at a subscriber
  seen,        \* each endpoint's SeenEventStore
  acted,       \* how often each endpoint's action has completed for an event
  overlapped,  \* history: events an endpoint was sent while serving them
  interrupts,
  externalDisabled   \* externalWebhooksDisabled, read when the workers start

subscriberVars == <<handlers, seen, acted, overlapped>>
vars == <<events, rows, workers, handlers, seen, acted, overlapped,
          interrupts, externalDisabled>>

Rows == 1..MaxRows
Snapshots == Rows \X Nat     \* a selected row and its attempts at that time

RowType == [status : {"absent", "pending", "succeeded", "failed", "dead"},
            attempts : Nat, event : Events \cup {None},
            endpoint : Endpoints \cup {None}]
WorkerType == [pc : {"idle", "fanout", "insert", "deliver", "waiting",
                     "ok", "failed"},
               todo : SUBSET Events, event : Events \cup {None},
               left : SUBSET Endpoints, batch : SUBSET Snapshots,
               delivery : Snapshots \cup {None}, handler : Handlers \cup {None}]
HandlerType == [pc : {"idle", "arrived", "unseen", "marked"},
                event : Events \cup {None}, endpoint : Endpoints \cup {None}]

ASSUME DeliveryAssumption ==
  /\ Remote \subseteq Endpoints /\ Actionable \subseteq Events
  /\ MaxRows \in Nat /\ MaxInterrupts \in Nat
  /\ MaxDeliveryAttempts \in Nat \ {0}
  /\ None \notin Events \cup Endpoints \cup Handlers \cup Snapshots

TypeOK ==
  /\ events \in [Events -> {"absent", "new", "dispatched"}]
  /\ rows \in [Rows -> RowType]
  /\ workers \in [Workers -> WorkerType]
  /\ handlers \in [Handlers -> HandlerType]
  /\ seen \in [Endpoints -> SUBSET Events]
  /\ acted \in [Endpoints -> [Events -> Nat]]
  /\ overlapped \in [Endpoints -> SUBSET Events]
  /\ interrupts \in 0..MaxInterrupts
  /\ externalDisabled \in BOOLEAN

IdleWorker == [pc |-> "idle", todo |-> {}, event |-> None, left |-> {},
               batch |-> {}, delivery |-> None, handler |-> None]
IdleHandler == [pc |-> "idle", event |-> None, endpoint |-> None]

Init ==
  /\ events = [e \in Events |-> "absent"]
  /\ rows = [r \in Rows |-> [status |-> "absent", attempts |-> 0,
                             event |-> None, endpoint |-> None]]
  /\ workers = [w \in Workers |-> IdleWorker]
  /\ handlers = [h \in Handlers |-> IdleHandler]
  /\ seen = [p \in Endpoints |-> {}]
  /\ acted = [p \in Endpoints |-> [e \in Events |-> 0]]
  /\ overlapped = [p \in Endpoints |-> {}]
  /\ interrupts = 0
  /\ externalDisabled \in BOOLEAN

\* A domain transaction commits with its outbox row.
Publish(e) ==
  /\ events[e] = "absent"
  /\ events' = [events EXCEPT ![e] = "new"]
  /\ UNCHANGED <<rows, workers, subscriberVars, interrupts, externalDisabled>>

-----------------------------------------------------------------------------
(* dispatchOutbox, first half: events into deliveries *)

At(w, pc) == workers[w].pc = pc

SelectEvents(w) ==
  /\ At(w, "idle")
  /\ workers' = [workers EXCEPT ![w] =
       [IdleWorker EXCEPT !.pc = "fanout",
                          !.todo = { e \in Events : events[e] = "new" }]]
  /\ UNCHANGED <<events, rows, subscriberVars, interrupts, externalDisabled>>

\* listActiveWebhookEndpoints for the next event, new or not by now.
OpenEvent(w, e) ==
  /\ At(w, "fanout")
  /\ e \in workers[w].todo
  /\ workers' = [workers EXCEPT ![w] =
       [@ EXCEPT !.pc = "insert", !.todo = workers[w].todo \ {e}, !.event = e,
                 !.left = Endpoints]]
  /\ UNCHANGED <<events, rows, subscriberVars, interrupts, externalDisabled>>

InsertDelivery(w, p, r) ==
  /\ At(w, "insert")
  /\ p \in workers[w].left
  /\ \A q \in Rows : rows[q].status = "absent" <=> q >= r
  /\ rows' = [rows EXCEPT ![r] = [status |-> "pending", attempts |-> 0,
                                  event |-> workers[w].event, endpoint |-> p]]
  /\ workers' = [workers EXCEPT ![w].left = @ \ {p}]
  /\ UNCHANGED <<events, subscriberVars, interrupts, externalDisabled>>

\* Mistake: the event is marked before its deliveries are all inserted.
FannedOutEarly(w) == TRUE
FannedOut(w) == workers[w].left = {}

MarkDispatched(w) ==
  /\ At(w, "insert")
  /\ FannedOut(w)
  /\ events' = [events EXCEPT ![workers[w].event] = "dispatched"]
  /\ workers' = [workers EXCEPT ![w] =
       [@ EXCEPT !.pc = "fanout", !.event = None, !.left = {}]]
  /\ UNCHANGED <<rows, subscriberVars, interrupts, externalDisabled>>

-----------------------------------------------------------------------------
(* dispatchOutbox, second half: deliveries to their endpoints *)

Retryable(r) ==
  /\ rows[r].status \in {"pending", "failed"}
  /\ rows[r].attempts < MaxDeliveryAttempts

SelectDeliveries(w) ==
  /\ At(w, "fanout")
  /\ workers[w].todo = {}
  /\ workers' = [workers EXCEPT ![w] =
       [@ EXCEPT !.pc = "deliver",
                 !.batch = { <<r, rows[r].attempts>> :
                               r \in { q \in Rows : Retryable(q) } }]]
  /\ UNCHANGED <<events, rows, subscriberVars, interrupts, externalDisabled>>

EndDispatch(w) ==
  /\ At(w, "deliver")
  /\ workers[w].batch = {}
  /\ workers' = [workers EXCEPT ![w] = IdleWorker]
  /\ UNCHANGED <<events, rows, subscriberVars, interrupts, externalDisabled>>

\* The worker is about to handle the oldest delivery left in its batch.
IsNext(w, d) ==
  /\ At(w, "deliver")
  /\ d \in workers[w].batch
  /\ \A c \in workers[w].batch : d[1] <= c[1]

Refused(r) == externalDisabled /\ rows[r].endpoint \in Remote

\* External webhooks are disabled: dead without an attempt.
RefuseRemote(w, d) ==
  /\ IsNext(w, d)
  /\ Refused(d[1])
  /\ rows' = [rows EXCEPT ![d[1]].status = "dead"]
  /\ workers' = [workers EXCEPT ![w].batch = @ \ {d}]
  /\ UNCHANGED <<events, subscriberVars, interrupts, externalDisabled>>

Serving(p, e) ==
  { h \in Handlers : /\ handlers[h].pc # "idle"
                     /\ handlers[h].event = e /\ handlers[h].endpoint = p }

\* The request reaches the subscriber, which starts to serve it,
Post(w, d, h) ==
  LET e == rows[d[1]].event
      p == rows[d[1]].endpoint IN
  /\ IsNext(w, d)
  /\ ~Refused(d[1])
  /\ handlers[h].pc = "idle"
  /\ handlers' = [handlers EXCEPT ![h] = [pc |-> "arrived", event |-> e,
                                          endpoint |-> p]]
  /\ overlapped' = IF Serving(p, e) = {} THEN overlapped
                   ELSE [overlapped EXCEPT ![p] = @ \cup {e}]
  /\ workers' = [workers EXCEPT ![w] =
       [@ EXCEPT !.pc = "waiting", !.batch = workers[w].batch \ {d},
                 !.delivery = d, !.handler = h]]
  /\ UNCHANGED <<events, rows, seen, acted, interrupts, externalDisabled>>

\* or it never does: no connection, or an answer that is not a 2xx.
PostFails(w, d) ==
  /\ IsNext(w, d)
  /\ ~Refused(d[1])
  /\ workers' = [workers EXCEPT ![w] =
       [@ EXCEPT !.pc = "failed", !.batch = workers[w].batch \ {d},
                 !.delivery = d]]
  /\ UNCHANGED <<events, rows, subscriberVars, interrupts, externalDisabled>>

\* Mistake: no answer is taken for a good one.
TimeoutIsGood == "ok"
TimeoutOutcome == "failed"

\* AbortSignal.timeout: the subscriber may well go on with the request.
TimeOut(w) ==
  /\ At(w, "waiting")
  /\ workers' = [workers EXCEPT ![w] =
       [@ EXCEPT !.pc = TimeoutOutcome, !.handler = None]]
  /\ UNCHANGED <<events, rows, subscriberVars, interrupts, externalDisabled>>

Delivered(w) == workers' = [workers EXCEPT ![w] = [@ EXCEPT !.pc = "deliver",
                                                        !.delivery = None]]

\* attempts = attempts + 1, on the row as it is now.
RecordSuccess(w) ==
  LET r == workers[w].delivery[1] IN
  /\ At(w, "ok")
  /\ rows' = [rows EXCEPT ![r] = [@ EXCEPT !.status = "succeeded",
                                            !.attempts = rows[r].attempts + 1]]
  /\ Delivered(w)
  /\ UNCHANGED <<events, subscriberVars, interrupts, externalDisabled>>

\* Mistakes: one attempt too many to give up; a status the table has not.
VerdictLate(n) == IF n > MaxDeliveryAttempts THEN "dead" ELSE "failed"
VerdictUnlisted(n) == IF n >= MaxDeliveryAttempts THEN "exhausted" ELSE "failed"
Verdict(n) == IF n >= MaxDeliveryAttempts THEN "dead" ELSE "failed"

\* attempts = what this worker selected, plus one, whatever the row has become.
RecordFailure(w) ==
  LET r == workers[w].delivery[1]
      n == workers[w].delivery[2] + 1 IN
  /\ At(w, "failed")
  /\ rows' = [rows EXCEPT ![r] = [@ EXCEPT !.status = Verdict(n), !.attempts = n]]
  /\ Delivered(w)
  /\ UNCHANGED <<events, subscriberVars, interrupts, externalDisabled>>

\* A statement rejects, which tick only logs, or the process dies: what the
\* dispatch had selected is forgotten.
Interrupt(w) ==
  /\ ~At(w, "idle")
  /\ interrupts < MaxInterrupts
  /\ interrupts' = interrupts + 1
  /\ workers' = [workers EXCEPT ![w] = IdleWorker]
  /\ UNCHANGED <<events, rows, subscriberVars, externalDisabled>>

-----------------------------------------------------------------------------
(* handleWebhookEvent at the subscriber *)

\* The handler ends; the worker that still waits for it gets the answer.
Answer(h, outcome) ==
  /\ handlers' = [handlers EXCEPT ![h] = IdleHandler]
  /\ workers' = [w \in Workers |->
       IF At(w, "waiting") /\ workers[w].handler = h
         THEN [workers[w] EXCEPT !.pc = outcome, !.handler = None]
         ELSE workers[w]]

\* Mistake: the seen events are not consulted.
NeverSeen(p, e) == FALSE
HasSeen(p, e) == e \in seen[p]

CheckSeen(h) ==
  LET x == handlers[h] IN
  /\ x.pc = "arrived"
  /\ IF HasSeen(x.endpoint, x.event)
       THEN Answer(h, "ok")            \* "duplicate"
       ELSE /\ handlers' = [handlers EXCEPT ![h].pc = "unseen"]
            /\ UNCHANGED workers
  /\ UNCHANGED <<events, rows, seen, acted, overlapped, interrupts, externalDisabled>>

MarkSeen(h) ==
  LET x == handlers[h] IN
  /\ x.pc = "unseen"
  /\ seen' = [seen EXCEPT ![x.endpoint] = @ \cup {x.event}]
  /\ handlers' = [handlers EXCEPT ![h].pc = "marked"]
  /\ UNCHANGED <<events, rows, workers, acted, overlapped, interrupts,
                 externalDisabled>>

\* An event of a type without an action is "ignored", and nothing is done.
Act(h) ==
  LET x == handlers[h] IN
  /\ x.pc = "marked"
  /\ acted' = IF x.event \in Actionable
                THEN [acted EXCEPT ![x.endpoint][x.event] = @ + 1] ELSE acted
  /\ Answer(h, "ok")
  /\ UNCHANGED <<events, rows, seen, overlapped, interrupts, externalDisabled>>

\* The store or the action rejects: the subscriber answers with an error.
HandlerFails(h) ==
  /\ handlers[h].pc # "idle"
  /\ Answer(h, "failed")
  /\ UNCHANGED <<events, rows, seen, acted, overlapped, interrupts, externalDisabled>>

-----------------------------------------------------------------------------

DispatchStep(w) ==
  \/ SelectEvents(w)
  \/ \E e \in Events : OpenEvent(w, e)
  \/ \E p \in Endpoints, r \in Rows : InsertDelivery(w, p, r)
  \/ MarkDispatched(w)
  \/ SelectDeliveries(w)
  \/ EndDispatch(w)
  \/ \E d \in workers[w].batch :
       \/ RefuseRemote(w, d)
       \/ \E h \in Handlers : Post(w, d, h)
       \/ PostFails(w, d)
  \/ TimeOut(w)
  \/ RecordSuccess(w)
  \/ RecordFailure(w)

Serve(h) ==
  \/ CheckSeen(h)
  \/ MarkSeen(h)
  \/ Act(h)
  \/ HandlerFails(h)

Subscriber == \E h \in Handlers : Serve(h)

Next ==
  \/ \E e \in Events : Publish(e)
  \/ \E w \in Workers : DispatchStep(w) \/ Interrupt(w)
  \/ Subscriber

Spec == Init /\ [][Next]_vars

\* main.ts calls tick for ever, and a POST ends after DELIVERY_TIMEOUT_MS at
\* the latest.  Nothing obliges a subscriber to answer.
FairSpec == Spec /\ \A w \in Workers : WF_vars(DispatchStep(w))

-----------------------------------------------------------------------------
(* Properties *)

\* The transactional outbox loses nothing on its way into deliveries: once an
\* event counts as dispatched every endpoint has a row for it, although rows
\* and mark are separate statements and a worker may stop between any two.
EveryEventIsFannedOut ==
  \A e \in Events, p \in Endpoints : events[e] = "dispatched" =>
    \E r \in Rows : rows[r].event = e /\ rows[r].endpoint = p

\* A delivery is recorded as succeeded only if the subscriber has taken the
\* event, in spite of timeouts and late answers.
SuccessWasAcknowledged ==
  \A r \in Rows : rows[r].status = "succeeded" =>
    rows[r].event \in seen[rows[r].endpoint]

\* "Delivery is at-least-once, so StudioKL must deduplicate by eventId before
\* acting" (handler.ts): however often a delivery is repeated, a subscriber acts
\* on an event twice only if two requests about it overlapped there, one of them
\* given up or another worker's.
ActsAgainOnlyInOverlap ==
  \A p \in Endpoints, e \in Events : acted[p][e] > 1 => e \in overlapped[p]

\* Every event is at last delivered to each endpoint or given up.
EveryEventSettles ==
  \A e \in Events, p \in Endpoints : events[e] = "new" ~>
    \E r \in Rows : /\ rows[r].event = e /\ rows[r].endpoint = p
                    /\ rows[r].status \in {"succeeded", "dead"}
=============================================================================
