-------------------------- MODULE WebhookDelivery --------------------------
(* From the outbox to the receiver: registrations, fan-out, the scheduler that       *)
(* leases due deliveries and enqueues a task for each, and the handlers that send     *)
(* them.  A transaction is one step; the handler's statements are one step each,      *)
(* because nothing but the delivery row orders two handlers.  A lease and a due time  *)
(* are flags that the passing of time clears: any handler may be slower than any      *)
(* lease.                                                                             *)
EXTENDS Naturals, FiniteSets, WebhookContract

CONSTANTS
  Events,         \* domain events of one shop
  EventType,      \* the type of each
  Hooks,          \* registrations
  Deliveries,     \* identifiers of deliveries
  Workers,        \* concurrent handlers of the queue
  Schedulers,     \* schedule loops, one for each worker process
  NoHook, NoEvent, NoDelivery,
  MaxAttempts,    \* attempts after which a delivery fails
  MaxTasks,       \* bound on queued tasks of one delivery
  MaxRequests,    \* bound on operators' retries and replays
  MaxFaults       \* bound on crashes and failed statements

ASSUME DeliveryAssumption ==
  /\ EventType \in [Events -> SupportedEvents]
  /\ NoHook \notin Hooks
  /\ NoEvent \notin Events
  /\ NoDelivery \notin Deliveries
  /\ MaxAttempts \in Nat \ {0}
  /\ MaxTasks \in Nat
  /\ MaxRequests \in Nat
  /\ MaxFaults \in Nat

VARIABLES
  outbox,         \* the outbox row of each event
  hook,           \* webhooks
  delivery,       \* webhook_deliveries
  recorded,       \* webhook_delivery_attempts: the attempt numbers of each delivery
  succeeded,      \* those whose status is SUCCESS
  queue,          \* how many tasks of each delivery wait in the queue
  scheduler,      \* the delivery each scheduler has leased and not enqueued yet
  worker,         \* what each handler is doing
  requests,       \* operators' requests so far
  faults          \* crashes and failed statements so far

handlerVars == <<recorded, succeeded, worker>>
vars == <<outbox, hook, delivery, handlerVars, queue, scheduler, requests, faults>>

HookRow == [status: {"NONE", "ENABLED", "DISABLED", "DELETED"},
            subscribed: SUBSET SupportedEvents]

DeliveryRow ==
  [status: {"NONE", "PENDING", "DELIVERED", "FAILED", "CANCELLED"},
   hook: Hooks \cup {NoHook}, event: Events \cup {NoEvent},
   attempts: Nat, due: BOOLEAN, leased: BOOLEAN]

AbsentDelivery ==
  [status |-> "NONE", hook |-> NoHook, event |-> NoEvent,
   attempts |-> 0, due |-> FALSE, leased |-> FALSE]

(* Mutant: the columns of the INSERT are swapped. *)
NewDeliverySwapped(h, e, due) ==
  [status |-> "PENDING", hook |-> e, event |-> h,
   attempts |-> 0, due |-> due, leased |-> FALSE]

NewDelivery(h, e, due) ==
  [status |-> "PENDING", hook |-> h, event |-> e,
   attempts |-> 0, due |-> due, leased |-> FALSE]

(* leased_until is set or cleared, and next_attempt_at passes. *)
Leased(row) == [row EXCEPT !.leased = TRUE]
Unleased(row) == [row EXCEPT !.leased = FALSE]
MadeDue(row) == [row EXCEPT !.due = TRUE]

Job == [phase: {"idle", "send", "record", "count", "finish"},
        delivery: Deliveries \cup {NoDelivery}, attempt: Nat, result: {"NONE", "SUCCESS", "FAILURE"}]
Idle == [phase |-> "idle", delivery |-> NoDelivery, attempt |-> 0, result |-> "NONE"]

Init ==
  /\ outbox = [e \in Events |-> "NONE"]
  /\ hook = [h \in Hooks |-> [status |-> "NONE", subscribed |-> {}]]
  /\ delivery = [d \in Deliveries |-> AbsentDelivery]
  /\ recorded = [d \in Deliveries |-> {}]
  /\ succeeded = [d \in Deliveries |-> {}]
  /\ queue = [d \in Deliveries |-> 0]
  /\ scheduler = [s \in Schedulers |-> NoDelivery]
  /\ worker = [w \in Workers |-> Idle]
  /\ requests = 0
  /\ faults = 0

-----------------------------------------------------------------------------
(* Registrations *)

(* Of the types a registration names, those matter of which there are events. *)
Relevant(types) == types \cap {EventType[e] : e \in Events}

Subscribe(h, types) ==
  /\ hook[h].status = "NONE"
  /\ hook' = [hook EXCEPT ![h] = [status |-> "ENABLED", subscribed |-> Relevant(types)]]
  /\ UNCHANGED <<outbox, delivery, handlerVars, queue, scheduler, requests, faults>>

(* What the shared API and the console accept: one type of these or another one, or     *)
(* several.                                                                             *)
Requested ==
  {types \in SUBSET {EventType[e] : e \in Events} :
     /\ \A t \in types : SupportsEvent(t)
     /\ types # {} \/ \E t \in SupportedEvents : Relevant({t}) = {}}

createWebhook(h) == \E types \in Requested : Subscribe(h, types)

shopeeCreateWebhook(h) ==
  \E topics \in SUBSET ShopeeTopics \ {{}} :
    Subscribe(h, UNION {shopeeSubscriptionEvents(t) : t \in topics})

tokopediaConfigureWebhooks(h) ==
  \E topics \in SUBSET TokopediaTopics \ {{}} :
    Subscribe(h, UNION {tokopediaSubscriptionEvents(t) : t \in topics})

updateControlWebhook(h) ==
  /\ hook[h].status \in {"ENABLED", "DISABLED"}
  /\ \E types \in Requested, status \in {"ENABLED", "DISABLED"} :
       hook' = [hook EXCEPT ![h] = [status |-> status, subscribed |-> types]]
  /\ UNCHANGED <<outbox, delivery, handlerVars, queue, scheduler, requests, faults>>

(* Mutant: only what no handler has leased is cancelled. *)
CancelledUnleased(row) ==
  IF row.status = "PENDING" /\ ~row.leased
  THEN [row EXCEPT !.status = "CANCELLED", !.due = TRUE, !.leased = FALSE]
  ELSE row

(* next_attempt_at and leased_until become NULL. *)
CancelledRow(row) ==
  IF row.status = "PENDING"
  THEN [row EXCEPT !.status = "CANCELLED", !.due = TRUE, !.leased = FALSE]
  ELSE row

retireWebhook(h) ==
  /\ hook[h].status \in {"ENABLED", "DISABLED"}
  /\ hook' = [hook EXCEPT ![h] = [status |-> "DELETED", subscribed |-> @.subscribed]]
  /\ delivery' = [d \in Deliveries |->
                    IF delivery[d].hook = h THEN CancelledRow(delivery[d]) ELSE delivery[d]]
  /\ UNCHANGED <<outbox, handlerVars, queue, scheduler, requests, faults>>

-----------------------------------------------------------------------------
(* Events and their fan-out *)

(* events.Record, called by every transaction of Fulfillment. *)
Record(e) ==
  /\ outbox[e] = "NONE"
  /\ outbox' = [outbox EXCEPT ![e] = "UNPUBLISHED"]
  /\ UNCHANGED <<hook, delivery, handlerVars, queue, scheduler, requests, faults>>

Matching(e) ==
  {h \in Hooks : hook[h].status = "ENABLED" /\ EventType[e] \in hook[h].subscribed}

(* A number of new deliveries for every matching registration, locked FOR SHARE. *)
FanOut(e, copies, due) ==
  \E D \in SUBSET {d \in Deliveries : delivery[d].status = "NONE"} :
    \E target \in [D -> Matching(e)] :
      /\ \A h \in Matching(e) : Cardinality({d \in D : target[d] = h}) = copies
      /\ delivery' = [d \in Deliveries |->
                        IF d \in D THEN NewDelivery(target[d], e, due) ELSE delivery[d]]

(* The shop's scenario decides on duplicates and on a delay. *)
publishOutbox(e) ==
  /\ outbox[e] = "UNPUBLISHED"
  /\ \E copies \in {1, 2}, due \in BOOLEAN : FanOut(e, copies, due)
  /\ outbox' = [outbox EXCEPT ![e] = "PUBLISHED"]
  /\ UNCHANGED <<hook, handlerVars, queue, scheduler, requests, faults>>

Request ==
  /\ requests < MaxRequests
  /\ requests' = requests + 1

replayEvent(e) ==
  /\ Request
  /\ outbox[e] # "NONE"
  /\ outbox' = [outbox EXCEPT ![e] = "UNPUBLISHED"]
  /\ UNCHANGED <<hook, delivery, handlerVars, queue, scheduler, faults>>

(* duplicateEvent asks for two copies now, delayEvent for one later. *)
createManualEventDeliveries(e) ==
  /\ Request
  /\ outbox[e] # "NONE"
  /\ FanOut(e, 2, TRUE) \/ FanOut(e, 1, FALSE)
  /\ UNCHANGED <<outbox, hook, handlerVars, queue, scheduler, faults>>

(* Mutant: a manual retry starts counting anew. *)
retryFromStart(d) ==
  /\ Request
  /\ delivery[d].status # "NONE"
  /\ hook[delivery[d].hook].status # "DELETED"
  /\ delivery' = [delivery EXCEPT ![d] = NewDelivery(@.hook, @.event, TRUE)]
  /\ UNCHANGED <<outbox, hook, handlerVars, queue, scheduler, faults>>

Retried(row) == [row EXCEPT !.status = "PENDING", !.due = TRUE, !.leased = FALSE]

(* Any delivery of a registration that is not deleted, whatever its status. *)
retryDelivery(d) ==
  /\ Request
  /\ delivery[d].status # "NONE"
  /\ hook[delivery[d].hook].status # "DELETED"
  /\ delivery' = [delivery EXCEPT ![d] = Retried(@)]
  /\ UNCHANGED <<outbox, hook, handlerVars, queue, scheduler, faults>>

-----------------------------------------------------------------------------
(* scheduleDeliveries *)

Lease(s, d) ==
  /\ scheduler[s] = NoDelivery
  /\ delivery[d].status = "PENDING" /\ delivery[d].due /\ ~delivery[d].leased
  /\ delivery' = [delivery EXCEPT ![d] = Leased(@)]
  /\ scheduler' = [scheduler EXCEPT ![s] = d]
  /\ UNCHANGED <<outbox, hook, handlerVars, queue, requests, faults>>

Enqueue(s) ==
  LET d == scheduler[s] IN
  /\ d # NoDelivery
  /\ queue[d] < MaxTasks
  /\ queue' = [queue EXCEPT ![d] = @ + 1]
  /\ scheduler' = [scheduler EXCEPT ![s] = NoDelivery]
  /\ UNCHANGED <<outbox, hook, delivery, handlerVars, requests, faults>>

Fault ==
  /\ faults < MaxFaults
  /\ faults' = faults + 1

(* Enqueueing fails, perhaps after the task was stored, and the lease is cleared by   *)
(* the delivery's id alone; or that fails too, or the process dies before it.         *)
EnqueueFails(s) ==
  LET d == scheduler[s] IN
  /\ Fault
  /\ d # NoDelivery
  /\ queue' \in {queue, [queue EXCEPT ![d] = IF @ < MaxTasks THEN @ + 1 ELSE @]}
  /\ delivery' \in {delivery, [delivery EXCEPT ![d] = Unleased(@)]}
  /\ scheduler' = [scheduler EXCEPT ![s] = NoDelivery]
  /\ UNCHANGED <<outbox, hook, handlerVars, requests>>

-----------------------------------------------------------------------------
(* handleDelivery *)

AtPhase(job, phase) == [job EXCEPT !.phase = phase]
Goto(w, phase) == worker' = [worker EXCEPT ![w] = AtPhase(@, phase)]
Return(w) == worker' = [worker EXCEPT ![w] = Idle]

Deliverable(d) ==
  /\ delivery[d].status = "PENDING"
  /\ hook[delivery[d].hook].status # "DELETED"
  /\ delivery[d].leased

(* Take a task and load its delivery; a delivery that is not deliverable any more,    *)
(* or not leased, is dropped.                                                         *)
Load(w, d) ==
  /\ worker[w].phase = "idle"
  /\ queue[d] > 0
  /\ queue' = [queue EXCEPT ![d] = @ - 1]
  /\ \/ /\ Deliverable(d)
        /\ worker' = [worker EXCEPT ![w] =
             [phase |-> "send", delivery |-> d, attempt |-> delivery[d].attempts + 1,
              result |-> "NONE"]]
     \/ /\ ~Deliverable(d)
        /\ UNCHANGED worker
  /\ UNCHANGED <<outbox, hook, delivery, recorded, succeeded, scheduler, requests, faults>>

Answered(job, result) == [job EXCEPT !.phase = "record", !.result = result]

(* Signing and the HTTP request: a 2xx answer, or one of the failures. *)
Send(w) ==
  /\ worker[w].phase = "send"
  /\ \E result \in {"SUCCESS", "FAILURE"} :
       worker' = [worker EXCEPT ![w] = Answered(@, result)]
  /\ UNCHANGED <<outbox, hook, delivery, recorded, succeeded, queue, scheduler, requests, faults>>

(* Mutant: there is no UNIQUE(delivery_id,attempt), or its violation is ignored. *)
RecordAttemptAgain(w) ==
  LET job == worker[w] IN
  /\ job.phase = "record"
  /\ recorded' = [recorded EXCEPT ![job.delivery] = @ \cup {job.attempt}]
  /\ succeeded' = [succeeded EXCEPT ![job.delivery] =
                     IF job.result = "SUCCESS" THEN @ \cup {job.attempt} ELSE @ \ {job.attempt}]
  /\ Goto(w, "count")
  /\ UNCHANGED <<outbox, hook, delivery, queue, scheduler, requests, faults>>

(* The INSERT of the attempt; UNIQUE(delivery_id,attempt) makes it fail when another   *)
(* handler, or this one before a crash, has recorded the same number.                  *)
RecordAttempt(w) ==
  LET job == worker[w] IN
  /\ job.phase = "record"
  /\ \/ /\ job.attempt \notin recorded[job.delivery]
        /\ recorded' = [recorded EXCEPT ![job.delivery] = @ \cup {job.attempt}]
        /\ succeeded' = [succeeded EXCEPT ![job.delivery] =
                           IF job.result = "SUCCESS" THEN @ \cup {job.attempt} ELSE @]
        /\ Goto(w, "count")
     \/ /\ job.attempt \in recorded[job.delivery]
        /\ Return(w)
        /\ UNCHANGED <<recorded, succeeded>>
  /\ UNCHANGED <<outbox, hook, delivery, queue, scheduler, requests, faults>>

Counted(row, attempt) == [row EXCEPT !.attempts = attempt]

(* attempt_count=GREATEST(attempt_count,...) WHERE status='CANCELLED' *)
CountCancelled(w) ==
  LET job == worker[w] IN
  /\ job.phase = "count"
  /\ \/ /\ delivery[job.delivery].status = "CANCELLED"
        /\ delivery[job.delivery].attempts < job.attempt
        /\ delivery' = [delivery EXCEPT ![job.delivery] = Counted(@, job.attempt)]
     \/ /\ \/ delivery[job.delivery].status # "CANCELLED"
           \/ delivery[job.delivery].attempts >= job.attempt
        /\ UNCHANGED delivery
  /\ Goto(w, "finish")
  /\ UNCHANGED <<outbox, hook, recorded, succeeded, queue, scheduler, requests, faults>>

(* Mutant: a failed attempt does not advance attempt_count. *)
FinishedUncounted(row, job) ==
  LET ok == job.result = "SUCCESS"
      final == ok \/ job.attempt >= MaxAttempts IN
  [row EXCEPT !.status = IF ok THEN "DELIVERED" ELSE IF final THEN "FAILED" ELSE "PENDING",
              !.attempts = IF final THEN job.attempt ELSE @, !.due = final, !.leased = FALSE]

(* What the handler writes of its attempt: delivered, given up, or due again after     *)
(* RetryAfter; NULL times are due.                                                     *)
Finished(row, job) ==
  LET ok == job.result = "SUCCESS"
      final == ok \/ job.attempt >= MaxAttempts IN
  [row EXCEPT !.status = IF ok THEN "DELIVERED" ELSE IF final THEN "FAILED" ELSE "PENDING",
              !.attempts = job.attempt, !.due = final, !.leased = FALSE]

(* Mutant: the row is updated whatever became of it. *)
FinishAnyway(w) ==
  LET job == worker[w] IN
  /\ job.phase = "finish"
  /\ delivery' = [delivery EXCEPT ![job.delivery] = Finished(@, job)]
  /\ Return(w)
  /\ UNCHANGED <<outbox, hook, recorded, succeeded, queue, scheduler, requests, faults>>

Finish(w) ==
  LET job == worker[w] IN
  /\ job.phase = "finish"
  /\ \/ /\ delivery[job.delivery].status = "PENDING"
        /\ delivery' = [delivery EXCEPT ![job.delivery] = Finished(@, job)]
     \/ /\ delivery[job.delivery].status # "PENDING"
        /\ UNCHANGED delivery
  /\ Return(w)
  /\ UNCHANGED <<outbox, hook, recorded, succeeded, queue, scheduler, requests, faults>>

(* A statement fails or the process dies.  The task is archived, because it may not    *)
(* be retried, or put back by an orderly shutdown.                                     *)
HandlerFails(w) ==
  LET d == worker[w].delivery IN
  /\ Fault
  /\ worker[w].phase # "idle"
  /\ queue' \in {queue, [queue EXCEPT ![d] = IF @ < MaxTasks THEN @ + 1 ELSE @]}
  /\ Return(w)
  /\ UNCHANGED <<outbox, hook, delivery, recorded, succeeded, scheduler, requests>>

-----------------------------------------------------------------------------
LeaseExpires(d) ==
  /\ delivery[d].leased
  /\ delivery' = [delivery EXCEPT ![d] = Unleased(@)]
  /\ UNCHANGED <<outbox, hook, handlerVars, queue, scheduler, requests, faults>>

BecomesDue(d) ==
  /\ delivery[d].status = "PENDING"
  /\ ~delivery[d].due
  /\ delivery' = [delivery EXCEPT ![d] = MadeDue(@)]
  /\ UNCHANGED <<outbox, hook, handlerVars, queue, scheduler, requests, faults>>

Operator ==
  \/ \E h \in Hooks : \/ createWebhook(h) \/ shopeeCreateWebhook(h)
                      \/ tokopediaConfigureWebhooks(h) \/ updateControlWebhook(h)
                      \/ retireWebhook(h)
  \/ \E e \in Events : Record(e) \/ replayEvent(e) \/ createManualEventDeliveries(e)
  \/ \E d \in Deliveries : retryDelivery(d)

Handler(w) == Send(w) \/ RecordAttempt(w) \/ CountCancelled(w) \/ Finish(w)

Next ==
  \/ Operator
  \/ \E e \in Events : publishOutbox(e)
  \/ \E s \in Schedulers : (\E d \in Deliveries : Lease(s, d)) \/ Enqueue(s) \/ EnqueueFails(s)
  \/ \E w \in Workers : (\E d \in Deliveries : Load(w, d)) \/ Handler(w) \/ HandlerFails(w)
  \/ \E d \in Deliveries : LeaseExpires(d) \/ BecomesDue(d)

(* The loops run, the queue hands out its tasks and time passes.  Leases outlast the   *)
(* two things they are for often enough: of the leases a delivery gets for ever, one    *)
(* is still alive when its task is enqueued and one when a handler loads it.            *)
Fairness ==
  /\ \A e \in Events : WF_vars(publishOutbox(e))
  /\ \A s \in Schedulers :
       /\ WF_vars(Enqueue(s))
       /\ SF_vars(scheduler[s] # NoDelivery /\ delivery[scheduler[s]].leased /\ Enqueue(s))
  /\ \A d \in Deliveries :
       /\ WF_vars(LeaseExpires(d))
       /\ WF_vars(BecomesDue(d))
       /\ SF_vars(\E s \in Schedulers : Lease(s, d))
       /\ WF_vars(\E w \in Workers : Load(w, d))
       /\ SF_vars(\E w \in Workers : Deliverable(d) /\ Load(w, d))
  /\ \A w \in Workers : WF_vars(Handler(w))

Spec == Init /\ [][Next]_vars /\ Fairness

-----------------------------------------------------------------------------
(* Every row, task and handler has the values its declaration allows; a delivery that  *)
(* exists belongs to a registration and a handler at work to a delivery.               *)
TypeOK ==
  /\ outbox \in [Events -> {"NONE", "UNPUBLISHED", "PUBLISHED"}]
  /\ hook \in [Hooks -> HookRow]
  /\ delivery \in [Deliveries -> DeliveryRow]
  /\ recorded \in [Deliveries -> SUBSET Nat]
  /\ succeeded \in [Deliveries -> SUBSET Nat]
  /\ queue \in [Deliveries -> 0 .. MaxTasks]
  /\ scheduler \in [Schedulers -> Deliveries \cup {NoDelivery}]
  /\ worker \in [Workers -> Job]
  /\ requests \in 0 .. MaxRequests
  /\ faults \in 0 .. MaxFaults
  /\ \A d \in Deliveries : delivery[d].status # "NONE" => delivery[d].hook \in Hooks
  /\ \A w \in Workers : worker[w].phase # "idle" => worker[w].delivery \in Deliveries

(* Deleting a registration ends its deliveries: none of them waits to be sent, and     *)
(* fan-out, manual retry and handlers in flight cannot bring one back (retireWebhook,  *)
(* retryDelivery, publishOutbox, handleDelivery).                                      *)
DeletedHookQuiet ==
  \A d \in Deliveries :
    delivery[d].status = "PENDING" => hook[delivery[d].hook].status # "DELETED"

(* The history of a deleted registration keeps its outcomes (webhook_deliveries.status). *)
RetiredHistoryKept ==
  [][\A d \in Deliveries :
       delivery[d].status # "NONE" /\ hook[delivery[d].hook].status = "DELETED"
         => delivery'[d].status = delivery[d].status]_vars

(* The attempts of a delivery are numbered 1, 2, ... without gap, and attempt_count is  *)
(* the number of the last one or one behind it, however many handlers work on it        *)
(* (handleDelivery).                                                                    *)
AttemptsGapless ==
  \A d \in Deliveries :
    \E n \in {delivery[d].attempts, delivery[d].attempts + 1} : recorded[d] = 1 .. n

(* A final outcome is what its last counted attempt says: DELIVERED after a recorded    *)
(* 2xx, FAILED after a recorded failure and all attempts (handleDelivery).              *)
OutcomeEvidenced ==
  \A d \in Deliveries :
    LET n == delivery[d].attempts IN
    /\ delivery[d].status = "DELIVERED" => n \in succeeded[d]
    /\ delivery[d].status = "FAILED" => n >= MaxAttempts /\ n \in recorded[d] \ succeeded[d]

(* Every delivery comes to an end: retries are finite and what is acknowledged is       *)
(* marked (scheduleDeliveries, handleDelivery).                                         *)
EveryDeliveryEnds ==
  \A d \in Deliveries : delivery[d].status = "PENDING" ~> delivery[d].status # "PENDING"
=============================================================================
