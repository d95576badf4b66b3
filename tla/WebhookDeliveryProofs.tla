----------------------- MODULE WebhookDeliveryProofs -----------------------
(* Machine-checked proofs about WebhookDelivery, for any number of registrations,     *)
(* deliveries, handlers, schedulers and attempts.                                     *)
EXTENDS WebhookDelivery, TLAPS

(* A deletion cancels a pending row and leaves any other as it is. *)
LEMMA CancelledRowColumns ==
  ASSUME NEW row \in DeliveryRow
  PROVE  /\ CancelledRow(row) \in DeliveryRow
         /\ CancelledRow(row).status =
              IF row.status = "PENDING" THEN "CANCELLED" ELSE row.status
         /\ CancelledRow(row).hook = row.hook
         /\ CancelledRow(row).attempts = row.attempts
BY DEF DeliveryRow, CancelledRow

(* What the handler writes at the end is a row with the attempt counted. *)
LEMMA FinishedColumns ==
  ASSUME NEW row \in DeliveryRow, NEW job \in Job
  PROVE  /\ Finished(row, job) \in DeliveryRow
         /\ Finished(row, job).status =
              IF job.result = "SUCCESS" THEN "DELIVERED"
              ELSE IF job.attempt >= MaxAttempts THEN "FAILED" ELSE "PENDING"
         /\ Finished(row, job).hook = row.hook
         /\ Finished(row, job).attempts = job.attempt
BY DeliveryAssumption DEF DeliveryRow, Finished, Job

(* A new delivery is pending and has no attempts. *)
LEMMA NewRowColumns ==
  ASSUME NEW h \in Hooks, NEW e \in Events, NEW due \in BOOLEAN
  PROVE  /\ NewDelivery(h, e, due) \in DeliveryRow
         /\ NewDelivery(h, e, due).status = "PENDING"
         /\ NewDelivery(h, e, due).hook = h
         /\ NewDelivery(h, e, due).attempts = 0
BY DEF DeliveryRow, NewDelivery

(* Leases and due times leave status, registration and count alone. *)
LEMMA FlagColumns ==
  ASSUME NEW row \in DeliveryRow, NEW new \in {Leased(row), Unleased(row), MadeDue(row)}
  PROVE  /\ new \in DeliveryRow
         /\ new.status = row.status
         /\ new.hook = row.hook
         /\ new.attempts = row.attempts
BY DEF DeliveryRow, Leased, Unleased, MadeDue

(* A manual retry makes a row pending and keeps its count. *)
LEMMA RetriedColumns ==
  ASSUME NEW row \in DeliveryRow
  PROVE  /\ Retried(row) \in DeliveryRow
         /\ Retried(row).status = "PENDING"
         /\ Retried(row).hook = row.hook
         /\ Retried(row).attempts = row.attempts
BY DEF DeliveryRow, Retried

(* Counting changes the count alone. *)
LEMMA CountedColumns ==
  ASSUME NEW row \in DeliveryRow, NEW n \in Nat
  PROVE  /\ Counted(row, n) \in DeliveryRow
         /\ Counted(row, n).status = row.status
         /\ Counted(row, n).hook = row.hook
         /\ Counted(row, n).attempts = n
BY DEF DeliveryRow, Counted

(* A handler keeps its delivery and attempt from phase to phase. *)
LEMMA JobColumns ==
  ASSUME NEW job \in Job, NEW phase \in {"send", "record", "count", "finish"},
         NEW result \in {"SUCCESS", "FAILURE"}
  PROVE  /\ AtPhase(job, phase) \in Job
         /\ AtPhase(job, phase).phase = phase
         /\ AtPhase(job, phase).delivery = job.delivery
         /\ AtPhase(job, phase).attempt = job.attempt
         /\ AtPhase(job, phase).result = job.result
         /\ Answered(job, result) \in Job
         /\ Answered(job, result).phase = "record"
         /\ Answered(job, result).delivery = job.delivery
         /\ Answered(job, result).attempt = job.attempt
         /\ Answered(job, result).result = result
BY DEF Job, AtPhase, Answered

(* A handler at rest has no attempt in flight. *)
LEMMA IdleColumns == Idle \in Job /\ Idle.phase = "idle"
BY DEF Job, Idle

-----------------------------------------------------------------------------
(* The kinds of steps. *)

(* Rows keep their registration, status and count; only due times and leases change.  *)
FlagsOnly ==
  /\ delivery' \in [Deliveries -> DeliveryRow]
  /\ \A d \in Deliveries : /\ delivery'[d].status = delivery[d].status
                           /\ delivery'[d].hook = delivery[d].hook
                           /\ delivery'[d].attempts = delivery[d].attempts

(* Nothing of the handlers changes, and no registration is deleted. *)
QuietStep ==
  /\ FlagsOnly
  /\ \A h \in Hooks : hook'[h].status = "DELETED" <=> hook[h].status = "DELETED"
  /\ UNCHANGED handlerVars

FanOutStep ==
  /\ \E e \in Events, copies \in {1, 2}, due \in BOOLEAN : FanOut(e, copies, due)
  /\ UNCHANGED <<hook, handlerVars>>

(* Steps that change registrations, flags and the queue only are quiet. *)
LEMMA NextKinds ==
  ASSUME TypeOK, [Next]_vars
  PROVE  \/ QuietStep
         \/ FanOutStep
         \/ \E h \in Hooks : retireWebhook(h)
         \/ \E d \in Deliveries : retryDelivery(d)
         \/ \E w \in Workers : \/ \E d \in Deliveries : Load(w, d)
                               \/ Handler(w)
                               \/ HandlerFails(w)
<1> USE DEF QuietStep, FlagsOnly, TypeOK
<1>1. CASE UNCHANGED vars
  BY <1>1 DEF vars, handlerVars
<1>2. ASSUME NEW h \in Hooks, NEW types, Subscribe(h, types)
      PROVE  QuietStep
  BY <1>2 DEF Subscribe
<1>3. ASSUME NEW h \in Hooks, updateControlWebhook(h)
      PROVE  QuietStep
  BY <1>3 DEF updateControlWebhook
<1>4. ASSUME NEW e \in Events, Record(e) \/ replayEvent(e)
      PROVE  QuietStep
  BY <1>4 DEF Record, replayEvent
<1>5. ASSUME NEW e \in Events, publishOutbox(e) \/ createManualEventDeliveries(e)
      PROVE  FanOutStep
  BY <1>5 DEF publishOutbox, createManualEventDeliveries, FanOutStep
<1>6. ASSUME NEW d \in Deliveries, LeaseExpires(d) \/ BecomesDue(d)
      PROVE  QuietStep
  BY <1>6, FlagColumns DEF LeaseExpires, BecomesDue
<1>7. ASSUME NEW s \in Schedulers,
             (\E d \in Deliveries : Lease(s, d)) \/ Enqueue(s) \/ EnqueueFails(s)
      PROVE  QuietStep
  BY <1>7, FlagColumns DEF Lease, Enqueue, EnqueueFails
<1> QED
  BY <1>1, <1>2, <1>3, <1>4, <1>5, <1>6, <1>7
     DEF Next, Operator, createWebhook, shopeeCreateWebhook, tokopediaConfigureWebhooks

-----------------------------------------------------------------------------
(* Type correctness of every step. *)
LEMMA TypeStep ==
  ASSUME TypeOK, [Next]_vars
  PROVE  TypeOK'
<1> USE DeliveryAssumption
<1>1. CASE UNCHANGED vars
  BY <1>1 DEF TypeOK, vars, handlerVars
<1>2. ASSUME NEW h \in Hooks, NEW types, Subscribe(h, types)
      PROVE  TypeOK'
  BY <1>2 DEF TypeOK, Subscribe, Relevant, HookRow, handlerVars
<1>3. ASSUME NEW h \in Hooks, updateControlWebhook(h)
      PROVE  TypeOK'
  BY <1>3 DEF TypeOK, updateControlWebhook, Requested, SupportsEvent, HookRow, handlerVars
<1>4. ASSUME NEW h \in Hooks, retireWebhook(h)
      PROVE  TypeOK'
  BY <1>4, CancelledRowColumns DEF TypeOK, retireWebhook, HookRow, handlerVars
<1>5. ASSUME NEW e \in Events, Record(e) \/ replayEvent(e)
      PROVE  TypeOK'
  BY <1>5 DEF TypeOK, Record, replayEvent, Request, handlerVars
<1>6. ASSUME NEW e \in Events, NEW copies, NEW due \in BOOLEAN, FanOut(e, copies, due)
      PROVE  /\ delivery' \in [Deliveries -> DeliveryRow]
             /\ \A d \in Deliveries : delivery'[d].status # "NONE" => delivery'[d].hook \in Hooks
  BY <1>6, NewRowColumns DEF TypeOK, FanOut, Matching
<1>7. ASSUME NEW e \in Events, publishOutbox(e)
      PROVE  TypeOK'
  BY <1>6, <1>7 DEF TypeOK, publishOutbox, handlerVars
<1>8. ASSUME NEW e \in Events, createManualEventDeliveries(e)
      PROVE  TypeOK'
  <2>1. /\ delivery' \in [Deliveries -> DeliveryRow]
        /\ \A d \in Deliveries : delivery'[d].status # "NONE" => delivery'[d].hook \in Hooks
    BY <1>6, <1>8, Zenon DEF createManualEventDeliveries
  <2> QED
    BY <1>8, <2>1 DEF TypeOK, createManualEventDeliveries, Request, handlerVars
<1>9. ASSUME NEW d \in Deliveries, retryDelivery(d)
      PROVE  TypeOK'
  BY <1>9, RetriedColumns DEF TypeOK, retryDelivery, Request, handlerVars
<1>10. ASSUME NEW d \in Deliveries, LeaseExpires(d) \/ BecomesDue(d)
       PROVE  TypeOK'
  BY <1>10, FlagColumns DEF TypeOK, LeaseExpires, BecomesDue, handlerVars
<1>11. ASSUME NEW s \in Schedulers,
              (\E d \in Deliveries : Lease(s, d)) \/ Enqueue(s) \/ EnqueueFails(s)
       PROVE  TypeOK'
  BY <1>11, FlagColumns DEF TypeOK, Lease, Enqueue, EnqueueFails, Fault, handlerVars
<1>12. ASSUME NEW w \in Workers, NEW d \in Deliveries, Load(w, d)
       PROVE  TypeOK'
  <2>1. delivery[d].attempts + 1 \in Nat
    BY DEF TypeOK, DeliveryRow
  <2>2. worker' \in [Workers -> Job]
    BY <1>12, <2>1 DEF TypeOK, Load, Job
  <2>3. \A v \in Workers : worker'[v].phase # "idle" => worker'[v].delivery \in Deliveries
    BY <1>12 DEF TypeOK, Load
  <2> QED
    BY <1>12, <2>2, <2>3 DEF TypeOK, Load
<1>13. ASSUME NEW w \in Workers, Send(w)
       PROVE  TypeOK'
  BY <1>13, JobColumns DEF TypeOK, Send
<1>14. ASSUME NEW w \in Workers, worker[w].phase # "idle"
       PROVE  /\ worker[w] \in Job /\ worker[w].delivery \in Deliveries
              /\ worker[w].attempt \in Nat
  BY <1>14 DEF TypeOK, Job
<1>15. ASSUME NEW w \in Workers, RecordAttempt(w)
       PROVE  TypeOK'
  <2>1. worker[w] \in Job /\ worker[w].delivery \in Deliveries /\ worker[w].attempt \in Nat
    BY <1>14, <1>15 DEF RecordAttempt
  <2>2. recorded' \in [Deliveries -> SUBSET Nat] /\ succeeded' \in [Deliveries -> SUBSET Nat]
    BY <1>15, <2>1 DEF TypeOK, RecordAttempt
  <2>3. /\ worker' \in [Workers -> Job]
        /\ \A v \in Workers : worker'[v].phase # "idle" => worker'[v].delivery \in Deliveries
    BY <1>15, <2>1, JobColumns, IdleColumns DEF TypeOK, RecordAttempt, Goto, Return
  <2> QED
    BY <1>15, <2>2, <2>3 DEF TypeOK, RecordAttempt
<1>16. ASSUME NEW w \in Workers, CountCancelled(w)
       PROVE  TypeOK'
  <2>1. worker[w] \in Job /\ worker[w].delivery \in Deliveries /\ worker[w].attempt \in Nat
    BY <1>14, <1>16 DEF CountCancelled
  <2>2. /\ delivery' \in [Deliveries -> DeliveryRow]
        /\ \A d \in Deliveries : delivery'[d].status # "NONE" => delivery'[d].hook \in Hooks
    <3> DEFINE job == worker[w]
               new == Counted(delivery[job.delivery], job.attempt)
    <3>1. delivery[job.delivery] \in DeliveryRow
      BY <2>1 DEF TypeOK
    <3>2. /\ new \in DeliveryRow
          /\ new.hook = delivery[job.delivery].hook
      BY <2>1, <3>1, CountedColumns
    <3>3. \/ delivery' = delivery
          \/ /\ delivery[job.delivery].status # "NONE"
             /\ delivery' = [delivery EXCEPT ![job.delivery] = new]
      BY <1>16 DEF CountCancelled
    <3> HIDE DEF new, job
    <3> QED
      BY <3>2, <3>3 DEF TypeOK
  <2>3. /\ worker' \in [Workers -> Job]
        /\ \A v \in Workers : worker'[v].phase # "idle" => worker'[v].delivery \in Deliveries
    BY <1>16, <2>1, JobColumns DEF TypeOK, CountCancelled, Goto
  <2> QED
    BY <1>16, <2>2, <2>3 DEF TypeOK, CountCancelled
<1>17. ASSUME NEW w \in Workers, Finish(w)
       PROVE  TypeOK'
  <2>1. worker[w] \in Job /\ worker[w].delivery \in Deliveries
    BY <1>14, <1>17 DEF Finish
  <2>2. /\ delivery' \in [Deliveries -> DeliveryRow]
        /\ \A d \in Deliveries : delivery'[d].status # "NONE" => delivery'[d].hook \in Hooks
    <3> DEFINE job == worker[w]
               new == Finished(delivery[job.delivery], job)
    <3>1. delivery[job.delivery] \in DeliveryRow
      BY <2>1 DEF TypeOK
    <3>2. /\ new \in DeliveryRow
          /\ new.hook = delivery[job.delivery].hook
      BY <2>1, <3>1, FinishedColumns
    <3>3. \/ delivery' = delivery
          \/ /\ delivery[job.delivery].status # "NONE"
             /\ delivery' = [delivery EXCEPT ![job.delivery] = new]
      BY <1>17 DEF Finish
    <3> HIDE DEF new, job
    <3> QED
      BY <3>2, <3>3 DEF TypeOK
  <2>3. /\ worker' \in [Workers -> Job]
        /\ \A v \in Workers : worker'[v].phase # "idle" => worker'[v].delivery \in Deliveries
    BY <1>17, IdleColumns DEF TypeOK, Finish, Return
  <2> QED
    BY <1>17, <2>2, <2>3 DEF TypeOK, Finish
<1>18. ASSUME NEW w \in Workers, HandlerFails(w)
       PROVE  TypeOK'
  <2>1. worker[w].delivery \in Deliveries
    BY <1>14, <1>18 DEF HandlerFails
  <2>2. /\ worker' \in [Workers -> Job]
        /\ \A v \in Workers : worker'[v].phase # "idle" => worker'[v].delivery \in Deliveries
    BY <1>18, IdleColumns DEF TypeOK, HandlerFails, Return
  <2>3. queue' \in [Deliveries -> 0 .. MaxTasks]
    BY <1>18, <2>1 DEF TypeOK, HandlerFails
  <2> QED
    BY <1>18, <2>2, <2>3 DEF TypeOK, HandlerFails, Fault
<1> QED
  BY <1>1, <1>2, <1>3, <1>4, <1>5, <1>7, <1>8, <1>9, <1>10, <1>11, <1>12, <1>13, <1>15, <1>16,
     <1>17, <1>18
     DEF Next, Operator, Handler, createWebhook, shopeeCreateWebhook,
         tokopediaConfigureWebhooks

-----------------------------------------------------------------------------
(* What each step that is not quiet does to the columns the invariants speak of. *)

(* Fan-out fills absent rows for enabled registrations and touches no other. *)
LEMMA FanOutEffect ==
  ASSUME TypeOK, FanOutStep, NEW d \in Deliveries
  PROVE  \/ delivery'[d] = delivery[d]
         \/ /\ delivery[d].status = "NONE" /\ delivery'[d].status = "PENDING"
            /\ delivery'[d].attempts = 0
            /\ delivery'[d].hook \in Hooks /\ hook[delivery'[d].hook].status = "ENABLED"
<1>1. PICK e \in Events, copies \in {1, 2}, due \in BOOLEAN : FanOut(e, copies, due)
  BY DEF FanOutStep
<1>2. PICK D \in SUBSET {x \in Deliveries : delivery[x].status = "NONE"} :
        \E target \in [D -> Matching(e)] :
          delivery' = [x \in Deliveries |->
                         IF x \in D THEN NewDelivery(target[x], e, due) ELSE delivery[x]]
  BY <1>1 DEF FanOut
<1>3. PICK target \in [D -> Matching(e)] :
        delivery' = [x \in Deliveries |->
                       IF x \in D THEN NewDelivery(target[x], e, due) ELSE delivery[x]]
  BY <1>2
<1>4. CASE d \notin D
  BY <1>3, <1>4
<1>5. CASE d \in D
  <2>1. target[d] \in Hooks /\ hook[target[d]].status = "ENABLED"
    BY <1>5 DEF Matching
  <2>2. delivery'[d] = NewDelivery(target[d], e, due)
    BY <1>3, <1>5
  <2> QED
    BY <1>2, <1>5, <2>1, <2>2, NewRowColumns
<1> QED
  BY <1>4, <1>5

(* Deleting a registration cancels exactly its pending deliveries. *)
LEMMA RetireEffect ==
  ASSUME TypeOK, NEW h \in Hooks, retireWebhook(h), NEW d \in Deliveries
  PROVE  /\ delivery'[d].hook = delivery[d].hook
         /\ delivery'[d].attempts = delivery[d].attempts
         /\ delivery'[d].status =
              IF delivery[d].hook = h /\ delivery[d].status = "PENDING"
              THEN "CANCELLED" ELSE delivery[d].status
BY CancelledRowColumns DEF TypeOK, retireWebhook

(* A manual retry makes one delivery of a live registration pending. *)
LEMMA RetryEffect ==
  ASSUME TypeOK, NEW x \in Deliveries, retryDelivery(x), NEW d \in Deliveries
  PROVE  /\ delivery'[d].hook = delivery[d].hook
         /\ delivery'[d].attempts = delivery[d].attempts
         /\ delivery'[d].status = IF d = x THEN "PENDING" ELSE delivery[d].status
         /\ delivery[x].status # "NONE" /\ hook[delivery[x].hook].status # "DELETED"
BY RetriedColumns DEF TypeOK, retryDelivery

(* The count of a cancelled delivery only grows, to the recorded attempt. *)
LEMMA CountEffect ==
  ASSUME TypeOK, NEW w \in Workers, CountCancelled(w), NEW d \in Deliveries
  PROVE  /\ delivery'[d].hook = delivery[d].hook
         /\ delivery'[d].status = delivery[d].status
         /\ \/ delivery'[d].attempts = delivery[d].attempts
            \/ /\ d = worker[w].delivery
               /\ delivery[d].status = "CANCELLED"
               /\ delivery[d].attempts < worker[w].attempt
               /\ delivery'[d].attempts = worker[w].attempt
<1> DEFINE job == worker[w]
<1>1. job.delivery \in Deliveries /\ job.attempt \in Nat
  BY DEF TypeOK, CountCancelled, Job
<1>2. delivery[job.delivery] \in DeliveryRow
  BY <1>1 DEF TypeOK
<1>3. \/ delivery' = delivery
      \/ /\ delivery[job.delivery].status = "CANCELLED"
         /\ delivery[job.delivery].attempts < job.attempt
         /\ delivery' = [delivery EXCEPT ![job.delivery] =
                           Counted(delivery[job.delivery], job.attempt)]
  BY DEF CountCancelled
<1> DEFINE new == Counted(delivery[job.delivery], job.attempt)
<1>4. /\ new.hook = delivery[job.delivery].hook
      /\ new.status = delivery[job.delivery].status
      /\ new.attempts = job.attempt
  BY <1>1, <1>2, CountedColumns
<1>5. CASE delivery' = delivery
  BY <1>5
<1>6. CASE /\ delivery[job.delivery].status = "CANCELLED"
           /\ delivery[job.delivery].attempts < job.attempt
           /\ delivery' = [delivery EXCEPT ![job.delivery] = new]
  <2>1. CASE d = job.delivery
    <3>1. delivery'[d] = new
      BY <1>1, <1>6, <2>1 DEF TypeOK
    <3> HIDE DEF new
    <3> QED
      BY <1>4, <1>6, <2>1, <3>1
  <2>2. CASE d # job.delivery
    BY <1>6, <2>2 DEF TypeOK
  <2> QED
    BY <2>1, <2>2
<1> QED
  BY <1>3, <1>5, <1>6

(* The last update touches only the pending delivery the handler works on. *)
LEMMA FinishEffect ==
  ASSUME TypeOK, NEW w \in Workers, Finish(w), NEW d \in Deliveries
  PROVE  /\ delivery'[d].hook = delivery[d].hook
         /\ \/ /\ delivery'[d].status = delivery[d].status
               /\ delivery'[d].attempts = delivery[d].attempts
               /\ d = worker[w].delivery => delivery[d].status # "PENDING"
            \/ /\ d = worker[w].delivery
               /\ delivery[d].status = "PENDING"
               /\ delivery'[d].attempts = worker[w].attempt
               /\ delivery'[d].status =
                    IF worker[w].result = "SUCCESS" THEN "DELIVERED"
                    ELSE IF worker[w].attempt >= MaxAttempts THEN "FAILED" ELSE "PENDING"
<1> DEFINE job == worker[w]
<1>1. job.delivery \in Deliveries /\ job \in Job
  BY DEF TypeOK, Finish
<1>2. delivery[job.delivery] \in DeliveryRow
  BY <1>1 DEF TypeOK
<1>3. \/ delivery[job.delivery].status # "PENDING" /\ delivery' = delivery
      \/ /\ delivery[job.delivery].status = "PENDING"
         /\ delivery' = [delivery EXCEPT ![job.delivery] = Finished(delivery[job.delivery], job)]
  BY DEF Finish
<1> DEFINE new == Finished(delivery[job.delivery], job)
<1>4. /\ new.hook = delivery[job.delivery].hook
      /\ new.attempts = job.attempt
      /\ new.status = IF job.result = "SUCCESS" THEN "DELIVERED"
                      ELSE IF job.attempt >= MaxAttempts THEN "FAILED" ELSE "PENDING"
  BY <1>1, <1>2, FinishedColumns
<1>5. CASE delivery' = delivery /\ delivery[job.delivery].status # "PENDING"
  BY <1>5
<1>6. CASE /\ delivery[job.delivery].status = "PENDING"
           /\ delivery' = [delivery EXCEPT ![job.delivery] = new]
  <2>1. CASE d = job.delivery
    <3>1. delivery'[d] = new
      BY <1>1, <1>6, <2>1 DEF TypeOK
    <3> HIDE DEF new
    <3> QED
      BY <1>4, <1>6, <2>1, <3>1
  <2>2. CASE d # job.delivery
    <3>1. delivery'[d] = delivery[d]
      BY <1>6, <2>2 DEF TypeOK
    <3> QED
      BY <2>2, <3>1
  <2> QED
    BY <2>1, <2>2
<1> QED
  BY <1>3, <1>5, <1>6

-----------------------------------------------------------------------------
(* The inductive invariant. *)

Closing(w) == worker[w].phase \in {"count", "finish"}

(* One delivery: its attempts and outcome, and that it is cancelled exactly with its  *)
(* registration.                                                                      *)
DeliveryFits(d) ==
  LET n == delivery[d].attempts IN
  /\ delivery[d].status = "NONE" => n = 0 /\ recorded[d] = {}
  /\ delivery[d].status = "PENDING" => hook[delivery[d].hook].status # "DELETED"
  /\ delivery[d].status = "CANCELLED" => hook[delivery[d].hook].status = "DELETED"
  /\ succeeded[d] \subseteq recorded[d]
  /\ recorded[d] = 1 .. n \/ recorded[d] = 1 .. (n + 1)
  /\ delivery[d].status = "DELIVERED" => n \in succeeded[d]
  /\ delivery[d].status = "FAILED" => n >= MaxAttempts /\ n \in recorded[d] \ succeeded[d]

(* One handler: its attempt is not ahead of the count, and once recorded it is the     *)
(* one the delivery waits for, unless the delivery is cancelled.                       *)
JobFits(w) ==
  LET d == worker[w].delivery
      a == worker[w].attempt IN
  worker[w].phase # "idle" =>
    /\ delivery[d].status # "NONE"
    /\ 1 <= a /\ a <= delivery[d].attempts + 1
    /\ Closing(w) => /\ a \in recorded[d]
                     /\ worker[w].result = "SUCCESS" <=> a \in succeeded[d]
                     /\ delivery[d].status # "CANCELLED" => a = delivery[d].attempts + 1

(* Two handlers that have both recorded an attempt work on different deliveries, or on *)
(* a cancelled one.                                                                    *)
Exclusive(v, w) ==
  v # w /\ Closing(v) /\ Closing(w) /\ worker[v].delivery = worker[w].delivery
    => delivery[worker[v].delivery].status = "CANCELLED"

Core ==
  /\ \A d \in Deliveries : DeliveryFits(d)
  /\ \A w \in Workers : JobFits(w)
  /\ \A v, w \in Workers : Exclusive(v, w)

(* The columns Core reads, typed. *)
LEMMA Typed ==
  ASSUME TypeOK
  PROVE  /\ \A d \in Deliveries : delivery[d].attempts \in Nat /\ recorded[d] \subseteq Nat
                                  /\ succeeded[d] \subseteq Nat
         /\ \A d \in Deliveries : delivery[d].status # "NONE" => delivery[d].hook \in Hooks
         /\ \A w \in Workers : worker[w].phase # "idle" =>
              worker[w].delivery \in Deliveries /\ worker[w].attempt \in Nat
BY DEF TypeOK, DeliveryRow, Job

(* Quiet steps leave everything Core reads as it is. *)
LEMMA QuietCore ==
  ASSUME TypeOK, Core, QuietStep
  PROVE  Core'
<1> USE DEF QuietStep, FlagsOnly, handlerVars, Closing
<1>1. ASSUME NEW d \in Deliveries
      PROVE  DeliveryFits(d)'
  BY <1>1, Typed DEF Core, DeliveryFits
<1>2. ASSUME NEW w \in Workers
      PROVE  JobFits(w)'
  BY <1>2, Typed DEF Core, JobFits
<1>3. ASSUME NEW v \in Workers, NEW w \in Workers
      PROVE  Exclusive(v, w)'
  BY <1>3, Typed DEF Core, Exclusive
<1> QED
  BY <1>1, <1>2, <1>3 DEF Core

(* New deliveries have no attempts, and nobody works on them yet. *)
LEMMA FanOutCore ==
  ASSUME TypeOK, Core, FanOutStep
  PROVE  Core'
<1> USE DEF Closing
<1>0. UNCHANGED <<hook, recorded, succeeded, worker>>
  BY DEF FanOutStep, handlerVars
<1>1. ASSUME NEW d \in Deliveries
      PROVE  DeliveryFits(d)'
  BY <1>0, <1>1, FanOutEffect, Typed DEF Core, DeliveryFits
<1>2. ASSUME NEW w \in Workers
      PROVE  JobFits(w)'
  BY <1>0, <1>2, FanOutEffect, Typed DEF Core, JobFits
<1>3. ASSUME NEW v \in Workers, NEW w \in Workers
      PROVE  Exclusive(v, w)'
  BY <1>0, <1>3, FanOutEffect, Typed DEF Core, Exclusive, JobFits
<1> QED
  BY <1>1, <1>2, <1>3 DEF Core

(* Cancelling keeps attempts and releases the handlers from the count. *)
LEMMA RetireCore ==
  ASSUME TypeOK, Core, NEW h \in Hooks, retireWebhook(h)
  PROVE  Core'
<1> USE DEF Closing
<1>0. /\ UNCHANGED <<recorded, succeeded, worker>>
      /\ \A x \in Hooks : hook'[x].status = IF x = h THEN "DELETED" ELSE hook[x].status
  BY DEF retireWebhook, handlerVars, TypeOK
<1>1. ASSUME NEW d \in Deliveries
      PROVE  DeliveryFits(d)'
  BY <1>0, <1>1, RetireEffect, Typed DEF Core, DeliveryFits
<1>2. ASSUME NEW w \in Workers
      PROVE  JobFits(w)'
  BY <1>0, <1>2, RetireEffect, Typed DEF Core, JobFits
<1>3. ASSUME NEW v \in Workers, NEW w \in Workers
      PROVE  Exclusive(v, w)'
  BY <1>0, <1>3, RetireEffect, Typed DEF Core, Exclusive
<1> QED
  BY <1>1, <1>2, <1>3 DEF Core

(* A cancelled delivery cannot be retried, so no handler is behind the count. *)
LEMMA RetryCore ==
  ASSUME TypeOK, Core, NEW x \in Deliveries, retryDelivery(x)
  PROVE  Core'
<1> USE DEF Closing
<1>0. UNCHANGED <<hook, recorded, succeeded, worker>>
  BY DEF retryDelivery, handlerVars
<1>a. delivery[x].status # "CANCELLED"
  BY RetryEffect DEF Core, DeliveryFits
<1>1. ASSUME NEW d \in Deliveries
      PROVE  DeliveryFits(d)'
  BY <1>0, <1>1, RetryEffect, Typed DEF Core, DeliveryFits
<1>2. ASSUME NEW w \in Workers
      PROVE  JobFits(w)'
  BY <1>0, <1>a, <1>2, RetryEffect, Typed DEF Core, JobFits
<1>3. ASSUME NEW v \in Workers, NEW w \in Workers
      PROVE  Exclusive(v, w)'
  BY <1>0, <1>a, <1>3, RetryEffect, Typed DEF Core, Exclusive
<1> QED
  BY <1>1, <1>2, <1>3 DEF Core

(* Loading a delivery starts the attempt after the counted ones. *)
LEMMA LoadCore ==
  ASSUME TypeOK, Core, NEW u \in Workers, NEW x \in Deliveries, Load(u, x)
  PROVE  Core'
<1> USE DEF Closing
<1>0. /\ UNCHANGED <<hook, delivery, recorded, succeeded>>
      /\ \A w \in Workers : w # u => worker'[w] = worker[w]
      /\ \/ worker'[u] = worker[u]
         \/ /\ worker'[u].phase = "send" /\ worker'[u].delivery = x
            /\ worker'[u].attempt = delivery[x].attempts + 1
            /\ delivery[x].status # "NONE"
  BY DEF Load, Deliverable, TypeOK
<1>1. ASSUME NEW d \in Deliveries
      PROVE  DeliveryFits(d)'
  BY <1>0, <1>1 DEF Core, DeliveryFits
<1>2. ASSUME NEW w \in Workers
      PROVE  JobFits(w)'
  BY <1>0, <1>2, Typed DEF Core, JobFits
<1>3. ASSUME NEW v \in Workers, NEW w \in Workers
      PROVE  Exclusive(v, w)'
  BY <1>0, <1>3 DEF Core, Exclusive
<1> QED
  BY <1>1, <1>2, <1>3 DEF Core

(* Neither the answer of the receiver nor a fault changes what is recorded. *)
LEMMA SendOrFailCore ==
  ASSUME TypeOK, Core, NEW u \in Workers, Send(u) \/ HandlerFails(u)
  PROVE  Core'
<1> USE DEF Closing
<1>0. /\ UNCHANGED <<hook, delivery, recorded, succeeded>>
      /\ \A w \in Workers : w # u => worker'[w] = worker[w]
      /\ worker[u].phase # "idle"
      /\ \/ worker'[u].phase = "idle"
         \/ /\ worker'[u].phase = "record"
            /\ worker'[u].delivery = worker[u].delivery
            /\ worker'[u].attempt = worker[u].attempt
  BY JobColumns, IdleColumns DEF Send, HandlerFails, Return, TypeOK
<1>1. ASSUME NEW d \in Deliveries
      PROVE  DeliveryFits(d)'
  BY <1>0, <1>1 DEF Core, DeliveryFits
<1>2. ASSUME NEW w \in Workers
      PROVE  JobFits(w)'
  BY <1>0, <1>2, Typed DEF Core, JobFits
<1>3. ASSUME NEW v \in Workers, NEW w \in Workers
      PROVE  Exclusive(v, w)'
  BY <1>0, <1>3 DEF Core, Exclusive
<1> QED
  BY <1>1, <1>2, <1>3 DEF Core

(* An attempt that can be recorded is the one after the counted ones, and no other     *)
(* handler of the delivery has recorded it.                                            *)
LEMMA RecordCore ==
  ASSUME TypeOK, Core, NEW u \in Workers, RecordAttempt(u)
  PROVE  Core'
<1> DEFINE x == worker[u].delivery
           a == worker[u].attempt
<1> USE DEF Closing
<1>0. /\ UNCHANGED <<hook, delivery>>
      /\ \A w \in Workers : w # u => worker'[w] = worker[w]
      /\ worker[u].phase = "record"
      /\ x \in Deliveries /\ a \in Nat /\ JobFits(u) /\ DeliveryFits(x)
  BY Typed DEF RecordAttempt, Goto, Return, TypeOK, Core
<1>1. CASE a \in recorded[x]
  <2>1. UNCHANGED <<recorded, succeeded>> /\ worker'[u].phase = "idle"
    BY <1>1, IdleColumns DEF RecordAttempt, Return, TypeOK
  <2>2. ASSUME NEW d \in Deliveries
        PROVE  DeliveryFits(d)'
    BY <1>0, <2>1, <2>2 DEF Core, DeliveryFits
  <2>3. ASSUME NEW w \in Workers
        PROVE  JobFits(w)'
    BY <1>0, <2>1, <2>3 DEF Core, JobFits
  <2>4. ASSUME NEW v \in Workers, NEW w \in Workers
        PROVE  Exclusive(v, w)'
    BY <1>0, <2>1, <2>4 DEF Core, Exclusive
  <2> QED
    BY <2>2, <2>3, <2>4 DEF Core
<1>2. CASE a \notin recorded[x]
  <2>1. /\ worker'[u].phase = "count" /\ worker'[u].delivery = x
        /\ worker'[u].attempt = a /\ worker'[u].result = worker[u].result
    BY <1>2, JobColumns DEF RecordAttempt, Goto, TypeOK
  <2>2. /\ recorded'[x] = recorded[x] \cup {a}
        /\ succeeded'[x] = IF worker[u].result = "SUCCESS"
                           THEN succeeded[x] \cup {a} ELSE succeeded[x]
        /\ \A d \in Deliveries :
             d # x => recorded'[d] = recorded[d] /\ succeeded'[d] = succeeded[d]
    BY <1>0, <1>2 DEF RecordAttempt, TypeOK
  <2>3. a = delivery[x].attempts + 1 /\ recorded[x] = 1 .. delivery[x].attempts
    BY <1>0, <1>2, Typed DEF JobFits, DeliveryFits
  <2>4. ASSUME NEW w \in Workers, w # u, Closing(w), worker[w].delivery = x
        PROVE  /\ delivery[x].status = "CANCELLED"
               /\ worker[w].attempt # a
    BY <1>0, <1>2, <2>3, <2>4, Typed DEF Core, JobFits
  <2>5. ASSUME NEW d \in Deliveries
        PROVE  DeliveryFits(d)'
    <3>1. CASE d # x
      BY <1>0, <2>2, <2>5, <3>1 DEF Core, DeliveryFits
    <3>2. CASE d = x
      <4>1. recorded'[x] = 1 .. (delivery[x].attempts + 1)
        BY <1>0, <2>2, <2>3, Typed
      <4> QED
        BY <1>0, <2>2, <2>3, <3>2, <4>1, Typed DEF DeliveryFits, JobFits
    <3> QED
      BY <3>1, <3>2
  <2>6. ASSUME NEW w \in Workers
        PROVE  JobFits(w)'
    <3>1. CASE w = u
      <4>1. a \notin succeeded[x]
        BY <1>0, <1>2 DEF DeliveryFits
      <4>2. a \in recorded'[x] /\ (worker[u].result = "SUCCESS" <=> a \in succeeded'[x])
        BY <2>2, <4>1
      <4>3. delivery[x].status # "NONE" /\ 1 <= a
        BY <1>0 DEF JobFits
      <4>4. a <= delivery[x].attempts + 1
        BY <1>0, <2>3, Typed
      <4> HIDE DEF x, a
      <4> QED
        BY <1>0, <2>1, <2>3, <3>1, <4>2, <4>3, <4>4 DEF JobFits
    <3>2. CASE w # u
      BY <1>0, <2>2, <2>4, <2>6, <3>2, Typed DEF Core, JobFits
    <3> QED
      BY <3>1, <3>2
  <2>7. ASSUME NEW v \in Workers, NEW w \in Workers
        PROVE  Exclusive(v, w)'
    BY <1>0, <2>1, <2>4, <2>7 DEF Core, Exclusive
  <2> QED
    BY <2>5, <2>6, <2>7 DEF Core
<1> QED
  BY <1>1, <1>2

(* Counting a cancelled delivery brings the count up to what is recorded. *)
LEMMA CountCore ==
  ASSUME TypeOK, Core, NEW u \in Workers, CountCancelled(u)
  PROVE  Core'
<1> DEFINE x == worker[u].delivery
<1> USE DEF Closing
<1>0. /\ UNCHANGED <<hook, recorded, succeeded>>
      /\ \A w \in Workers : w # u => worker'[w] = worker[w]
      /\ worker[u].phase = "count" /\ worker'[u].phase = "finish"
      /\ worker'[u].delivery = x
      /\ worker'[u].attempt = worker[u].attempt /\ worker'[u].result = worker[u].result
      /\ x \in Deliveries /\ JobFits(u)
  BY JobColumns, Typed DEF CountCancelled, Goto, TypeOK, Core
<1>1. ASSUME NEW d \in Deliveries
      PROVE  DeliveryFits(d)'
  BY <1>0, <1>1, CountEffect, Typed DEF Core, DeliveryFits, JobFits
<1>2. ASSUME NEW w \in Workers
      PROVE  JobFits(w)'
  BY <1>0, <1>2, CountEffect, Typed DEF Core, JobFits
<1>3. ASSUME NEW v \in Workers, NEW w \in Workers
      PROVE  Exclusive(v, w)'
  BY <1>0, <1>3, CountEffect, Typed DEF Core, Exclusive
<1> QED
  BY <1>1, <1>2, <1>3 DEF Core

(* A handler that finishes is the only one to have recorded an attempt of the          *)
(* delivery, so the count it writes is one more than the last.                         *)
LEMMA FinishCore ==
  ASSUME TypeOK, Core, NEW u \in Workers, Finish(u)
  PROVE  Core'
<1> DEFINE x == worker[u].delivery
<1> USE DEF Closing
<1>0. /\ UNCHANGED <<hook, recorded, succeeded>>
      /\ \A w \in Workers : w # u => worker'[w] = worker[w]
      /\ worker[u].phase = "finish" /\ worker'[u].phase = "idle"
      /\ x \in Deliveries /\ JobFits(u)
  BY IdleColumns, Typed DEF Finish, Return, TypeOK, Core
<1>1. ASSUME NEW d \in Deliveries
      PROVE  DeliveryFits(d)'
  BY <1>0, <1>1, FinishEffect, Typed DEF Core, DeliveryFits, JobFits
<1>2. ASSUME NEW w \in Workers
      PROVE  JobFits(w)'
  BY <1>0, <1>2, FinishEffect, Typed DEF Core, JobFits, Exclusive
<1>3. ASSUME NEW v \in Workers, NEW w \in Workers
      PROVE  Exclusive(v, w)'
  BY <1>0, <1>3, FinishEffect, Typed DEF Core, Exclusive
<1> QED
  BY <1>1, <1>2, <1>3 DEF Core

-----------------------------------------------------------------------------
(* Every reachable state is typed, every delivery and every handler fits, and handlers *)
(* exclude each other once they have recorded an attempt.                              *)
THEOREM DeliveryInductive == Spec => [](TypeOK /\ Core)
<1>1. Init => TypeOK /\ Core
  <2> SUFFICES ASSUME Init
               PROVE  TypeOK /\ Core
    OBVIOUS
  <2>1. TypeOK
    BY DeliveryAssumption, IdleColumns DEF Init, TypeOK, HookRow, DeliveryRow, AbsentDelivery
  <2>2. \A d \in Deliveries : /\ delivery[d].status = "NONE" /\ delivery[d].attempts = 0
                             /\ recorded[d] = {} /\ succeeded[d] = {}
    BY DEF Init, AbsentDelivery
  <2>3. \A w \in Workers : worker[w].phase = "idle"
    BY IdleColumns DEF Init
  <2>4. ASSUME NEW d \in Deliveries
        PROVE  DeliveryFits(d)
    <3>1. {} = 1 .. 0
      OBVIOUS
    <3> QED
      BY <2>2, <2>4, <3>1 DEF DeliveryFits
  <2>5. \A w \in Workers : JobFits(w)
    BY <2>3 DEF JobFits
  <2>6. \A v, w \in Workers : Exclusive(v, w)
    BY <2>3 DEF Exclusive, Closing
  <2> QED
    BY <2>1, <2>4, <2>5, <2>6 DEF Core
<1>2. TypeOK /\ Core /\ [Next]_vars => (TypeOK /\ Core)'
  BY TypeStep, NextKinds, QuietCore, FanOutCore, RetireCore, RetryCore, LoadCore,
     SendOrFailCore, RecordCore, CountCore, FinishCore DEF Handler
<1> QED
  BY <1>1, <1>2, PTL DEF Spec

(* Every row, task and handler has the values its declaration allows.                  *)
THEOREM DeliveryTypeCorrect == Spec => []TypeOK
BY DeliveryInductive, PTL

(* No delivery of a deleted registration waits to be sent (retireWebhook,              *)
(* retryDelivery, publishOutbox, handleDelivery).                                      *)
THEOREM DeletedHooksQuiet == Spec => []DeletedHookQuiet
<1>1. Core => DeletedHookQuiet
  BY DEF Core, DeliveryFits, DeletedHookQuiet
<1> QED
  BY <1>1, DeliveryInductive, PTL

(* Attempts are numbered without gap and attempt_count is at most one behind           *)
(* (handleDelivery).                                                                   *)
THEOREM AttemptsHaveNoGap == Spec => []AttemptsGapless
<1>1. Core => AttemptsGapless
  BY DEF Core, DeliveryFits, AttemptsGapless
<1> QED
  BY <1>1, DeliveryInductive, PTL

(* DELIVERED and FAILED are what the last counted attempt recorded (handleDelivery).   *)
THEOREM OutcomesEvidenced == Spec => []OutcomeEvidenced
<1>1. Core => OutcomeEvidenced
  BY DEF Core, DeliveryFits, OutcomeEvidenced
<1> QED
  BY <1>1, DeliveryInductive, PTL

(* The outcomes of a deleted registration's deliveries never change                    *)
(* (webhook_deliveries.status).                                                        *)
THEOREM RetiredHistoryIsKept == Spec => RetiredHistoryKept
<1>1. ASSUME TypeOK, Core, [Next]_vars, NEW d \in Deliveries,
             delivery[d].status # "NONE", hook[delivery[d].hook].status = "DELETED"
      PROVE  delivery'[d].status = delivery[d].status
  <2>0. delivery[d].status # "PENDING"
    BY <1>1 DEF Core, DeliveryFits
  <2>1. CASE QuietStep
    BY <1>1, <2>1 DEF QuietStep, FlagsOnly
  <2>2. CASE FanOutStep
    BY <1>1, <2>2, FanOutEffect
  <2>3. CASE \E h \in Hooks : retireWebhook(h)
    BY <1>1, <2>0, <2>3, RetireEffect
  <2>4. CASE \E x \in Deliveries : retryDelivery(x)
    BY <1>1, <2>4, RetryEffect
  <2>5. ASSUME NEW w \in Workers,
               \/ \E x \in Deliveries : Load(w, x)
               \/ Send(w) \/ RecordAttempt(w) \/ HandlerFails(w)
        PROVE  delivery'[d].status = delivery[d].status
    BY <2>5 DEF Load, Send, RecordAttempt, HandlerFails
  <2>6. ASSUME NEW w \in Workers, CountCancelled(w) \/ Finish(w)
        PROVE  delivery'[d].status = delivery[d].status
    BY <1>1, <2>0, <2>6, CountEffect, FinishEffect
  <2> QED
    BY <1>1, <2>1, <2>2, <2>3, <2>4, <2>5, <2>6, NextKinds DEF Handler
<1>2. TypeOK /\ Core /\ [Next]_vars =>
        [\A d \in Deliveries :
           delivery[d].status # "NONE" /\ hook[delivery[d].hook].status = "DELETED"
             => delivery'[d].status = delivery[d].status]_vars
  BY <1>1
<1> QED
  BY <1>2, DeliveryInductive, PTL DEF Spec, RetiredHistoryKept
=============================================================================
