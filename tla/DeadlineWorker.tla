--------------------------- MODULE DeadlineWorker ---------------------------
(* The deadline loop of the worker replicas: claim a batch of overdue orders under a *)
(* lease, cancel each of them in a transaction of its own, and go round the two      *)
(* rules until nothing is due.  The API keeps changing the same orders meanwhile.    *)
(* Instants are abstracted to what the queries compare: a deadline or a lease has    *)
(* passed or it has not, and the overdue orders are kept in the order in which their *)
(* deadlines passed, which is ORDER BY payment_expires_at / seller_deadline_at.      *)
EXTENDS Naturals, Sequences, FiniteSets

CONSTANTS
  Orders,               \* order slots: one whose order is over takes the next order
  ShopeeOrders,         \* the slots of SHOPEE_LIKE shops: only they get a seller deadline
  Workers,              \* replicas of the worker process
  DeadlineBatchSize,
  MaxFaults             \* bound on crashes, failed statements and claims that meet locked rows

ASSUME DeadlineAssumption ==
  /\ ShopeeOrders \subseteq Orders
  /\ IsFiniteSet(Orders)
  /\ DeadlineBatchSize \in Nat \ {0}
  /\ MaxFaults \in Nat

VARIABLES
  status,      \* orders.status; READY_TO_SHIP stands for it and everything after it
  overdue,     \* the orders whose current deadline has passed, earliest first
  behind,      \* ... by the database's clock but not yet by that of API and worker
  leased,      \* deadline_claimed_until > now()
  events,      \* what each order's transactions have recorded, oldest first
  pc,          \* where each replica's loop is
  rule,        \* the rule it is at, 1 or 2
  claimedAny,
  batch,       \* candidates it has claimed and not dealt with
  reclaimed,   \* ghost: orders whose lease ran out under the replica that claimed them
  faults

orderVars == <<status, overdue, behind, leased, events>>
workerVars == <<pc, rule, claimedAny, batch>>
vars == <<orderVars, workerVars, reclaimed, faults>>

Statuses == {"NONE", "UNPAID", "PAID", "PROCESSING", "READY_TO_SHIP", "CANCELLED"}
Over == {"NONE", "READY_TO_SHIP", "CANCELLED"}

(* The two rules, in the order in which the loop visits them. *)
deadlineRules ==
  << [reason |-> "order.payment_expired", statuses |-> {"UNPAID"}],
     [reason |-> "order.sla_expired", statuses |-> {"PAID", "PROCESSING"}] >>

Rules == DOMAIN deadlineRules

EventTypes == {"order.paid", "order.processing", "order.ready_to_ship", "order.cancelled",
               "order.payment_expired", "order.sla_expired"}

IsOverdue(o) == \E i \in DOMAIN overdue : overdue[i] = o

(* The overdue orders without o, which is among them at most once. *)
NoLongerDue(o) ==
  LET at == CHOOSE i \in DOMAIN overdue : overdue[i] = o
  IN  IF IsOverdue(o)
      THEN [i \in 1 .. Len(overdue) - 1 |-> overdue[IF i < at THEN i ELSE i + 1]]
      ELSE overdue

(* state.PaymentExpires / state.SellerDeadline is set and not after the process's clock *)
Passed(o) == IsOverdue(o) /\ o \notin behind

Init ==
  /\ status = [o \in Orders |-> "NONE"]
  /\ overdue = << >>
  /\ behind = {}
  /\ leased = {}
  /\ events = [o \in Orders |-> << >>]
  /\ pc = [w \in Workers |-> "idle"]
  /\ rule = [w \in Workers |-> 1]
  /\ claimedAny = [w \in Workers |-> FALSE]
  /\ batch = [w \in Workers |-> {}]
  /\ reclaimed = {}
  /\ faults = 0

Fault == faults < MaxFaults /\ faults' = faults + 1

-----------------------------------------------------------------------------
(* Time. *)

HasDeadline(o) ==
  \/ status[o] = "UNPAID"
  \/ status[o] \in {"PAID", "PROCESSING"} /\ o \in ShopeeOrders

(* A deadline passes; the clocks of API and worker may lag behind the database's. *)
DeadlinePasses(o) ==
  /\ HasDeadline(o)
  /\ ~IsOverdue(o)
  /\ overdue' = Append(overdue, o)
  /\ behind' \in {behind, behind \cup {o}}
  /\ UNCHANGED <<status, leased, events, workerVars, reclaimed, faults>>

ClockCatchesUp(o) ==
  /\ o \in behind
  /\ behind' = behind \ {o}
  /\ UNCHANGED <<status, overdue, leased, events, workerVars, reclaimed, faults>>

LeaseExpires(o) ==
  /\ o \in leased
  /\ leased' = leased \ {o}
  /\ reclaimed' = IF \E w \in Workers : o \in batch[w] THEN reclaimed \cup {o}
                                                              ELSE reclaimed
  /\ UNCHANGED <<status, overdue, behind, events, workerVars, faults>>

-----------------------------------------------------------------------------
(* The API. *)

(* A new order; the slot is free once nothing works on its last one. *)
createSimulatedOrder(o) ==
  /\ status[o] \in Over
  /\ \A w \in Workers : o \notin batch[w]
  /\ status' = [status EXCEPT ![o] = "UNPAID"]
  /\ events' = [events EXCEPT ![o] = << >>]
  /\ leased' = leased \ {o}
  /\ reclaimed' = reclaimed \ {o}
  /\ UNCHANGED <<overdue, behind, workerVars, faults>>

Follows(from) ==
  CASE from = "UNPAID" -> "PAID"
    [] from = "PAID" -> "PROCESSING"
    [] OTHER -> "READY_TO_SHIP"

EventOf(target) ==
  CASE target = "PAID" -> "order.paid"
    [] target = "PROCESSING" -> "order.processing"
    [] target = "READY_TO_SHIP" -> "order.ready_to_ship"
    [] OTHER -> "order.cancelled"

(* An UPDATE of the status: PAID sets a new deadline, the later ones keep theirs. *)
Moved(o, target) ==
  /\ status' = [status EXCEPT ![o] = target]
  /\ IF target = "PROCESSING" THEN UNCHANGED <<overdue, behind>>
     ELSE /\ overdue' = NoLongerDue(o)
          /\ behind' = behind \ {o}

(* A lifecycle request: advance the order, if a payment while it is in time, or cancel it. *)
transition(o) ==
  /\ status[o] \notin Over
  /\ \E target \in {Follows(status[o]), "CANCELLED"} :
       /\ target = "PAID" => ~Passed(o)
       /\ Moved(o, target)
       /\ events' = [events EXCEPT ![o] = Append(@, EventOf(target))]
  /\ UNCHANGED <<leased, workerVars, reclaimed, faults>>

-----------------------------------------------------------------------------
(* The deadline loop. *)

Tick(w) ==
  /\ pc[w] = "idle"
  /\ pc' = [pc EXCEPT ![w] = "claim"]
  /\ UNCHANGED <<orderVars, rule, claimedAny, batch, reclaimed, faults>>

(* Mutant: every success starts again with the first rule. *)
FirstRuleFirst(w) ==
  LET last == rule[w] = Len(deadlineRules)
  IN  /\ rule' = [rule EXCEPT ![w] = IF claimedAny[w] \/ last THEN 1 ELSE @ + 1]
      /\ pc' = [pc EXCEPT ![w] = IF ~claimedAny[w] /\ last THEN "idle" ELSE "claim"]
      /\ claimedAny' = [claimedAny EXCEPT ![w] = FALSE]

(* Mutant: the round does not end after the last rule. *)
NextRuleUnchecked(w) ==
  /\ rule' = [rule EXCEPT ![w] = @ + 1]
  /\ pc' = [pc EXCEPT ![w] = "claim"]
  /\ UNCHANGED claimedAny

(* On to the next rule, to another round, or back to the ticker; a round's locals *)
(* start afresh with it.                                                          *)
NextRule(w) ==
  IF rule[w] < Len(deadlineRules)
  THEN /\ rule' = [rule EXCEPT ![w] = @ + 1]
       /\ pc' = [pc EXCEPT ![w] = "claim"]
       /\ UNCHANGED claimedAny
  ELSE /\ rule' = [rule EXCEPT ![w] = 1]
       /\ pc' = [pc EXCEPT ![w] = IF claimedAny[w] THEN "claim" ELSE "idle"]
       /\ claimedAny' = [claimedAny EXCEPT ![w] = FALSE]

(* Mutant: the lease of another replica does not keep a row from being selected. *)
ClaimableIgnoringLease(r, locked) ==
  {i \in DOMAIN overdue : /\ status[overdue[i]] \in deadlineRules[r].statuses
                          /\ overdue[i] \notin locked}

(* The rows of claimQuery's WHERE that FOR UPDATE SKIP LOCKED does not skip. *)
Claimable(r, locked) ==
  {i \in DOMAIN overdue : /\ status[overdue[i]] \in deadlineRules[r].statuses
                          /\ overdue[i] \notin leased
                          /\ overdue[i] \notin locked}

(* ORDER BY ... LIMIT *)
ClaimSet(r, locked) ==
  LET C == Claimable(r, locked)
  IN  {overdue[i] : i \in {j \in C : Cardinality({k \in C : k < j}) < DeadlineBatchSize}}

ClaimUnlocked(w, locked) ==
  LET C == ClaimSet(rule[w], locked)
  IN  /\ pc[w] = "claim"
      /\ leased' = leased \cup C
      /\ IF C = {} THEN NextRule(w) /\ UNCHANGED batch
         ELSE /\ pc' = [pc EXCEPT ![w] = "process"]
              /\ claimedAny' = [claimedAny EXCEPT ![w] = TRUE]
              /\ batch' = [batch EXCEPT ![w] = C]
              /\ UNCHANGED rule
      /\ UNCHANGED <<status, overdue, behind, events, reclaimed>>

claimDeadlineBatch(w) == ClaimUnlocked(w, {}) /\ UNCHANGED faults

(* API transactions hold some of the rows at that moment, and the claim skips them. *)
ClaimSkips(w) == Fault /\ \E locked \in SUBSET Orders : ClaimUnlocked(w, locked)

(* The claim fails, in the database or while its rows are read, when the leases are *)
(* already taken: the round is over, the next tick tries again.                     *)
ClaimFails(w) ==
  /\ pc[w] = "claim"
  /\ pc' = [pc EXCEPT ![w] = "idle"]
  /\ rule' = [rule EXCEPT ![w] = 1]
  /\ claimedAny' = [claimedAny EXCEPT ![w] = FALSE]
  /\ leased' \in {leased, leased \cup ClaimSet(rule[w], {})}
  /\ Fault
  /\ UNCHANGED <<status, overdue, behind, events, batch, reclaimed>>

(* The batch's goroutines take the candidates in any order; each cancellation is one *)
(* transaction, so how many run at once makes no other outcome possible.             *)
Handled(w, o) ==
  /\ pc[w] = "process"
  /\ o \in batch[w]
  /\ batch' = [batch EXCEPT ![w] = @ \ {o}]

(* Mutant: the candidate is cancelled as it was claimed. *)
EligibleAsClaimed(w, o) == TRUE

(* What CancelOverdue revalidates under the row lock, for the reason it was claimed for. *)
Eligible(w, o) == status[o] \in deadlineRules[rule[w]].statuses /\ Passed(o)

CancelOverdue(w, o) ==
  /\ Handled(w, o)
  /\ \/ /\ Eligible(w, o)
        /\ Moved(o, "CANCELLED")
        /\ events' = [events EXCEPT ![o] =
             @ \o <<deadlineRules[rule[w]].reason, "order.cancelled">>]
     \/ ~Eligible(w, o) /\ UNCHANGED <<status, overdue, behind, events>>
  /\ UNCHANGED <<leased, pc, rule, claimedAny, reclaimed, faults>>

(* The transaction fails; the error is collected, the order stays as it was. *)
CancelFails(w, o) ==
  /\ Handled(w, o)
  /\ Fault
  /\ UNCHANGED <<orderVars, pc, rule, claimedAny, reclaimed>>

(* group.Wait() *)
BatchDone(w) ==
  /\ pc[w] = "process"
  /\ batch[w] = {}
  /\ NextRule(w)
  /\ UNCHANGED <<orderVars, batch, reclaimed, faults>>

(* The process dies or is told to stop: what it holds in memory is gone. *)
Stop(w) ==
  /\ pc[w] # "down"
  /\ pc' = [pc EXCEPT ![w] = "down"]
  /\ rule' = [rule EXCEPT ![w] = 1]
  /\ claimedAny' = [claimedAny EXCEPT ![w] = FALSE]
  /\ batch' = [batch EXCEPT ![w] = {}]
  /\ Fault
  /\ UNCHANGED <<orderVars, reclaimed>>

Start(w) ==
  /\ pc[w] = "down"
  /\ pc' = [pc EXCEPT ![w] = "idle"]
  /\ UNCHANGED <<orderVars, rule, claimedAny, batch, reclaimed, faults>>

-----------------------------------------------------------------------------
OrderStep(o) ==
  \/ DeadlinePasses(o) \/ ClockCatchesUp(o) \/ LeaseExpires(o)
  \/ createSimulatedOrder(o) \/ transition(o)

LoopStep(w) == Tick(w) \/ claimDeadlineBatch(w) \/ BatchDone(w) \/ Start(w)

Next ==
  \/ \E o \in Orders : OrderStep(o)
  \/ \E w \in Workers : LoopStep(w) \/ ClaimSkips(w) \/ ClaimFails(w) \/ Stop(w)
  \/ \E w \in Workers, o \in Orders : CancelOverdue(w, o) \/ CancelFails(w, o)

(* Time passes, the ticker ticks, goroutines run, processes restart. *)
Fairness ==
  /\ \A o \in Orders : /\ WF_vars(ClockCatchesUp(o))
                       /\ WF_vars(LeaseExpires(o))
  /\ \A w \in Workers : WF_vars(LoopStep(w))
  /\ \A w \in Workers, o \in Orders : WF_vars(CancelOverdue(w, o))

Spec == Init /\ [][Next]_vars /\ Fairness

-----------------------------------------------------------------------------
TypeOK ==
  /\ status \in [Orders -> Statuses]
  /\ overdue \in Seq(Orders)
  /\ behind \in SUBSET Orders
  /\ leased \in SUBSET Orders
  /\ events \in [Orders -> Seq(EventTypes)]
  /\ pc \in [Workers -> {"idle", "claim", "process", "down"}]
  /\ rule \in [Workers -> Rules]
  /\ claimedAny \in [Workers -> BOOLEAN]
  /\ batch \in [Workers -> SUBSET Orders]
  /\ reclaimed \in SUBSET Orders
  /\ faults \in 0 .. MaxFaults

Recorded(o, e) == \E i \in DOMAIN events[o] : events[o][i] = e

(* However many replicas hold the same stale candidate and however the API changes   *)
(* the order under them, its events tell one story: a cancellation is recorded once  *)
(* and last, the expiry that caused it directly before it, and a payment never goes  *)
(* with an expired payment.                                                          *)
OneStoryPerOrder ==
  \A o \in Orders :
    /\ \A i \in DOMAIN events[o] :
         /\ events[o][i] = "order.cancelled" => i = Len(events[o])
         /\ events[o][i] \in {"order.payment_expired", "order.sla_expired"}
              => i + 1 = Len(events[o])
    /\ status[o] = "CANCELLED" <=> Recorded(o, "order.cancelled")
    /\ ~(Recorded(o, "order.paid") /\ Recorded(o, "order.payment_expired"))
    /\ Recorded(o, "order.sla_expired") => Recorded(o, "order.paid") /\ o \in ShopeeOrders

(* Two replicas work on the same order only after a lease on it has run out: while   *)
(* leases last, no order is claimed twice.                                           *)
NoDuplicateClaims ==
  \A v, w \in Workers : \A o \in batch[v] \cap batch[w] : v = w \/ o \in reclaimed

(* No claim strands an order and no rule starves the other: whatever crashes, fails, *)
(* is locked or keeps arriving, an order past its deadline does not stay as it is.   *)
OverdueOrdersEnd == \A o \in Orders : IsOverdue(o) ~> ~IsOverdue(o)
=============================================================================
