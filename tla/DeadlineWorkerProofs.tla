------------------------- MODULE DeadlineWorkerProofs -------------------------
(* Safety of DeadlineWorker for any number of orders and replicas, any batch size *)
(* and any number of faults: each order's events tell one story, and no order is  *)
(* claimed twice while leases last.                                               *)
EXTENDS DeadlineWorker, SequenceTheorems, TLAPS

-----------------------------------------------------------------------------
(* The inductive invariant *)

(* An order is overdue once, and only while it has a deadline. *)
DueFits ==
  /\ \A i, j \in DOMAIN overdue : overdue[i] = overdue[j] => i = j
  /\ \A o \in Orders : IsOverdue(o) => HasDeadline(o)

(* What has been recorded of an order on the way to its status. *)
ProgressEvents(s) ==
  CASE s = "PAID" -> <<"order.paid">>
    [] s = "PROCESSING" -> <<"order.paid", "order.processing">>
    [] s = "READY_TO_SHIP" -> <<"order.paid", "order.processing", "order.ready_to_ship">>
    [] OTHER -> << >>

(* ... and of a cancelled one, by a caller or by one of the deadlines. *)
CancelledByCaller ==
  { <<"order.cancelled">>, <<"order.paid", "order.cancelled">>,
    <<"order.paid", "order.processing", "order.cancelled">> }

CancelledBySLA ==
  { <<"order.paid", "order.sla_expired", "order.cancelled">>,
    <<"order.paid", "order.processing", "order.sla_expired", "order.cancelled">> }

Story(o, s, e) ==
  IF s = "CANCELLED"
  THEN \/ e \in CancelledByCaller
       \/ e = <<"order.payment_expired", "order.cancelled">>
       \/ e \in CancelledBySLA /\ o \in ShopeeOrders
  ELSE e = ProgressEvents(s)

StoryFits == \A o \in Orders : Story(o, status[o], events[o])

(* A replica has candidates only while it works on them, and each of them is leased
   unless its lease ran out meanwhile. *)
ClaimsFit ==
  /\ \A w \in Workers : batch[w] # {} => pc[w] = "process"
  /\ \A w \in Workers : batch[w] \subseteq leased \cup reclaimed
  /\ NoDuplicateClaims

Inv == TypeOK /\ DueFits /\ StoryFits /\ ClaimsFit

-----------------------------------------------------------------------------
(* The overdue orders *)

LEMMA RulesAre ==
  /\ Rules = {1, 2} /\ Len(deadlineRules) = 2
  /\ deadlineRules[1].reason = "order.payment_expired" /\ deadlineRules[1].statuses = {"UNPAID"}
  /\ deadlineRules[2].reason = "order.sla_expired"
  /\ deadlineRules[2].statuses = {"PAID", "PROCESSING"}
  BY DEF Rules, deadlineRules

(* Taking an order off the list takes that order off and no other. *)
LEMMA NoLongerDueIs ==
  ASSUME TypeOK, DueFits, NEW o \in Orders
  PROVE  /\ NoLongerDue(o) \in Seq(Orders)
         /\ \A i, j \in DOMAIN NoLongerDue(o) : NoLongerDue(o)[i] = NoLongerDue(o)[j] => i = j
         /\ \A i \in DOMAIN NoLongerDue(o) : NoLongerDue(o)[i] # o /\ IsOverdue(NoLongerDue(o)[i])
  <1> DEFINE n == Len(overdue)
             at == CHOOSE i \in DOMAIN overdue : overdue[i] = o
             rest == [i \in 1 .. n - 1 |-> overdue[IF i < at THEN i ELSE i + 1]]
  <1>1. /\ n \in Nat /\ DOMAIN overdue = 1 .. n
        /\ \A i \in 1 .. n : overdue[i] \in Orders
        /\ \A i, j \in 1 .. n : overdue[i] = overdue[j] => i = j
    BY DEF TypeOK, DueFits
  <1>2. CASE ~IsOverdue(o)
    <2>1. NoLongerDue(o) = overdue
      BY <1>2 DEF NoLongerDue
    <2> QED BY <1>1, <1>2, <2>1 DEF TypeOK, IsOverdue
  <1>3. CASE IsOverdue(o)
    <2>1. at \in 1 .. n /\ overdue[at] = o
      BY <1>1, <1>3 DEF IsOverdue
    <2>2. NoLongerDue(o) = rest
      BY <1>3 DEF NoLongerDue
    <2> HIDE DEF at
    <2>3. n - 1 \in Nat /\ DOMAIN rest = 1 .. n - 1
      BY <1>1, <2>1
    <2>4. \A i \in 1 .. n - 1 :
            LET k == IF i < at THEN i ELSE i + 1
            IN  k \in 1 .. n /\ k # at /\ rest[i] = overdue[k]
      BY <1>1, <2>1
    <2>5. \A i \in 1 .. n - 1 : rest[i] \in Orders /\ rest[i] # o /\ IsOverdue(rest[i])
      BY <1>1, <2>1, <2>4 DEF IsOverdue
    <2>6. \A i, j \in 1 .. n - 1 : rest[i] = rest[j] => i = j
      BY <1>1, <2>1, <2>4
    <2>7. rest \in Seq(Orders)
      BY <2>3, <2>5, IsASeq
    <2> HIDE DEF rest
    <2> QED BY <2>2, <2>3, <2>5, <2>6, <2>7
  <1> QED BY <1>2, <1>3

-----------------------------------------------------------------------------
(* Steps of the orders *)

LEMMA SameOrdersFit ==
  /\ DueFits /\ UNCHANGED <<status, overdue>> => DueFits'
  /\ StoryFits /\ UNCHANGED <<status, events>> => StoryFits'
  /\ ClaimsFit /\ UNCHANGED <<pc, batch, leased, reclaimed>> => ClaimsFit'
  <1>1. ASSUME DueFits, UNCHANGED <<status, overdue>> PROVE DueFits'
    BY <1>1 DEF DueFits, IsOverdue, HasDeadline
  <1>2. ASSUME StoryFits, UNCHANGED <<status, events>> PROVE StoryFits'
    BY <1>2 DEF StoryFits
  <1>3. ASSUME ClaimsFit, UNCHANGED <<pc, batch, leased, reclaimed>> PROVE ClaimsFit'
    BY <1>3 DEF ClaimsFit, NoDuplicateClaims
  <1> QED BY <1>1, <1>2, <1>3

(* An update of the status leaves no order overdue that has no deadline. *)
LEMMA MovedFits ==
  ASSUME TypeOK, DueFits, NEW o \in Orders, status[o] \notin Over,
         NEW target \in {Follows(status[o]), "CANCELLED"}, Moved(o, target)
  PROVE  /\ status' \in [Orders -> Statuses] /\ overdue' \in Seq(Orders)
         /\ behind' \in SUBSET Orders /\ DueFits'
  <1>1. status[o] \in {"UNPAID", "PAID", "PROCESSING"}
    BY DEF TypeOK, Statuses, Over
  <1>2. target \in {"PAID", "PROCESSING", "READY_TO_SHIP", "CANCELLED"}
    BY <1>1 DEF Follows
  <1>3. target = "PROCESSING" => status[o] = "PAID"
    BY <1>1 DEF Follows
  <1>4. status' = [status EXCEPT ![o] = target] /\ status' \in [Orders -> Statuses]
    BY <1>2 DEF Moved, TypeOK, Statuses
  <1>5. CASE target = "PROCESSING"
    <2>1. overdue' = overdue /\ behind' = behind
      BY <1>5 DEF Moved
    <2>2. \A p \in Orders : IsOverdue(p)' => HasDeadline(p)'
      BY <1>3, <1>4, <1>5, <2>1 DEF DueFits, IsOverdue, HasDeadline, TypeOK
    <2> QED BY <1>4, <2>1, <2>2 DEF DueFits, TypeOK
  <1>6. CASE target # "PROCESSING"
    <2>1. overdue' = NoLongerDue(o) /\ behind' = behind \ {o}
      BY <1>6 DEF Moved
    <2>2. \A p \in Orders : IsOverdue(p)' => p # o /\ IsOverdue(p)
      BY <2>1, NoLongerDueIs DEF IsOverdue
    <2>3. \A p \in Orders : IsOverdue(p)' => HasDeadline(p)'
      BY <1>4, <2>2 DEF DueFits, HasDeadline, TypeOK
    <2> QED BY <1>4, <2>1, <2>3, NoLongerDueIs DEF DueFits, TypeOK
  <1> QED BY <1>5, <1>6


(* Adding to a short list of events. *)
LEMMA AppendShort ==
  ASSUME NEW S, NEW a \in S, NEW b \in S, NEW c \in S
  PROVE  /\ Append(<< >>, a) = <<a>>
         /\ Append(<<a>>, b) = <<a, b>>
         /\ Append(<<a, b>>, c) = <<a, b, c>>
  <1>1. <<a>> \in Seq(S) /\ <<a, b>> \in Seq(S) /\ <<a, b, c>> \in Seq(S)
    OBVIOUS
  <1>2. /\ Append(<<a>>, b) \in Seq(S) /\ Len(Append(<<a>>, b)) = 2
        /\ \A i \in 1 .. 2 : Append(<<a>>, b)[i] = <<a, b>>[i]
    BY <1>1, AppendProperties
  <1>3. /\ Append(<<a, b>>, c) \in Seq(S) /\ Len(Append(<<a, b>>, c)) = 3
        /\ \A i \in 1 .. 3 : Append(<<a, b>>, c)[i] = <<a, b, c>>[i]
    BY <1>1, AppendProperties
  <1>4. Append(<<a>>, b) = <<a, b>>
    BY <1>1, <1>2, SeqEqual
  <1>5. Append(<<a, b>>, c) = <<a, b, c>>
    BY <1>1, <1>3, SeqEqual
  <1>6. Append(<< >>, a) = <<a>>
    OBVIOUS
  <1> QED BY <1>4, <1>5, <1>6

LEMMA ConcatShort ==
  ASSUME NEW a, NEW c, NEW d
  PROVE  /\ << >> \o <<c, d>> = <<c, d>>
         /\ <<a>> \o <<c, d>> = <<a, c, d>>
  <1> DEFINE S == {a, c, d}
  <1>1. <<a>> \in Seq(S) /\ <<c, d>> \in Seq(S) /\ <<a, c, d>> \in Seq(S)
    OBVIOUS
  <1>2. /\ <<a>> \o <<c, d>> \in Seq(S) /\ Len(<<a>> \o <<c, d>>) = 3
        /\ \A i \in 1 .. 3 : (<<a>> \o <<c, d>>)[i] = <<a, c, d>>[i]
    BY <1>1, ConcatProperties
  <1>3. <<a>> \o <<c, d>> = <<a, c, d>>
    BY <1>1, <1>2, SeqEqual
  <1>4. << >> \o <<c, d>> = <<c, d>>
    OBVIOUS
  <1> QED BY <1>3, <1>4

(* A lifecycle request continues the story of its order. *)
LEMMA TransitionContinues ==
  ASSUME NEW o \in Orders, NEW s \in {"UNPAID", "PAID", "PROCESSING"}, NEW e, Story(o, s, e),
         NEW target \in {Follows(s), "CANCELLED"}
  PROVE  /\ Story(o, target, Append(e, EventOf(target)))
         /\ EventOf(target) \in EventTypes
  <1>1. /\ EventOf("PAID") = "order.paid" /\ EventOf("PROCESSING") = "order.processing"
        /\ EventOf("READY_TO_SHIP") = "order.ready_to_ship"
        /\ EventOf("CANCELLED") = "order.cancelled"
        /\ Follows("UNPAID") = "PAID" /\ Follows("PAID") = "PROCESSING"
        /\ Follows("PROCESSING") = "READY_TO_SHIP"
    BY DEF EventOf, Follows
  <1>2. e = ProgressEvents(s)
    BY DEF Story
  <1>3. /\ {"order.paid", "order.processing", "order.ready_to_ship", "order.cancelled"}
             \subseteq EventTypes
        /\ target \in {"PAID", "PROCESSING", "READY_TO_SHIP", "CANCELLED"}
    BY <1>1 DEF EventTypes
  <1>4. CASE s = "UNPAID"
    <2>1. e = << >> /\ target \in {"PAID", "CANCELLED"}
      BY <1>1, <1>2, <1>4 DEF ProgressEvents
    <2>2. Append(e, "order.paid") = <<"order.paid">>
          /\ Append(e, "order.cancelled") = <<"order.cancelled">>
      BY <1>3, <2>1, AppendShort
    <2> QED BY <1>1, <1>3, <2>1, <2>2 DEF Story, ProgressEvents, CancelledByCaller
  <1>5. CASE s = "PAID"
    <2>1. e = <<"order.paid">> /\ target \in {"PROCESSING", "CANCELLED"}
      BY <1>1, <1>2, <1>5 DEF ProgressEvents
    <2>2. Append(e, "order.processing") = <<"order.paid", "order.processing">>
          /\ Append(e, "order.cancelled") = <<"order.paid", "order.cancelled">>
      BY <1>3, <2>1, AppendShort
    <2> QED BY <1>1, <1>3, <2>1, <2>2 DEF Story, ProgressEvents, CancelledByCaller
  <1>6. CASE s = "PROCESSING"
    <2>1. e = <<"order.paid", "order.processing">> /\ target \in {"READY_TO_SHIP", "CANCELLED"}
      BY <1>1, <1>2, <1>6 DEF ProgressEvents
    <2>2. /\ Append(e, "order.ready_to_ship") =
               <<"order.paid", "order.processing", "order.ready_to_ship">>
          /\ Append(e, "order.cancelled") =
               <<"order.paid", "order.processing", "order.cancelled">>
      BY <1>3, <2>1, AppendShort
    <2> QED BY <1>1, <1>3, <2>1, <2>2 DEF Story, ProgressEvents, CancelledByCaller
  <1> QED BY <1>4, <1>5, <1>6

(* ... and so does the deadline worker. *)
LEMMA CancelOverdueContinues ==
  ASSUME NEW o \in Orders, NEW r \in Rules, NEW s \in deadlineRules[r].statuses, NEW e,
         Story(o, s, e), r = 2 => o \in ShopeeOrders
  PROVE  /\ Story(o, "CANCELLED", e \o <<deadlineRules[r].reason, "order.cancelled">>)
         /\ deadlineRules[r].reason \in EventTypes /\ "order.cancelled" \in EventTypes
  <1>1. {"order.paid", "order.processing", "order.cancelled", "order.payment_expired",
         "order.sla_expired"} \subseteq EventTypes
    BY DEF EventTypes
  <1>2. \/ r = 1 /\ s = "UNPAID" /\ deadlineRules[r].reason = "order.payment_expired"
        \/ r = 2 /\ s = "PAID" /\ deadlineRules[r].reason = "order.sla_expired"
        \/ r = 2 /\ s = "PROCESSING" /\ deadlineRules[r].reason = "order.sla_expired"
    BY RulesAre
  <1>3. e = ProgressEvents(s)
    BY <1>2 DEF Story
  <1>4. CASE r = 1
    <2>1. e = << >>
      BY <1>2, <1>3, <1>4 DEF ProgressEvents
    <2>2. e \o <<"order.payment_expired", "order.cancelled">> =
            <<"order.payment_expired", "order.cancelled">>
      BY <1>1, <2>1, ConcatShort
    <2> QED BY <1>1, <1>2, <1>4, <2>2 DEF Story
  <1>5. CASE s = "PAID"
    <2>1. e = <<"order.paid">>
      BY <1>3, <1>5 DEF ProgressEvents
    <2>2. e \o <<"order.sla_expired", "order.cancelled">> =
            <<"order.paid", "order.sla_expired", "order.cancelled">>
      BY <1>1, <2>1, ConcatShort
    <2> QED BY <1>1, <1>2, <1>5, <2>2 DEF Story, CancelledBySLA
  <1>6. CASE s = "PROCESSING"
    <2>1. e = <<"order.paid", "order.processing">>
      BY <1>3, <1>6 DEF ProgressEvents
    <2> DEFINE h == <<"order.sla_expired", "order.cancelled">>
               g == <<"order.paid", "order.processing", "order.sla_expired", "order.cancelled">>
    <2>2. /\ e \in Seq(EventTypes) /\ h \in Seq(EventTypes) /\ g \in Seq(EventTypes)
          /\ Len(e) = 2 /\ Len(h) = 2 /\ Len(g) = 4
          /\ g[1] = e[1] /\ g[2] = e[2] /\ g[3] = h[1] /\ g[4] = h[2]
      BY <1>1, <2>1
    <2> HIDE DEF g, h
    <2>3. /\ e \o h \in Seq(EventTypes) /\ Len(e \o h) = Len(e) + Len(h)
          /\ \A i \in 1 .. Len(e) + Len(h) :
               (e \o h)[i] = IF i <= Len(e) THEN e[i] ELSE h[i - Len(e)]
      BY <2>2, ConcatProperties
    <2>4. \A i \in 1 .. 4 : (e \o h)[i] = g[i]
      BY <2>2, <2>3
    <2>5. e \o h = g
      BY <2>2, <2>3, <2>4, SeqEqual
    <2> USE DEF g, h
    <2> QED BY <1>1, <1>2, <1>6, <2>5 DEF Story, CancelledBySLA
  <1> QED BY <1>2, <1>4, <1>5, <1>6

LEMMA OrderStepKeepsInv ==
  ASSUME Inv, NEW o \in Orders, OrderStep(o)
  PROVE  Inv'
  <1>1. TypeOK /\ DueFits /\ StoryFits /\ ClaimsFit
    BY DEF Inv
  <1>2. CASE DeadlinePasses(o)
    <2>1. /\ HasDeadline(o) /\ ~IsOverdue(o) /\ overdue' = Append(overdue, o)
          /\ UNCHANGED <<status, leased, events, workerVars, reclaimed, faults>>
          /\ behind' \in SUBSET Orders
      BY <1>1, <1>2 DEF DeadlinePasses, TypeOK
    <2>2. TypeOK'
      BY <1>1, <2>1 DEF TypeOK, workerVars
    <2>3. DueFits'
      <3>1. /\ Len(overdue) \in Nat /\ DOMAIN overdue = 1 .. Len(overdue)
            /\ DOMAIN overdue' = 1 .. Len(overdue) + 1
            /\ \A i \in 1 .. Len(overdue) : overdue'[i] = overdue[i] /\ overdue[i] # o
            /\ overdue'[Len(overdue) + 1] = o
        BY <1>1, <2>1 DEF TypeOK, IsOverdue
      <3>2. \A i, j \in DOMAIN overdue' : overdue'[i] = overdue'[j] => i = j
        BY <1>1, <3>1 DEF DueFits
      <3>3. \A p \in Orders : IsOverdue(p)' => p = o \/ IsOverdue(p)
        BY <3>1 DEF IsOverdue
      <3>4. \A p \in Orders : HasDeadline(p)' <=> HasDeadline(p)
        BY <2>1 DEF HasDeadline
      <3> QED BY <1>1, <2>1, <3>2, <3>3, <3>4 DEF DueFits
    <2> QED BY <1>1, <2>1, <2>2, <2>3, SameOrdersFit DEF Inv, workerVars
  <1>3. CASE ClockCatchesUp(o)
    <2>1. TypeOK'
      BY <1>1, <1>3 DEF ClockCatchesUp, TypeOK, workerVars
    <2> QED BY <1>1, <1>3, <2>1, SameOrdersFit DEF ClockCatchesUp, Inv, workerVars
  <1>4. CASE LeaseExpires(o)
    <2>1. TypeOK'
      BY <1>1, <1>4 DEF LeaseExpires, TypeOK, workerVars
    <2>2. ClaimsFit'
      BY <1>1, <1>4 DEF LeaseExpires, ClaimsFit, NoDuplicateClaims, workerVars
    <2> QED BY <1>1, <1>4, <2>1, <2>2, SameOrdersFit DEF LeaseExpires, Inv, workerVars
  <1>5. CASE createSimulatedOrder(o)
    <2>1. /\ status[o] \in Over /\ \A w \in Workers : o \notin batch[w]
          /\ status' = [status EXCEPT ![o] = "UNPAID"] /\ events' = [events EXCEPT ![o] = << >>]
          /\ leased' = leased \ {o} /\ reclaimed' = reclaimed \ {o}
          /\ UNCHANGED <<overdue, behind, workerVars, faults>>
      BY <1>5 DEF createSimulatedOrder
    <2>2. TypeOK'
      BY <1>1, <2>1 DEF TypeOK, Statuses, workerVars
    <2>3. DueFits'
      BY <1>1, <2>1 DEF DueFits, TypeOK, IsOverdue, HasDeadline, Over
    <2>4. StoryFits'
      <3>1. Story(o, "UNPAID", << >>)
        BY DEF Story, ProgressEvents
      <3> QED BY <1>1, <2>1, <3>1 DEF StoryFits, TypeOK
    <2>5. ClaimsFit'
      BY <1>1, <2>1 DEF ClaimsFit, NoDuplicateClaims, workerVars, TypeOK
    <2> QED BY <2>2, <2>3, <2>4, <2>5 DEF Inv
  <1>6. CASE transition(o)
    <2>1. PICK target \in {Follows(status[o]), "CANCELLED"} :
            /\ Moved(o, target)
            /\ events' = [events EXCEPT ![o] = Append(events[o], EventOf(target))]
      BY <1>6 DEF transition
    <2>2. /\ status[o] \notin Over /\ UNCHANGED <<leased, workerVars, reclaimed, faults>>
          /\ status' = [status EXCEPT ![o] = target]
      BY <1>6, <2>1 DEF transition, Moved
    <2>3. status[o] \in {"UNPAID", "PAID", "PROCESSING"}
      BY <1>1, <2>2 DEF TypeOK, Statuses, Over
    <2>4. /\ Story(o, target, Append(events[o], EventOf(target)))
          /\ EventOf(target) \in EventTypes
      BY <1>1, <2>3, TransitionContinues DEF StoryFits
    <2>5. /\ status' \in [Orders -> Statuses] /\ overdue' \in Seq(Orders)
          /\ behind' \in SUBSET Orders /\ DueFits'
      BY <1>1, <2>1, <2>2, MovedFits
    <2>6. events' \in [Orders -> Seq(EventTypes)]
      BY <1>1, <2>1, <2>4 DEF TypeOK
    <2>7. TypeOK'
      BY <1>1, <2>2, <2>5, <2>6 DEF TypeOK, workerVars
    <2>8. StoryFits'
      BY <1>1, <2>1, <2>2, <2>4 DEF StoryFits, TypeOK
    <2> QED BY <1>1, <2>2, <2>5, <2>7, <2>8, SameOrdersFit DEF Inv, workerVars
  <1> QED BY <1>2, <1>3, <1>4, <1>5, <1>6 DEF OrderStep

-----------------------------------------------------------------------------
(* Steps of the replicas *)

(* A claim leases only orders that nobody has leased. *)
LEMMA ClaimSetUnleased ==
  ASSUME TypeOK, NEW r, NEW locked
  PROVE  ClaimSet(r, locked) \subseteq Orders \ leased
  <1>1. \A i \in Claimable(r, locked) : overdue[i] \in Orders \ leased
    BY DEF Claimable, TypeOK
  <1> QED BY <1>1 DEF ClaimSet

LEMMA NextRuleTyped ==
  ASSUME TypeOK, NEW w \in Workers, NextRule(w)
  PROVE  /\ rule' \in [Workers -> Rules]
         /\ pc' \in [Workers -> {"idle", "claim", "process", "down"}]
         /\ claimedAny' \in [Workers -> BOOLEAN]
         /\ \A v \in Workers : v # w => pc'[v] = pc[v]
  <1>1. /\ rule \in [Workers -> Rules] /\ claimedAny \in [Workers -> BOOLEAN]
        /\ pc \in [Workers -> {"idle", "claim", "process", "down"}]
    BY DEF TypeOK
  <1>2. CASE rule[w] < Len(deadlineRules)
    <2>1. /\ rule' = [rule EXCEPT ![w] = rule[w] + 1] /\ rule[w] + 1 \in Rules
          /\ pc' = [pc EXCEPT ![w] = "claim"] /\ UNCHANGED claimedAny
      BY <1>1, <1>2, RulesAre DEF NextRule
    <2> QED BY <1>1, <2>1
  <1>3. CASE ~(rule[w] < Len(deadlineRules))
    <2>1. /\ rule' = [rule EXCEPT ![w] = 1] /\ 1 \in Rules
          /\ pc' = [pc EXCEPT ![w] = IF claimedAny[w] THEN "claim" ELSE "idle"]
          /\ claimedAny' = [claimedAny EXCEPT ![w] = FALSE]
      BY <1>3, RulesAre DEF NextRule
    <2>2. rule' \in [Workers -> Rules]
      BY <1>1, <2>1
    <2>3. /\ pc' \in [Workers -> {"idle", "claim", "process", "down"}]
          /\ \A v \in Workers : v # w => pc'[v] = pc[v]
      BY <1>1, <2>1
    <2>4. claimedAny' \in [Workers -> BOOLEAN]
      BY <1>1, <2>1
    <2> QED BY <2>2, <2>3, <2>4
  <1> QED BY <1>2, <1>3

LEMMA ClaimKeepsInv ==
  ASSUME Inv, NEW w \in Workers, NEW locked, ClaimUnlocked(w, locked), faults' \in 0 .. MaxFaults
  PROVE  Inv'
  <1> DEFINE C == ClaimSet(rule[w], locked)
  <1>1. TypeOK /\ DueFits /\ StoryFits /\ ClaimsFit
    BY DEF Inv
  <1>2. /\ C \subseteq Orders \ leased /\ leased' = leased \cup C /\ pc[w] = "claim"
        /\ UNCHANGED <<status, overdue, behind, events, reclaimed>>
        /\ IF C = {} THEN NextRule(w) /\ UNCHANGED batch
           ELSE /\ pc' = [pc EXCEPT ![w] = "process"]
                /\ claimedAny' = [claimedAny EXCEPT ![w] = TRUE]
                /\ batch' = [batch EXCEPT ![w] = C]
                /\ UNCHANGED rule
    BY <1>1, ClaimSetUnleased DEF ClaimUnlocked
  <1> HIDE DEF C
  <1>3. batch[w] = {}
    BY <1>1, <1>2 DEF ClaimsFit
  <1>4. CASE C = {}
    <2>1. TypeOK'
      BY <1>1, <1>2, <1>4, NextRuleTyped DEF TypeOK
    <2>2. ClaimsFit'
      <3>1. \A v \in Workers : v # w => pc'[v] = pc[v]
        BY <1>1, <1>2, <1>4, NextRuleTyped
      <3> QED BY <1>1, <1>2, <1>3, <1>4, <3>1 DEF ClaimsFit, NoDuplicateClaims
    <2> QED BY <1>1, <1>2, <2>1, <2>2, SameOrdersFit DEF Inv
  <1>5. CASE C # {}
    <2>1. TypeOK'
      <3>1. /\ pc' \in [Workers -> {"idle", "claim", "process", "down"}]
            /\ claimedAny' \in [Workers -> BOOLEAN]
        BY <1>1, <1>2, <1>5 DEF TypeOK
      <3>2. batch' \in [Workers -> SUBSET Orders]
        BY <1>1, <1>2, <1>5 DEF TypeOK
      <3> QED BY <1>1, <1>2, <1>5, <3>1, <3>2 DEF TypeOK
    <2>2. ClaimsFit'
      <3>1. \A v \in Workers : /\ batch'[v] = IF v = w THEN C ELSE batch[v]
                               /\ pc'[v] = IF v = w THEN "process" ELSE pc[v]
        BY <1>1, <1>2, <1>5 DEF TypeOK
      <3>2. \A v \in Workers : batch[v] \cap C \subseteq reclaimed
        BY <1>1, <1>2 DEF ClaimsFit
      <3>3. \A v \in Workers : /\ batch'[v] # {} => pc'[v] = "process"
                               /\ batch'[v] \subseteq leased' \cup reclaimed'
        BY <1>1, <1>2, <3>1 DEF ClaimsFit
      <3>4. NoDuplicateClaims'
        BY <1>1, <1>2, <3>1, <3>2 DEF ClaimsFit, NoDuplicateClaims
      <3> QED BY <3>3, <3>4 DEF ClaimsFit
    <2> QED BY <1>1, <1>2, <2>1, <2>2, SameOrdersFit DEF Inv
  <1> QED BY <1>4, <1>5

LEMMA FaultTyped == ASSUME TypeOK, Fault PROVE faults' \in 0 .. MaxFaults
  BY DeadlineAssumption DEF TypeOK, Fault

(* A replica that goes on, stops or starts leaves the orders and their leases alone. *)
LEMMA IdleStepKeepsInv ==
  ASSUME Inv, NEW w \in Workers, Tick(w) \/ BatchDone(w) \/ Stop(w) \/ Start(w)
  PROVE  Inv'
  <1>1. TypeOK /\ DueFits /\ StoryFits /\ ClaimsFit
    BY DEF Inv
  <1>2. UNCHANGED <<orderVars, reclaimed>>
    BY DEF Tick, BatchDone, Stop, Start
  <1>3. CASE Tick(w) \/ Start(w)
    <2>1. TypeOK'
      BY <1>1, <1>3 DEF Tick, Start, TypeOK, orderVars
    <2>2. ClaimsFit'
      BY <1>1, <1>3 DEF Tick, Start, ClaimsFit, NoDuplicateClaims, TypeOK, orderVars
    <2> QED BY <1>1, <1>2, <2>1, <2>2, SameOrdersFit DEF Inv, orderVars
  <1>4. CASE BatchDone(w)
    <2>1. batch[w] = {} /\ NextRule(w) /\ UNCHANGED <<batch, faults>>
      BY <1>4 DEF BatchDone
    <2>2. TypeOK'
      BY <1>1, <1>2, <2>1, NextRuleTyped DEF TypeOK, orderVars
    <2>3. \A v \in Workers : v # w => pc'[v] = pc[v]
      BY <1>1, <2>1, NextRuleTyped
    <2>4. ClaimsFit'
      BY <1>1, <1>2, <2>1, <2>3 DEF ClaimsFit, NoDuplicateClaims, orderVars
    <2> QED BY <1>1, <1>2, <2>2, <2>4, SameOrdersFit DEF Inv, orderVars
  <1>5. CASE Stop(w)
    <2>1. /\ pc' = [pc EXCEPT ![w] = "down"] /\ rule' = [rule EXCEPT ![w] = 1]
          /\ claimedAny' = [claimedAny EXCEPT ![w] = FALSE]
          /\ batch' = [batch EXCEPT ![w] = {}] /\ 1 \in Rules
      BY <1>5, RulesAre DEF Stop
    <2>2. /\ pc' \in [Workers -> {"idle", "claim", "process", "down"}]
          /\ rule' \in [Workers -> Rules]
      BY <1>1, <2>1 DEF TypeOK
    <2>3. /\ claimedAny' \in [Workers -> BOOLEAN] /\ batch' \in [Workers -> SUBSET Orders]
      BY <1>1, <2>1 DEF TypeOK
    <2>4. TypeOK'
      BY <1>1, <1>2, <1>5, <2>2, <2>3, FaultTyped DEF Stop, TypeOK, orderVars
    <2>5. \A v \in Workers : IF v = w THEN batch'[v] = {}
                             ELSE batch'[v] = batch[v] /\ pc'[v] = pc[v]
      BY <1>1, <2>1 DEF TypeOK
    <2>6. ClaimsFit'
      BY <1>1, <1>2, <2>5 DEF ClaimsFit, NoDuplicateClaims, orderVars
    <2> QED BY <1>1, <1>2, <2>4, <2>6, SameOrdersFit DEF Inv, orderVars
  <1> QED BY <1>3, <1>4, <1>5

LEMMA ClaimFailsKeepsInv ==
  ASSUME Inv, NEW w \in Workers, ClaimFails(w)
  PROVE  Inv'
  <1>1. TypeOK /\ DueFits /\ StoryFits /\ ClaimsFit
    BY DEF Inv
  <1>2. /\ pc[w] = "claim" /\ pc' = [pc EXCEPT ![w] = "idle"]
        /\ rule' = [rule EXCEPT ![w] = 1] /\ 1 \in Rules
        /\ claimedAny' = [claimedAny EXCEPT ![w] = FALSE]
        /\ UNCHANGED <<status, overdue, behind, events, batch, reclaimed>>
    BY RulesAre DEF ClaimFails
  <1>3. leased \subseteq leased' /\ leased' \subseteq Orders
    BY <1>1, ClaimSetUnleased DEF ClaimFails, TypeOK
  <1>4. TypeOK'
    <2>1. /\ pc' \in [Workers -> {"idle", "claim", "process", "down"}]
          /\ rule' \in [Workers -> Rules]
      BY <1>1, <1>2 DEF TypeOK
    <2>2. claimedAny' \in [Workers -> BOOLEAN]
      BY <1>1, <1>2 DEF TypeOK
    <2>3. faults' \in 0 .. MaxFaults
      BY <1>1, FaultTyped DEF ClaimFails
    <2> QED BY <1>1, <1>2, <1>3, <2>1, <2>2, <2>3 DEF TypeOK
  <1>5. ClaimsFit'
    BY <1>1, <1>2, <1>3 DEF ClaimsFit, NoDuplicateClaims, TypeOK
  <1> QED BY <1>1, <1>2, <1>4, <1>5, SameOrdersFit DEF Inv

(* A candidate that has been dealt with is a candidate no longer. *)
LEMMA HandledFits ==
  ASSUME Inv, NEW w \in Workers, NEW o \in Orders, Handled(w, o),
         UNCHANGED <<pc, leased, reclaimed>>
  PROVE  batch' \in [Workers -> SUBSET Orders] /\ ClaimsFit'
  <1>1. TypeOK /\ ClaimsFit
    BY DEF Inv
  <1>2. batch' = [batch EXCEPT ![w] = batch[w] \ {o}]
    BY DEF Handled
  <1>3. batch' \in [Workers -> SUBSET Orders]
    BY <1>1, <1>2 DEF TypeOK
  <1>4. \A v \in Workers : batch'[v] \subseteq batch[v]
    BY <1>1, <1>2 DEF TypeOK
  <1>5. \A v \in Workers : batch'[v] # {} => batch[v] # {}
    BY <1>4
  <1> QED BY <1>1, <1>3, <1>4, <1>5 DEF ClaimsFit, NoDuplicateClaims

LEMMA CandidateStepKeepsInv ==
  ASSUME Inv, NEW w \in Workers, NEW o \in Orders, CancelOverdue(w, o) \/ CancelFails(w, o)
  PROVE  Inv'
  <1>1. TypeOK /\ DueFits /\ StoryFits /\ ClaimsFit
    BY DEF Inv
  <1>2. /\ Handled(w, o) /\ UNCHANGED <<leased, pc, rule, claimedAny, reclaimed>>
        /\ faults' \in 0 .. MaxFaults
    BY <1>1, FaultTyped DEF CancelOverdue, CancelFails, TypeOK, orderVars
  <1>3. batch' \in [Workers -> SUBSET Orders] /\ ClaimsFit'
    BY <1>2, HandledFits
  <1>4. CASE UNCHANGED <<status, overdue, behind, events>>
    <2>1. TypeOK'
      BY <1>1, <1>2, <1>3, <1>4 DEF TypeOK
    <2> QED BY <1>1, <1>3, <1>4, <2>1, SameOrdersFit DEF Inv
  <1>5. CASE /\ Eligible(w, o) /\ Moved(o, "CANCELLED")
             /\ events' = [events EXCEPT ![o] =
                  events[o] \o <<deadlineRules[rule[w]].reason, "order.cancelled">>]
    <2>1. /\ rule[w] \in Rules /\ status[o] \in deadlineRules[rule[w]].statuses
          /\ IsOverdue(o) /\ rule[w] \in {1, 2}
      BY <1>1, <1>5, RulesAre DEF Eligible, Passed, TypeOK
    <2>2. rule[w] = 2 => o \in ShopeeOrders
      BY <1>1, <2>1, RulesAre DEF DueFits, HasDeadline
    <2>3. status[o] \notin Over
      BY <2>1, RulesAre DEF Over
    <2>4. Story(o, status[o], events[o])
      BY <1>1 DEF StoryFits
    <2>5. LET e == events[o] \o <<deadlineRules[rule[w]].reason, "order.cancelled">>
          IN  Story(o, "CANCELLED", e) /\ e \in Seq(EventTypes)
      <3>1. /\ Story(o, "CANCELLED",
                     events[o] \o <<deadlineRules[rule[w]].reason, "order.cancelled">>)
            /\ deadlineRules[rule[w]].reason \in EventTypes /\ "order.cancelled" \in EventTypes
        BY <2>1, <2>2, <2>4, CancelOverdueContinues
      <3>2. <<deadlineRules[rule[w]].reason, "order.cancelled">> \in Seq(EventTypes)
        BY <3>1
      <3>3. events[o] \in Seq(EventTypes)
        BY <1>1 DEF TypeOK
      <3> QED BY <3>1, <3>2, <3>3, ConcatProperties
    <2>6. /\ status' \in [Orders -> Statuses] /\ overdue' \in Seq(Orders)
          /\ behind' \in SUBSET Orders /\ DueFits'
      BY <1>1, <1>5, <2>3, MovedFits
    <2>7. TypeOK'
      <3>1. events' \in [Orders -> Seq(EventTypes)]
        BY <1>1, <1>5, <2>5 DEF TypeOK
      <3> QED BY <1>1, <1>2, <1>3, <2>6, <3>1 DEF TypeOK
    <2>8. status' = [status EXCEPT ![o] = "CANCELLED"]
      BY <1>5 DEF Moved
    <2>9. StoryFits'
      BY <1>1, <1>5, <2>5, <2>8 DEF StoryFits, TypeOK
    <2> QED BY <1>3, <2>6, <2>7, <2>9 DEF Inv
  <1> QED BY <1>4, <1>5 DEF CancelOverdue, CancelFails, orderVars

-----------------------------------------------------------------------------
(* The invariant holds *)

LEMMA InitInv == Init => Inv
  <1> SUFFICES ASSUME Init PROVE Inv
    OBVIOUS
  <1>1. TypeOK
    BY DeadlineAssumption, RulesAre DEF Init, TypeOK, Statuses
  <1>2. DueFits
    BY DEF Init, DueFits, IsOverdue
  <1>3. StoryFits
    BY DEF Init, StoryFits, Story, ProgressEvents
  <1>4. ClaimsFit
    BY DEF Init, ClaimsFit, NoDuplicateClaims
  <1> QED BY <1>1, <1>2, <1>3, <1>4 DEF Inv

LEMMA NextInv == Inv /\ [Next]_vars => Inv'
  <1> SUFFICES ASSUME Inv, [Next]_vars PROVE Inv'
    OBVIOUS
  <1>1. ASSUME NEW o \in Orders, OrderStep(o) PROVE Inv'
    BY <1>1, OrderStepKeepsInv
  <1>2. ASSUME NEW w \in Workers, LoopStep(w) \/ Stop(w) PROVE Inv'
    <2>1. CASE claimDeadlineBatch(w)
      <3>1. ClaimUnlocked(w, {}) /\ faults' \in 0 .. MaxFaults
        BY <2>1 DEF claimDeadlineBatch, Inv, TypeOK
      <3> QED BY <3>1, ClaimKeepsInv
    <2> QED BY <1>2, <2>1, IdleStepKeepsInv DEF LoopStep
  <1>3. ASSUME NEW w \in Workers, ClaimSkips(w) PROVE Inv'
    <2>1. faults' \in 0 .. MaxFaults
      BY <1>3, FaultTyped DEF ClaimSkips, Inv
    <2>2. PICK locked \in SUBSET Orders : ClaimUnlocked(w, locked)
      BY <1>3 DEF ClaimSkips
    <2> QED BY <2>1, <2>2, ClaimKeepsInv
  <1>4. ASSUME NEW w \in Workers, ClaimFails(w) PROVE Inv'
    BY <1>4, ClaimFailsKeepsInv
  <1>5. ASSUME NEW w \in Workers, NEW o \in Orders, CancelOverdue(w, o) \/ CancelFails(w, o)
        PROVE  Inv'
    BY <1>5, CandidateStepKeepsInv
  <1>6. CASE UNCHANGED vars
    <2>1. TypeOK'
      BY <1>6 DEF Inv, TypeOK, vars, orderVars, workerVars
    <2> QED BY <1>6, <2>1, SameOrdersFit DEF Inv, vars, orderVars, workerVars
  <1> QED BY <1>1, <1>2, <1>3, <1>4, <1>5, <1>6 DEF Next

THEOREM InvHolds == Spec => []Inv
  BY InitInv, NextInv, PTL DEF Spec

-----------------------------------------------------------------------------
(* What the invariant says *)

Has(e, t) == \E i \in DOMAIN e : e[i] = t

(* OneStoryPerOrder, of one order. *)
OneStory(o, s, e) ==
  /\ \A i \in DOMAIN e :
       /\ e[i] = "order.cancelled" => i = Len(e)
       /\ e[i] \in {"order.payment_expired", "order.sla_expired"} => i + 1 = Len(e)
  /\ s = "CANCELLED" <=> Has(e, "order.cancelled")
  /\ ~(Has(e, "order.paid") /\ Has(e, "order.payment_expired"))
  /\ Has(e, "order.sla_expired") => Has(e, "order.paid") /\ o \in ShopeeOrders

(* The stories that Story admits are those that OneStoryPerOrder asks for. *)
LEMMA StoryIsOne ==
  ASSUME NEW o, NEW s \in Statuses, NEW e, Story(o, s, e)
  PROVE  OneStory(o, s, e)
  <1> USE DEF OneStory, Has
  <1>1. CASE s # "CANCELLED"
    <2>1. \/ e = << >> \/ e = <<"order.paid">> \/ e = <<"order.paid", "order.processing">>
          \/ e = <<"order.paid", "order.processing", "order.ready_to_ship">>
      BY <1>1 DEF Story, ProgressEvents, Statuses
    <2> QED BY <1>1, <2>1
  <1>2. CASE s = "CANCELLED" /\ e \in CancelledByCaller
    <2>1. CASE e = <<"order.cancelled">>
      BY <1>2, <2>1
    <2>2. CASE e = <<"order.paid", "order.cancelled">>
      BY <1>2, <2>2
    <2>3. CASE e = <<"order.paid", "order.processing", "order.cancelled">>
      BY <1>2, <2>3
    <2> QED BY <1>2, <2>1, <2>2, <2>3 DEF CancelledByCaller
  <1>3. CASE s = "CANCELLED" /\ e = <<"order.payment_expired", "order.cancelled">>
    BY <1>3
  <1>4. CASE s = "CANCELLED" /\ e \in CancelledBySLA /\ o \in ShopeeOrders
    <2>1. CASE e = <<"order.paid", "order.sla_expired", "order.cancelled">>
      BY <1>4, <2>1
    <2>2. CASE e = <<"order.paid", "order.processing", "order.sla_expired", "order.cancelled">>
      BY <1>4, <2>2
    <2> QED BY <1>4, <2>1, <2>2 DEF CancelledBySLA
  <1> QED BY <1>1, <1>2, <1>3, <1>4 DEF Story

LEMMA InvOneStory == Inv => OneStoryPerOrder
  <1> SUFFICES ASSUME Inv PROVE OneStoryPerOrder
    OBVIOUS
  <1>1. ASSUME NEW o \in Orders PROVE OneStory(o, status[o], events[o])
    BY StoryIsOne DEF Inv, TypeOK, StoryFits
  <1> QED BY <1>1 DEF OneStoryPerOrder, OneStory, Recorded, Has

(* Every variable of the worker and of its orders keeps its type. *)
THEOREM DeadlineTypeCorrect == Spec => []TypeOK
  BY InvHolds, PTL DEF Inv

(* However deadlines, replicas, crashes and API requests interleave, the events of each *)
(* order tell one story: CancelOverdue's revalidation under the row lock keeps stale    *)
(* candidates from cancelling twice or after the fact.                                  *)
THEOREM StoriesAreOne == Spec => []OneStoryPerOrder
  BY InvHolds, InvOneStory, PTL

(* The lease that claimQuery takes keeps every other replica off an order until the     *)
(* lease runs out under the replica that took it.                                       *)
THEOREM LeasesExclude == Spec => []NoDuplicateClaims
  BY InvHolds, PTL DEF Inv, ClaimsFit
=============================================================================
