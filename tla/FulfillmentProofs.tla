-------------------------- MODULE FulfillmentProofs --------------------------
(***************************************************************************)
(* Fulfillment for every set of orders, lines, products, packages and      *)
(* warehouses and for every duration: type correctness, the kinds of step  *)
(* its next-state relation has, and on both its safety: stock is never     *)
(* promised twice, and order, payment, reservation and parcel rows agree   *)
(* after every transaction.                                                *)
(***************************************************************************)
EXTENDS Fulfillment, FiniteSetTheorems, TLAPS

-----------------------------------------------------------------------------
(* Sums *)

(* A sum over finitely many rows is a natural number. *)
LEMMA TotalType ==
  ASSUME NEW q, IsFiniteSet(DOMAIN q)
  PROVE  Total(q) \in Nat
  <1>1. IsFiniteSet(1 .. MaxQuantity)
    BY QuantityAssumption, FS_Interval
  <1>2. IsFiniteSet((DOMAIN q) \X (1 .. MaxQuantity))
    BY <1>1, FS_Product
  <1>3. Units(q) \in SUBSET ((DOMAIN q) \X (1 .. MaxQuantity))
    BY DEF Units
  <1>4. IsFiniteSet(Units(q))
    BY <1>2, <1>3, FS_Subset
  <1> QED BY <1>4, FS_CardinalityType DEF Total

(* Every request has finitely many lines, so what it needs is a number. *)
LEMMA NeedType ==
  ASSUME NEW want \in Requests
  PROVE  aggregateRequiredQuantity(want) \in [Products -> Nat]
  <1>1. DOMAIN want \in SUBSET Lines
    BY DEF Requests
  <1> SUFFICES ASSUME NEW p \in Products
      PROVE Total([l \in {m \in DOMAIN want : want[m].product = p} |-> want[l].qty]) \in Nat
    BY DEF aggregateRequiredQuantity
  <1>2. IsFiniteSet({m \in DOMAIN want : want[m].product = p})
    BY <1>1, FiniteAssumption, FS_Subset
  <1> QED BY <1>2, TotalType

LEMMA HeldType ==
  ASSUME NEW o, NEW p
  PROVE  Held(o, p) \in Nat
  <1>1. IsFiniteSet(HeldLines(o, p))
    BY FiniteAssumption, FS_Subset DEF HeldLines
  <1> QED BY <1>1, TotalType DEF Held

LEMMA ShippedType ==
  ASSUME NEW k, NEW p
  PROVE  Shipped(k, p) \in Nat
  <1>1. IsFiniteSet({m \in PackedLines(k) : res[pkg[k].order][m].product = p})
    BY FiniteAssumption, FS_Subset DEF PackedLines
  <1> QED BY <1>1, TotalType DEF Shipped

LEMMA RemainingType ==
  ASSUME RowsTyped, NEW o \in Orders, NEW l \in Lines
  PROVE  Remaining(o, l) \in Int
  <1>1. IsFiniteSet({j \in Packages : pkg[j].order = o})
    BY FiniteAssumption, FS_Subset
  <1>2. Total([k \in {j \in Packages : pkg[j].order = o} |-> content[k][l]]) \in Nat
    BY <1>1, TotalType
  <1>3. res[o][l].qty \in Int
    BY QuantityAssumption DEF RowsTyped, ReservationRow, Quantity
  <1> QED BY <1>2, <1>3 DEF Remaining

-----------------------------------------------------------------------------
(* Types *)

LEMMA NewRowType ==
  ASSUME now \in Nat, NEW w \in Warehouses
  PROVE  NewOrder(w) \in OrderRow
  <1>1. now + PaymentExpiry \in Time
    BY TimeAssumption DEF Time
  <1>2. NoTime \in Time
    BY DEF Time
  <1> QED BY <1>1, <1>2 DEF NewOrder, AbsentOrder, OrderRow, OrderStatus, PaymentStatus

LEMMA AdvancedRowType ==
  ASSUME now \in Nat, NEW row \in OrderRow, NEW target \in OrderStatus
  PROVE  AdvancedRow(row, target) \in OrderRow
  <1>1. now + SellerSLA \in Time
    BY TimeAssumption DEF Time
  <1>2. "PAID" \in PaymentStatus
    BY DEF PaymentStatus
  <1> QED BY <1>1, <1>2 DEF AdvancedRow, OrderRow

LEMMA CancelledRowType ==
  ASSUME NEW row \in OrderRow, NEW actor \in Actors, NEW reason \in Reasons,
         NEW payment \in PaymentStatus
  PROVE  CancelledRow(row, actor, reason, payment) \in OrderRow
  BY DEF CancelledRow, OrderRow, OrderStatus

LEMMA AbsentReservationType == AbsentReservation \in ReservationRow
  BY QuantityAssumption DEF AbsentReservation, ReservationRow, Quantity

LEMMA CommittedRowType ==
  ASSUME NEW row \in ReservationRow
  PROVE  CommittedRow(row) \in ReservationRow
  BY DEF CommittedRow, ReservationRow

LEMMA ReleasedRowType ==
  ASSUME NEW row \in ReservationRow
  PROVE  ReleasedRow(row) \in ReservationRow
  BY DEF ReleasedRow, ReservationRow

LEMMA FulfilledRowType ==
  ASSUME NEW row \in ReservationRow, NEW n \in Nat
  PROVE  FulfilledRow(row, n) \in ReservationRow
  <1> DEFINE sum == row.fulfilled + n
             status == IF sum = row.qty THEN "FULFILLED" ELSE row.status
  <1>1. sum \in Nat
    BY DEF ReservationRow
  <1>2. status \in {"NONE", "ACTIVE", "COMMITTED", "RELEASED", "FULFILLED"}
    BY DEF ReservationRow
  <1>3. FulfilledRow(row, n) = [row EXCEPT !.fulfilled = sum, !.status = status]
    BY DEF FulfilledRow
  <1> HIDE DEF sum, status
  <1> QED BY <1>1, <1>2, <1>3 DEF ReservationRow

LEMMA ReservedRowType ==
  ASSUME NEW want \in Requests, NEW l \in DOMAIN want
  PROVE  ReservedRow(want[l]) \in ReservationRow
  <1>1. want[l] \in [product : Products, qty : LineQuantities]
    BY DEF Requests
  <1>2. LineQuantities \subseteq Quantity
    BY QuantityAssumption DEF Quantity
  <1> QED BY <1>1, <1>2 DEF ReservedRow, ReservationRow

(* A product's stock column may be set to any number. *)
LEMMA StockType ==
  ASSUME NEW row \in ProductRow, NEW n \in Int
  PROVE  /\ [row EXCEPT !.stock = n] \in ProductRow
         /\ row.stock \in Int
  BY DEF ProductRow

-----------------------------------------------------------------------------
(* A reservation step of the order handlers writes typed rows. *)
LEMMA AllocateType ==
  ASSUME RowsTyped, NEW o \in Orders, NEW want \in Requests, NEW w \in Warehouses,
         Allocate(o, want, w)
  PROVE  /\ reserved' \in [Warehouses -> [Products -> Int]]
         /\ onHand' \in [Warehouses -> [Products -> Int]]
         /\ product' \in [Products -> ProductRow]
         /\ res' \in [Orders -> [Lines -> ReservationRow]]
  <1> DEFINE need == aggregateRequiredQuantity(want)
  <1>1. need \in [Products -> Nat]
    BY NeedType
  <1>2. /\ reserved' = [reserved EXCEPT ![w] = [p \in Products |-> reserved[w][p] + need[p]]]
        /\ product' = [p \in Products |->
                         [product[p] EXCEPT !.stock = product[p].stock - need[p]]]
        /\ onHand' = onHand
    BY DEF Allocate
  <1> HIDE DEF need
  <1>3. [p \in Products |-> reserved[w][p] + need[p]] \in [Products -> Int]
    BY <1>1 DEF RowsTyped
  <1>4. \A p \in Products :
          [product[p] EXCEPT !.stock = product[p].stock - need[p]] \in ProductRow
    <2> SUFFICES ASSUME NEW p \in Products
                 PROVE  [product[p] EXCEPT !.stock = product[p].stock - need[p]] \in ProductRow
      OBVIOUS
    <2>1. product[p] \in ProductRow
      BY DEF RowsTyped
    <2>2. product[p].stock - need[p] \in Int
      BY <1>1, <2>1 DEF ProductRow
    <2> QED BY <2>1, <2>2, StockType
  <1>5. res' \in [Orders -> [Lines -> ReservationRow]]
    BY ReservedRowType, AbsentReservationType DEF Allocate, RowsTyped
  <1> QED BY <1>2, <1>3, <1>4, <1>5 DEF RowsTyped

LEMMA ReleaseType ==
  ASSUME RowsTyped, NEW o \in Orders, Release(o)
  PROVE  /\ reserved' \in [Warehouses -> [Products -> Int]]
         /\ onHand' \in [Warehouses -> [Products -> Int]]
         /\ product' \in [Products -> ProductRow]
         /\ res' \in [Orders -> [Lines -> ReservationRow]]
  <1> DEFINE w == order[o].warehouse
             held == [p \in Products |-> Held(o, p)]
  <1>1. held \in [Products -> Nat]
    BY HeldType
  <1>2. /\ reserved' = [reserved EXCEPT ![w] = [p \in Products |-> reserved[w][p] - held[p]]]
        /\ product' = [p \in Products |->
                         [product[p] EXCEPT !.stock = product[p].stock + held[p]]]
        /\ onHand' = onHand
    BY DEF Release
  <1> HIDE DEF held, w
  <1>3. w \in Warehouses => [p \in Products |-> reserved[w][p] - held[p]] \in [Products -> Int]
    BY <1>1 DEF RowsTyped
  <1>4. \A p \in Products :
          [product[p] EXCEPT !.stock = product[p].stock + held[p]] \in ProductRow
    <2> SUFFICES ASSUME NEW p \in Products
                 PROVE  [product[p] EXCEPT !.stock = product[p].stock + held[p]] \in ProductRow
      OBVIOUS
    <2>1. product[p] \in ProductRow
      BY DEF RowsTyped
    <2>2. product[p].stock + held[p] \in Int
      BY <1>1, <2>1 DEF ProductRow
    <2> QED BY <2>1, <2>2, StockType
  <1>5. res' \in [Orders -> [Lines -> ReservationRow]]
    BY ReleasedRowType DEF Release, RowsTyped
  <1> QED BY <1>2, <1>3, <1>4, <1>5 DEF RowsTyped

LEMMA FulfillType ==
  ASSUME RowsTyped, NEW k \in Packages, pkg[k].order \in Orders, FulfillPackage(k)
  PROVE  /\ reserved' \in [Warehouses -> [Products -> Int]]
         /\ onHand' \in [Warehouses -> [Products -> Int]]
         /\ res' \in [Orders -> [Lines -> ReservationRow]]
  <1> DEFINE o == pkg[k].order
             w == order[o].warehouse
             out == [p \in Products |-> Shipped(k, p)]
  <1>1. out \in [Products -> Nat]
    BY ShippedType
  <1>2. /\ reserved' = [reserved EXCEPT ![w] = [p \in Products |-> reserved[w][p] - out[p]]]
        /\ onHand' = [onHand EXCEPT ![w] = [p \in Products |-> onHand[w][p] - out[p]]]
        /\ res' = [res EXCEPT ![o] =
             [l \in Lines |-> IF l \in PackedLines(k)
                              THEN FulfilledRow(res[o][l], content[k][l]) ELSE res[o][l]]]
    BY DEF FulfillPackage
  <1>3. \A l \in PackedLines(k) : FulfilledRow(res[o][l], content[k][l]) \in ReservationRow
    <2> SUFFICES ASSUME NEW l \in PackedLines(k)
                 PROVE  FulfilledRow(res[o][l], content[k][l]) \in ReservationRow
      OBVIOUS
    <2>1. l \in Lines /\ content[k][l] \in Nat
      BY DEF PackedLines, RowsTyped
    <2>2. res[o][l] \in ReservationRow
      BY <2>1 DEF RowsTyped
    <2> QED BY <2>1, <2>2, FulfilledRowType
  <1> HIDE DEF out, w, o
  <1>4. w \in Warehouses =>
          /\ [p \in Products |-> reserved[w][p] - out[p]] \in [Products -> Int]
          /\ [p \in Products |-> onHand[w][p] - out[p]] \in [Products -> Int]
    BY <1>1 DEF RowsTyped
  <1>5. res' \in [Orders -> [Lines -> ReservationRow]]
    BY <1>2, <1>3 DEF RowsTyped
  <1> QED BY <1>2, <1>4, <1>5 DEF RowsTyped

-----------------------------------------------------------------------------
(* The type invariant, action by action. *)

LEMMA CreateOrderType ==
  ASSUME RowsTyped, NEW o \in Orders, NEW want \in Requests, createSimulatedOrder(o, want)
  PROVE  RowsTyped'
  <1>1. PICK w \in Warehouses :
          Allocate(o, want, w) /\ order' = [order EXCEPT ![o] = NewOrder(w)]
    BY DEF createSimulatedOrder
  <1>2. UNCHANGED <<now, provider, warehouse, pkg, content>>
    BY DEF createSimulatedOrder, parcelVars
  <1>3. order' \in [Orders -> OrderRow]
    BY <1>1, NewRowType DEF RowsTyped
  <1> QED BY <1>1, <1>2, <1>3, AllocateType DEF RowsTyped

LEMMA TransitionType ==
  ASSUME RowsTyped, NEW o \in Orders, NEW target \in RequestedTargets, Transition(o, target)
  PROVE  RowsTyped'
  <1>1. UNCHANGED <<now, provider, warehouse, product, onHand, reserved, pkg, content>>
    BY DEF Transition, stockVars, parcelVars
  <1>2. target \in OrderStatus
    BY DEF RequestedTargets, OrderStatus
  <1>3. order' \in [Orders -> OrderRow]
    BY <1>2, AdvancedRowType DEF Transition, Advance, RowsTyped
  <1>4. res' \in [Orders -> [Lines -> ReservationRow]]
    BY CommittedRowType DEF Transition, Commit, RowsTyped
  <1> QED BY <1>1, <1>3, <1>4 DEF RowsTyped

(* What Cancel, failPayment and CancelOverdue have in common. *)
Cancellation(o, actor, reason, payment) ==
  /\ MarkCancelled(o, actor, reason, payment)
  /\ Release(o)
  /\ UNCHANGED <<now, provider, warehouse, parcelVars>>

(* The events of a cancellation: itself and perhaps what caused it. *)
CancellationCauses == {"order.payment_failed", "order.payment_expired", "order.sla_expired"}
CancellationRecorded(o) ==
  \E causes \in SUBSET CancellationCauses : Record(o, causes \cup {"order.cancelled"})

LEMMA RecordsCancellation ==
  ASSUME NEW o,
         \/ Record(o, {"order.cancelled"})
         \/ Record(o, {"order.payment_failed", "order.cancelled"})
         \/ \E reason \in Reasons : Record(o, OverdueEvents(reason))
  PROVE  CancellationRecorded(o)
  <1>0. ASSUME NEW c \in CancellationCauses, Record(o, {c, "order.cancelled"})
        PROVE  CancellationRecorded(o)
    <2>1. {c} \in SUBSET CancellationCauses /\ {c} \cup {"order.cancelled"} = {c, "order.cancelled"}
      OBVIOUS
    <2>2. Record(o, {c} \cup {"order.cancelled"})
      BY <1>0, <2>1, Zenon
    <2> QED BY <2>1, <2>2, Zenon DEF CancellationRecorded
  <1>1. CASE Record(o, {"order.cancelled"})
    <2>1. {} \cup {"order.cancelled"} = {"order.cancelled"}
      OBVIOUS
    <2>2. Record(o, {} \cup {"order.cancelled"})
      BY <1>1, <2>1, Zenon
    <2>3. {} \in SUBSET CancellationCauses
      OBVIOUS
    <2> QED BY <2>2, <2>3, Zenon DEF CancellationRecorded
  <1>2. CASE Record(o, {"order.payment_failed", "order.cancelled"})
    BY <1>0, <1>2 DEF CancellationCauses
  <1>3. ASSUME NEW reason \in Reasons, Record(o, OverdueEvents(reason))
        PROVE  CancellationRecorded(o)
    <2>1. CASE reason = "PAYMENT_EXPIRED"
      <3>1. OverdueEvents(reason) = {"order.payment_expired", "order.cancelled"}
        BY <2>1 DEF OverdueEvents
      <3> QED BY <1>0, <1>3, <3>1 DEF CancellationCauses
    <2>2. CASE reason # "PAYMENT_EXPIRED"
      <3>1. OverdueEvents(reason) = {"order.sla_expired", "order.cancelled"}
        BY <2>2 DEF OverdueEvents
      <3> QED BY <1>0, <1>3, <3>1 DEF CancellationCauses
    <2> QED BY <2>1, <2>2
  <1> QED BY <1>1, <1>2, <1>3

(* Who cancels, why, from which status and with which payment outcome. *)
CancelStep(o, actor, reason, payment) ==
  /\ Cancellation(o, actor, reason, payment)
  /\ CancellationRecorded(o)
  /\ ValidCancellationReason(actor, reason)
  /\ \/ /\ actor # "SYSTEM" /\ payment = order[o].payment
        /\ order[o].status # "NONE"
        /\ CanCancel(provider, order[o].status, actor)
     \/ /\ actor = "SYSTEM" /\ reason = "PAYMENT_FAILED" /\ payment = "FAILED"
        /\ order[o].status = "UNPAID"
     \/ /\ actor = "SYSTEM" /\ reason = "PAYMENT_EXPIRED" /\ payment = "EXPIRED"
        /\ order[o].status = "UNPAID"
     \/ /\ actor = "SYSTEM" /\ reason = "SELLER_SLA_EXPIRED"
        /\ payment = order[o].payment
        /\ order[o].status \in {"PAID", "PROCESSING"}

(* The three handlers that cancel, each with the audit columns it writes. *)
LEMMA CancellationCases ==
  ASSUME RowsTyped, NEW o \in Orders,
         \/ \E actor \in {"CUSTOMER", "SELLER"}, reason \in RequestReasons :
              Cancel(o, actor, reason)
         \/ failPayment(o)
         \/ \E reason \in Reasons : CancelOverdue(o, reason)
  PROVE  \E actor \in Actors, reason \in Reasons, payment \in PaymentStatus :
           CancelStep(o, actor, reason, payment)
  <1> USE DEF CancelStep
  <1>0. order[o].payment \in PaymentStatus
    BY DEF RowsTyped, OrderRow
  <1> DEFINE System == {"PAYMENT_FAILED", "PAYMENT_EXPIRED", "SELLER_SLA_EXPIRED"}
  <1>1. \A r \in System : r \in Reasons /\ ValidCancellationReason("SYSTEM", r)
    BY DEF Reasons, CancellationReasons, ValidCancellationReason, Actors
  <1>2. "SYSTEM" \in Actors /\ "FAILED" \in PaymentStatus /\ "EXPIRED" \in PaymentStatus
    BY DEF Actors, PaymentStatus
  <1>3. ASSUME NEW actor \in {"CUSTOMER", "SELLER"}, NEW reason \in RequestReasons,
               Cancel(o, actor, reason)
        PROVE  /\ Cancellation(o, actor, reason, order[o].payment)
               /\ ValidCancellationReason(actor, reason)
               /\ actor # "SYSTEM" /\ actor \in Actors /\ reason \in Reasons
               /\ order[o].status # "NONE"
               /\ CanCancel(provider, order[o].status, actor)
               /\ CancellationRecorded(o)
    BY <1>3, ReasonAssumption, RecordsCancellation DEF Cancel, Cancellation, Actors
  <1>4. CASE failPayment(o)
    <2>1. /\ Cancellation(o, "SYSTEM", "PAYMENT_FAILED", "FAILED")
          /\ order[o].status = "UNPAID"
          /\ CancellationRecorded(o)
      BY <1>4, RecordsCancellation DEF failPayment, Cancellation
    <2> QED BY <1>1, <1>2, <2>1
  <1>5. ASSUME NEW reason \in Reasons, CancelOverdue(o, reason)
        PROVE  /\ Cancellation(o, "SYSTEM", reason, OverduePayment(reason, order[o].payment))
               /\ Overdue(o, reason)
               /\ CancellationRecorded(o)
    BY <1>5, RecordsCancellation DEF CancelOverdue, Cancellation
  <1>6. ASSUME NEW reason \in Reasons, Overdue(o, reason), reason = "PAYMENT_EXPIRED"
        PROVE  OverduePayment(reason, order[o].payment) = "EXPIRED"
               /\ order[o].status = "UNPAID"
    BY <1>6 DEF Overdue, OverduePayment
  <1>7. ASSUME NEW reason \in Reasons, Overdue(o, reason), reason # "PAYMENT_EXPIRED"
        PROVE  /\ reason = "SELLER_SLA_EXPIRED"
               /\ OverduePayment(reason, order[o].payment) = order[o].payment
               /\ order[o].status \in {"PAID", "PROCESSING"}
    BY <1>7 DEF Overdue, OverduePayment
  <1>8. CASE \E reason \in Reasons : CancelOverdue(o, reason)
    <2>1. PICK reason \in Reasons : CancelOverdue(o, reason)
      BY <1>8
    <2>2. CASE reason = "PAYMENT_EXPIRED"
      BY <1>1, <1>2, <1>5, <1>6, <2>1, <2>2
    <2>3. CASE reason # "PAYMENT_EXPIRED"
      BY <1>0, <1>1, <1>2, <1>5, <1>7, <2>1, <2>3
    <2> QED BY <2>2, <2>3
  <1> QED BY <1>0, <1>3, <1>4, <1>8

LEMMA CancellationType ==
  ASSUME RowsTyped, NEW o \in Orders, NEW actor \in Actors, NEW reason \in Reasons,
         NEW payment \in PaymentStatus, Cancellation(o, actor, reason, payment)
  PROVE  RowsTyped'
  <1>1. UNCHANGED <<now, provider, warehouse, pkg, content>>
    BY DEF Cancellation, parcelVars
  <1>2. order' \in [Orders -> OrderRow]
    BY CancelledRowType DEF Cancellation, MarkCancelled, RowsTyped
  <1> QED BY <1>1, <1>2, ReleaseType DEF Cancellation, RowsTyped

(* A new package, or a shipment for an old one. *)
PackageStep(o, k) ==
  \/ shipExistingPackage(o, k)
  \/ \E c \in [Lines -> Int], shipment \in {"NONE", "CREATED"} :
       /\ \A l \in Lines : 0 <= c[l] /\ (c[l] > 0 => c[l] <= Remaining(o, l))
       /\ InsertPackage(o, k, c, shipment)

(* The three ways to make a package all come down to InsertPackage. *)
LEMMA PackageCases ==
  ASSUME RowsTyped, NEW k \in Packages, NEW o \in Orders,
         \/ \E c \in Contents : createControlPackage(o, k, c)
         \/ \E whole \in SUBSET Lines, c \in Contents : createPackageForOrder(o, k, whole, c)
         \/ createShipmentForOrder(o, k)
  PROVE  PackageStep(o, k)
  <1> USE DEF PackageStep
  <1>0. \A c \in Contents : c \in [Lines -> Int] /\ \A l \in Lines : 0 <= c[l]
    BY QuantityAssumption DEF Contents, Quantity
  <1>1. \A l \in Lines : Remaining(o, l) \in Int
    BY RemainingType
  <1>2. ASSUME NEW c \in Contents, createControlPackage(o, k, c)
        PROVE  /\ InsertPackage(o, k, c, "NONE")
               /\ \A l \in Lines : c[l] > 0 => c[l] <= Remaining(o, l)
    BY <1>2 DEF createControlPackage
  <1>3. ASSUME NEW whole \in SUBSET Lines, NEW c \in Contents,
               createPackageForOrder(o, k, whole, c)
        PROVE  \E d \in [Lines -> Int] :
                 /\ \A l \in Lines : 0 <= d[l] /\ (d[l] > 0 => d[l] <= Remaining(o, l))
                 /\ InsertPackage(o, k, d, "NONE")
    <2> DEFINE d == [l \in Lines |-> IF l \in whole THEN Remaining(o, l) ELSE c[l]]
    <2>1. d \in [Lines -> Int]
      BY <1>0, <1>1
    <2>2. InsertPackage(o, k, d, "NONE")
      BY <1>3 DEF createPackageForOrder
    <2>3. \A l \in Lines : 0 <= d[l] /\ (d[l] > 0 => d[l] <= Remaining(o, l))
      BY <1>0, <1>1, <1>3 DEF createPackageForOrder
    <2> HIDE DEF d
    <2> QED BY <2>1, <2>2, <2>3
  <1>4. CASE createShipmentForOrder(o, k)
    <2> DEFINE d == [l \in Lines |-> IF Remaining(o, l) > 0 THEN Remaining(o, l) ELSE 0]
    <2>1. d \in [Lines -> Int]
      BY <1>1
    <2>2. shipExistingPackage(o, k) \/ InsertPackage(o, k, d, "CREATED")
      BY <1>4 DEF createShipmentForOrder
    <2>3. \A l \in Lines : 0 <= d[l] /\ (d[l] > 0 => d[l] <= Remaining(o, l))
      BY <1>1
    <2> HIDE DEF d
    <2> QED BY <2>1, <2>2, <2>3
  <1> QED BY <1>0, <1>2, <1>3, <1>4

LEMMA PackageType ==
  ASSUME RowsTyped, NEW k \in Packages, NEW o \in Orders, PackageStep(o, k)
  PROVE  RowsTyped'
  <1>1. CASE shipExistingPackage(o, k)
    <2>1. /\ UNCHANGED <<now, provider, warehouse, onHand, reserved, product, order, res, content>>
          /\ pkg[k].order = o
          /\ pkg' = [pkg EXCEPT ![k].shipment = "CREATED"]
      BY <1>1 DEF shipExistingPackage, stockVars
    <2>2. pkg[k] \in PackageRow
      BY DEF RowsTyped
    <2>3. [pkg[k] EXCEPT !.shipment = "CREATED"] \in PackageRow
      BY <2>2 DEF PackageRow, ShipmentStatus
    <2>4. pkg' \in [Packages -> PackageRow]
      BY <2>1, <2>3 DEF RowsTyped
    <2>5. pkg[k].status # "NONE" /\ o # NoOrder
      BY <2>1, NullAssumption DEF RowsTyped
    <2>6. pkg'[k].order = o /\ pkg'[k].status # "NONE"
      BY <2>1, <2>2, <2>5 DEF RowsTyped, PackageRow
    <2>7. \A j \in Packages :
            IF pkg'[j].order = NoOrder THEN pkg'[j] = AbsentPackage ELSE pkg'[j].status # "NONE"
      BY <2>1, <2>5, <2>6 DEF RowsTyped
    <2> QED BY <2>1, <2>4, <2>7 DEF RowsTyped
  <1>2. ASSUME NEW c \in [Lines -> Int], NEW shipment \in {"NONE", "CREATED"},
               InsertPackage(o, k, c, shipment)
        PROVE  RowsTyped'
    <2>1. /\ UNCHANGED <<now, provider, warehouse, onHand, reserved, product, order, res>>
          /\ pkg' = [pkg EXCEPT ![k] =
               [order |-> o, status |-> "READY_TO_SHIP", shipment |-> shipment]]
          /\ content' = [content EXCEPT ![k] = c]
      BY <1>2 DEF InsertPackage, stockVars
    <2>2. [order |-> o, status |-> "READY_TO_SHIP", shipment |-> shipment] \in PackageRow
      BY DEF PackageRow, ShipmentStatus
    <2>3. pkg' \in [Packages -> PackageRow] /\ content' \in [Packages -> [Lines -> Int]]
      BY <2>1, <2>2 DEF RowsTyped
    <2>4. \A j \in Packages :
            IF pkg'[j].order = NoOrder THEN pkg'[j] = AbsentPackage ELSE pkg'[j].status # "NONE"
      BY <2>1, NullAssumption DEF RowsTyped
    <2> QED BY <2>1, <2>3, <2>4 DEF RowsTyped
  <1> QED BY <1>1, <1>2 DEF PackageStep

(* A shipment belongs to an order. *)
LEMMA ShipmentHasOrder ==
  ASSUME RowsTyped, NEW k \in Packages, pkg[k].shipment # "NONE"
  PROVE  pkg[k].order \in Orders /\ pkg[k].status # "NONE"
  BY DEF RowsTyped, AbsentPackage, PackageRow

(* The order status each shipment step asks for. *)
LEMMA OrderTargets ==
  ASSUME NEW t \in ShipmentTargets
  PROVE  \/ /\ t \in {"SHIPPED", "IN_DELIVERY", "DELIVERED", "RETURNED"}
            /\ orderTarget[t] = t
         \/ t \in {"DELIVERY_FAILED", "RETURNING"} /\ orderTarget[t] = ""
  <1>1. t \in {"SHIPPED", "IN_DELIVERY", "DELIVERED", "DELIVERY_FAILED", "RETURNING", "RETURNED"}
    BY DEF ShipmentTargets, ShipmentStatus
  <1>2. /\ orderTarget["SHIPPED"] = "SHIPPED" /\ orderTarget["IN_DELIVERY"] = "IN_DELIVERY"
        /\ orderTarget["DELIVERED"] = "DELIVERED" /\ orderTarget["RETURNED"] = "RETURNED"
        /\ orderTarget["DELIVERY_FAILED"] = "" /\ orderTarget["RETURNING"] = ""
    BY DEF orderTarget
  <1> QED BY <1>1, <1>2

(* The order changes a shipment step can cause. *)
LEMMA ShipmentMoves ==
  ASSUME NEW k, NEW t \in ShipmentTargets, AsksOrder(k, t)
  PROVE  orderTarget[t] \in {"SHIPPED", "IN_DELIVERY", "DELIVERED", "RETURNED"}
  <1>1. t \notin FinalShipment => orderTarget[t] # ""
    BY DEF AsksOrder
  <1> QED BY <1>1, OrderTargets DEF FinalShipment

LEMMA ShipmentType ==
  ASSUME RowsTyped, NEW k \in Packages, NEW t \in ShipmentTargets, transitionShipment(k, t)
  PROVE  RowsTyped'
  <1> DEFINE o == pkg[k].order
  <1>1. /\ UNCHANGED <<now, provider, warehouse, product, content>>
        /\ pkg[k].shipment = expected[t]
        /\ pkg' = [pkg EXCEPT ![k] = [pkg[k] EXCEPT !.status = t, !.shipment = t]]
        /\ FulfillPackage(k) \/ UNCHANGED <<onHand, reserved, res>>
        /\ \/ AsksOrder(k, t) /\ order' = [order EXCEPT ![o] = AdvancedRow(order[o], orderTarget[t])]
           \/ order' = order
    BY DEF transitionShipment, Advance
  <1>2. pkg[k].shipment # "NONE"
    BY <1>1 DEF expected, ShipmentTargets, ShipmentStatus
  <1>3. o \in Orders /\ pkg[k].status # "NONE"
    BY <1>2, ShipmentHasOrder
  <1>4. order' \in [Orders -> OrderRow]
    <2>1. AsksOrder(k, t) => orderTarget[t] \in OrderStatus
      BY ShipmentMoves DEF OrderStatus
    <2>2. AsksOrder(k, t) => AdvancedRow(order[o], orderTarget[t]) \in OrderRow
      BY <1>3, <2>1, AdvancedRowType DEF RowsTyped
    <2> QED BY <1>1, <1>3, <2>2 DEF RowsTyped
  <1>5. pkg[k] \in PackageRow
    BY DEF RowsTyped
  <1>6. /\ [pkg[k] EXCEPT !.status = t, !.shipment = t] \in PackageRow
        /\ [pkg[k] EXCEPT !.status = t, !.shipment = t].order = o
        /\ [pkg[k] EXCEPT !.status = t, !.shipment = t].status # "NONE"
    BY <1>5 DEF PackageRow, ShipmentTargets, ShipmentStatus
  <1>7. pkg' \in [Packages -> PackageRow]
    BY <1>1, <1>6 DEF RowsTyped
  <1>8. \A j \in Packages :
          IF pkg'[j].order = NoOrder THEN pkg'[j] = AbsentPackage ELSE pkg'[j].status # "NONE"
    BY <1>1, <1>3, <1>6, NullAssumption DEF RowsTyped
  <1>9. /\ onHand' \in [Warehouses -> [Products -> Int]]
        /\ reserved' \in [Warehouses -> [Products -> Int]]
        /\ res' \in [Orders -> [Lines -> ReservationRow]]
    BY <1>1, <1>3, FulfillType DEF RowsTyped
  <1> QED BY <1>1, <1>4, <1>7, <1>8, <1>9 DEF RowsTyped

(* An operator's step changes stock, catalogue or warehouses, or resets the shop. *)
LEMMA StockStepType ==
  ASSUME RowsTyped, StockNext
  PROVE  RowsTyped'
  <1> USE DEF RowsTyped
  <1>1. ASSUME NEW w \in Warehouses, NEW s \in {"ACTIVE", "INACTIVE"}, NEW i \in Priorities,
               createControlWarehouse(w, s, i) \/ updateControlWarehouse(w, s, i)
        PROVE  RowsTyped'
    <2>1. [status |-> s, priority |-> i] \in WarehouseRow
      BY DEF WarehouseRow
    <2>2. /\ warehouse' = [warehouse EXCEPT ![w] = [status |-> s, priority |-> i]]
          /\ UNCHANGED <<now, provider, product, onHand, reserved, order, res, pkg, content>>
      BY <1>1 DEF createControlWarehouse, updateControlWarehouse, unchangedOrders, stockVars,
                  parcelVars
    <2> QED BY <2>1, <2>2
  <1>2. ASSUME NEW w \in Warehouses, NEW p \in Products, NEW n \in Quantity,
               updateWarehouseInventory(w, p, n)
        PROVE  RowsTyped'
    <2>1. n \in Int /\ onHand[w][p] \in Int /\ product[p].stock \in Int
      BY QuantityAssumption DEF Quantity, ProductRow
    <2>2. product[p].stock + (n - onHand[w][p]) \in Int
      BY <2>1
    <2>3. [product[p] EXCEPT !.stock = product[p].stock + (n - onHand[w][p])] \in ProductRow
      BY <2>2, StockType
    <2> QED BY <1>2, <2>1, <2>3 DEF updateWarehouseInventory, unchangedOrders, parcelVars
  <1>3. ASSUME NEW p \in Products, NEW s \in {"ACTIVE", "INACTIVE"},
               NEW initial \in [Warehouses -> Quantity], createProduct(p, s, initial)
        PROVE  RowsTyped'
    <2>1. Total(initial) \in Int
      BY TotalType, FiniteAssumption
    <2>2. [status |-> s, stock |-> Total(initial)] \in ProductRow
      BY <2>1 DEF ProductRow
    <2>3. \A w \in Warehouses : initial[w] \in Int
      BY QuantityAssumption DEF Quantity
    <2> QED BY <1>3, <2>2, <2>3 DEF createProduct, unchangedOrders, parcelVars
  <1>4. ASSUME NEW p \in Products, NEW s \in {"ACTIVE", "INACTIVE"}, updateProduct(p, s)
        PROVE  RowsTyped'
    <2>1. [product[p] EXCEPT !.status = s] \in ProductRow
      BY DEF ProductRow
    <2> QED BY <1>4, <2>1 DEF updateProduct, unchangedOrders, parcelVars
  <1>5. ASSUME NEW p \in Products, Archive(p)
        PROVE  RowsTyped'
    <2>1. [product[p] EXCEPT !.status = "DELETED"] \in ProductRow
      BY DEF ProductRow
    <2> QED BY <1>5, <2>1 DEF Archive, unchangedOrders, parcelVars
  <1>6. ASSUME NEW P \in SUBSET Products, NEW S \in SUBSET Orders, NEW late,
               resetShopData(P, S, late)
        PROVE  RowsTyped'
    <2>1. SeedStock \in Int
      BY QuantityAssumption
    <2>2. [status |-> "ACTIVE", stock |-> SeedStock] \in ProductRow /\ AbsentProduct \in ProductRow
      BY <2>1 DEF ProductRow, AbsentProduct
    <2>3. AbsentOrder \in OrderRow /\ SeededOrder \in OrderRow
      BY DEF AbsentOrder, SeededOrder, OrderRow, OrderStatus, PaymentStatus, Time
    <2>4. AbsentPackage \in PackageRow
      BY DEF AbsentPackage, PackageRow
    <2>5. AbsentPackage.order = NoOrder
      BY DEF AbsentPackage
    <2>6. /\ product' \in [Products -> ProductRow]
          /\ onHand' \in [Warehouses -> [Products -> Int]]
          /\ reserved' \in [Warehouses -> [Products -> Int]]
          /\ UNCHANGED <<now, provider, warehouse>>
      BY <1>6, <2>1, <2>2 DEF resetShopData
    <2>7. /\ order' \in [Orders -> OrderRow]
          /\ res' \in [Orders -> [Lines -> ReservationRow]]
          /\ content' \in [Packages -> [Lines -> Int]]
      BY <1>6, <2>3, AbsentReservationType DEF resetShopData
    <2>8. pkg' \in [Packages -> PackageRow] /\ \A k \in Packages : pkg'[k] = AbsentPackage
      BY <1>6, <2>4 DEF resetShopData
    <2> QED BY <2>5, <2>6, <2>7, <2>8
  <1> QED BY <1>1, <1>2, <1>3, <1>4, <1>5, <1>6 DEF StockNext

-----------------------------------------------------------------------------
LEMMA InitType == Init => RowsTyped
  <1> SUFFICES ASSUME Init PROVE RowsTyped
    OBVIOUS
  <1>1. AbsentWarehouse \in WarehouseRow /\ [status |-> "ACTIVE", priority |-> 0] \in WarehouseRow
    BY QuantityAssumption DEF AbsentWarehouse, WarehouseRow
  <1>2. AbsentProduct \in ProductRow
    BY DEF AbsentProduct, ProductRow
  <1>3. AbsentOrder \in OrderRow
    BY DEF AbsentOrder, OrderRow, PaymentStatus, Time
  <1>4. AbsentPackage \in PackageRow
    BY DEF AbsentPackage, PackageRow
  <1>5. \A k \in Packages : pkg[k] = AbsentPackage /\ pkg[k].order = NoOrder
    BY DEF Init, AbsentPackage
  <1> QED BY <1>1, <1>2, <1>3, <1>4, <1>5, AbsentReservationType DEF Init, RowsTyped

(* The kinds of step there are. *)
StepKinds ==
  \/ \E o \in Orders, want \in Requests : createSimulatedOrder(o, want)
  \/ \E o \in Orders, target \in RequestedTargets : Transition(o, target)
  \/ \E o \in Orders, actor \in Actors, reason \in Reasons, payment \in PaymentStatus :
       CancelStep(o, actor, reason, payment)
  \/ \E k \in Packages, o \in Orders : PackageStep(o, k)
  \/ \E k \in Packages, t \in ShipmentTargets : transitionShipment(k, t)
  \/ StockNext
  \/ Tick
  \/ UNCHANGED vars

LEMMA NextKinds ==
  ASSUME RowsTyped, [Next]_vars
  PROVE  StepKinds
  <1> USE DEF StepKinds
  <1>1. CASE OrderNext
    <2>1. PICK o \in Orders :
            \/ \E want \in Requests : createSimulatedOrder(o, want)
            \/ \E target \in RequestedTargets : Transition(o, target)
            \/ \E actor \in {"CUSTOMER", "SELLER"}, reason \in RequestReasons :
                 Cancel(o, actor, reason)
            \/ failPayment(o)
            \/ \E reason \in Reasons : CancelOverdue(o, reason)
      BY <1>1 DEF OrderNext
    <2> QED BY <2>1, CancellationCases
  <1>2. CASE ShippingNext
    <2>1. PICK k \in Packages :
            \/ \E o \in Orders :
                 \/ \E c \in Contents : createControlPackage(o, k, c)
                 \/ \E whole \in SUBSET Lines, c \in Contents :
                      createPackageForOrder(o, k, whole, c)
                 \/ createShipmentForOrder(o, k)
            \/ \E t \in ShipmentTargets : transitionShipment(k, t)
      BY <1>2 DEF ShippingNext
    <2> QED BY <2>1, PackageCases
  <1> QED BY <1>1, <1>2 DEF Next

LEMMA NextType == RowsTyped /\ [Next]_vars => RowsTyped'
  <1> SUFFICES ASSUME RowsTyped, StepKinds PROVE RowsTyped'
    BY NextKinds
  <1>1. ASSUME NEW o \in Orders, NEW actor \in Actors, NEW reason \in Reasons,
               NEW payment \in PaymentStatus, CancelStep(o, actor, reason, payment)
        PROVE  RowsTyped'
    BY <1>1, CancellationType DEF CancelStep
  <1>2. CASE Tick
    BY <1>2 DEF Tick, RowsTyped, stockVars, parcelVars
  <1>3. CASE UNCHANGED vars
    BY <1>3 DEF vars, RowsTyped
  <1> QED
    BY <1>1, <1>2, <1>3, CreateOrderType, TransitionType, PackageType, ShipmentType,
       StockStepType DEF StepKinds

(* Every committed transaction leaves rows of their tables' columns. *)
LEMMA RowsAreTyped == Spec => []RowsTyped
  BY InitType, NextType, PTL DEF Spec

-----------------------------------------------------------------------------
(* Stock *)

LEMMA OversellStep ==
  ASSUME RowsTyped, NoOversell, StepKinds
  PROVE  NoOversell'
  <1>0. ASSUME UNCHANGED <<onHand, reserved>>
        PROVE  NoOversell'
    BY <1>0 DEF NoOversell
  <1>1. ASSUME NEW o \in Orders, NEW want \in Requests, createSimulatedOrder(o, want)
        PROVE  NoOversell'
    <2> DEFINE need == aggregateRequiredQuantity(want)
    <2>1. need \in [Products -> Nat]
      BY NeedType
    <2>2. PICK w \in Warehouses : Allocate(o, want, w)
      BY <1>1 DEF createSimulatedOrder
    <2>3. /\ \A p \in Products : need[p] > 0 => onHand[w][p] - reserved[w][p] >= need[p]
          /\ reserved' = [reserved EXCEPT ![w] = [p \in Products |-> reserved[w][p] + need[p]]]
          /\ onHand' = onHand
      BY <2>2 DEF Allocate, Eligible
    <2> HIDE DEF need
    <2> SUFFICES ASSUME NEW v \in Warehouses, NEW p \in Products
                 PROVE  0 <= reserved'[v][p] /\ reserved'[v][p] <= onHand'[v][p]
      BY DEF NoOversell
    <2>4. /\ reserved[v][p] \in Int /\ onHand[v][p] \in Int /\ need[p] \in Nat
          /\ 0 <= reserved[v][p] /\ reserved[v][p] <= onHand[v][p]
      BY <2>1 DEF RowsTyped, NoOversell
    <2>5. reserved'[v][p] = IF v = w THEN reserved[v][p] + need[p] ELSE reserved[v][p]
      BY <2>3 DEF RowsTyped
    <2> QED BY <2>3, <2>4, <2>5
  <1>2. ASSUME NEW o \in Orders, Release(o)
        PROVE  NoOversell'
    <2> DEFINE w == order[o].warehouse
               held == [p \in Products |-> Held(o, p)]
    <2>1. held \in [Products -> Nat]
      BY HeldType
    <2>2. /\ \A p \in Products : held[p] > 0 => reserved[w][p] >= held[p]
          /\ reserved' = [reserved EXCEPT ![w] = [p \in Products |-> reserved[w][p] - held[p]]]
          /\ onHand' = onHand
      BY <1>2 DEF Release
    <2> HIDE DEF held, w
    <2> SUFFICES ASSUME NEW v \in Warehouses, NEW p \in Products
                 PROVE  0 <= reserved'[v][p] /\ reserved'[v][p] <= onHand'[v][p]
      BY DEF NoOversell
    <2>3. /\ reserved[v][p] \in Int /\ onHand[v][p] \in Int /\ held[p] \in Nat
          /\ 0 <= reserved[v][p] /\ reserved[v][p] <= onHand[v][p]
      BY <2>1 DEF RowsTyped, NoOversell
    <2>4. reserved'[v][p] = IF v = w THEN reserved[v][p] - held[p] ELSE reserved[v][p]
      BY <2>2 DEF RowsTyped
    <2> QED BY <2>2, <2>3, <2>4
  <1>3. ASSUME NEW k \in Packages, FulfillPackage(k)
        PROVE  NoOversell'
    <2> DEFINE w == order[pkg[k].order].warehouse
               out == [p \in Products |-> Shipped(k, p)]
    <2>1. out \in [Products -> Nat]
      BY ShippedType
    <2>2. /\ \A p \in Products : out[p] > 0 => reserved[w][p] >= out[p]
          /\ reserved' = [reserved EXCEPT ![w] = [p \in Products |-> reserved[w][p] - out[p]]]
          /\ onHand' = [onHand EXCEPT ![w] = [p \in Products |-> onHand[w][p] - out[p]]]
      BY <1>3 DEF FulfillPackage
    <2> HIDE DEF out, w
    <2> SUFFICES ASSUME NEW v \in Warehouses, NEW p \in Products
                 PROVE  0 <= reserved'[v][p] /\ reserved'[v][p] <= onHand'[v][p]
      BY DEF NoOversell
    <2>3. /\ reserved[v][p] \in Int /\ onHand[v][p] \in Int /\ out[p] \in Nat
          /\ 0 <= reserved[v][p] /\ reserved[v][p] <= onHand[v][p]
      BY <2>1 DEF RowsTyped, NoOversell
    <2>4. /\ reserved'[v][p] = IF v = w THEN reserved[v][p] - out[p] ELSE reserved[v][p]
          /\ onHand'[v][p] = IF v = w THEN onHand[v][p] - out[p] ELSE onHand[v][p]
      BY <2>2 DEF RowsTyped
    <2> QED BY <2>2, <2>3, <2>4
  <1>4. CASE StockNext
    <2>1. ASSUME NEW w \in Warehouses, NEW p \in Products, NEW n \in Quantity,
                 updateWarehouseInventory(w, p, n)
          PROVE  NoOversell'
      BY <2>1, QuantityAssumption DEF updateWarehouseInventory, NoOversell, RowsTyped, Quantity
    <2>2. ASSUME NEW p \in Products, NEW s \in {"ACTIVE", "INACTIVE"},
                 NEW initial \in [Warehouses -> Quantity], createProduct(p, s, initial)
          PROVE  NoOversell'
      BY <2>2, QuantityAssumption DEF createProduct, NoOversell, RowsTyped, Quantity
    <2>3. ASSUME NEW P \in SUBSET Products, NEW S \in SUBSET Orders, NEW late,
                 resetShopData(P, S, late)
          PROVE  NoOversell'
      BY <2>3, QuantityAssumption DEF resetShopData, NoOversell
    <2> QED
      BY <1>0, <1>4, <2>1, <2>2, <2>3
      DEF StockNext, createControlWarehouse, updateControlWarehouse, updateProduct, Archive,
          stockVars
  <1>5. ASSUME NEW k \in Packages, NEW t \in ShipmentTargets, transitionShipment(k, t)
        PROVE  NoOversell'
    BY <1>0, <1>3, <1>5 DEF transitionShipment
  <1>6. ASSUME NEW o \in Orders, NEW actor \in Actors, NEW reason \in Reasons,
               NEW payment \in PaymentStatus, CancelStep(o, actor, reason, payment)
        PROVE  NoOversell'
    BY <1>2, <1>6 DEF CancelStep, Cancellation
  <1>7. ASSUME NEW o \in Orders, NEW target \in RequestedTargets, Transition(o, target)
        PROVE  NoOversell'
    BY <1>0, <1>7 DEF Transition, stockVars
  <1>8. ASSUME NEW k \in Packages, NEW o \in Orders, PackageStep(o, k)
        PROVE  NoOversell'
    BY <1>0, <1>8 DEF PackageStep, shipExistingPackage, InsertPackage, stockVars
  <1>9. CASE Tick \/ UNCHANGED vars
    BY <1>0, <1>9 DEF Tick, vars, stockVars
  <1> QED BY <1>1, <1>4, <1>5, <1>6, <1>7, <1>8, <1>9 DEF StepKinds

LEMMA InitNoOversell == Init => NoOversell
  BY DEF Init, NoOversell

(* A warehouse never promises more than it has: no interleaving of orders,
   releases, shipments, recounts and resets makes reserved_quantity negative or
   larger than on_hand_quantity, for any number of them. *)
THEOREM NeverOversold == Spec => []NoOversell
  <1>1. RowsTyped /\ NoOversell /\ [Next]_vars => NoOversell'
    BY NextKinds, OversellStep
  <1> QED BY <1>1, InitNoOversell, RowsAreTyped, PTL DEF Spec

-----------------------------------------------------------------------------
(* Payment and audit columns *)

(* A forward step keeps the columns consistent when it is an edge of the state
   machine and a payment was still pending. *)
LEMMA AdvanceAudited ==
  ASSUME NEW row \in OrderRow, NEW target \in OrderStatus, AuditedRow(row),
         CanTransition(row.status, target), target # "CANCELLED",
         target = "PAID" => row.payment = "PENDING"
  PROVE  AuditedRow(AdvancedRow(row, target))
  <1> DEFINE new == AdvancedRow(row, target)
  <1>1. /\ new.status = target /\ new.actor = row.actor /\ new.reason = row.reason
        /\ new.payment = IF target = "PAID" THEN "PAID" ELSE row.payment
    BY DEF AdvancedRow, OrderRow
  <1>2. /\ row.status \notin {"CANCELLED", "COMPLETED"}
        /\ target # "UNPAID"
        /\ target # "PAID" => row.status \in AwaitingShipment \cup Moving
        /\ target \in AwaitingShipment \cup Moving
    BY DEF CanTransition, transitions, AwaitingShipment, Moving, OrderRow, OrderStatus
  <1>3. row # SeededOrder
    BY <1>2 DEF SeededOrder, AbsentOrder
  <1> QED BY <1>1, <1>2, <1>3 DEF AuditedRow, AwaitingShipment, Moving

(* A cancellation writes an actor, a reason of that actor and the payment
   outcome that goes with it. *)
LEMMA CancelAudited ==
  ASSUME RowsTyped, PaymentAndAudit, NEW o \in Orders, NEW actor \in Actors,
         NEW reason \in Reasons, NEW payment \in PaymentStatus,
         CancelStep(o, actor, reason, payment)
  PROVE  AuditedRow(CancelledRow(order[o], actor, reason, payment))
  <1> DEFINE row == order[o]
             new == CancelledRow(row, actor, reason, payment)
  <1>0. row \in OrderRow /\ AuditedRow(row)
    BY DEF RowsTyped, PaymentAndAudit
  <1>s. row.status # "COMPLETED" => row # SeededOrder
    BY DEF SeededOrder, AbsentOrder
  <1>1. /\ new.status = "CANCELLED" /\ new.actor = actor /\ new.reason = reason
        /\ new.payment = payment
    BY <1>0 DEF CancelledRow, OrderRow
  <1>2. ValidCancellationReason(actor, reason)
    BY DEF CancelStep
  <1>3. /\ actor # "SYSTEM" =>
             reason \notin {"PAYMENT_FAILED", "PAYMENT_EXPIRED", "SELLER_SLA_EXPIRED"}
        /\ actor # ""
    <2>1. /\ CancellationReasons["CUSTOMER"] =
                {"CHANGE_OF_MIND", "DUPLICATE_ORDER", "ADDRESS_ISSUE"}
          /\ CancellationReasons["SELLER"] = {"OUT_OF_STOCK", "SELLER_UNFULFILLABLE"}
      BY DEF CancellationReasons
    <2>2. actor \in {"CUSTOMER", "SELLER", "SYSTEM"}
      BY DEF Actors
    <2> QED BY <1>2, <2>1, <2>2 DEF ValidCancellationReason
  <1>4. actor # "SYSTEM" => payment \notin {"FAILED", "EXPIRED"}
    <2>1. actor # "SYSTEM" => /\ payment = row.payment /\ row.status # "NONE"
                              /\ CanCancel(provider, row.status, actor)
      BY DEF CancelStep
    <2>2. CanCancel(provider, row.status, actor) => row.status \in {"UNPAID"} \cup AwaitingShipment
      BY DEF CanCancel, ShopeeCancellable, CanTransition, transitions, AwaitingShipment, Actors
    <2>3. row.status \in {"UNPAID"} \cup AwaitingShipment => row.payment \in {"PENDING", "PAID"}
      BY <1>0, <1>s DEF AuditedRow, AwaitingShipment
    <2> QED BY <2>1, <2>2, <2>3
  <1>5. reason = "SELLER_SLA_EXPIRED" => payment = "PAID"
    BY <1>0, <1>3, <1>s DEF CancelStep, AuditedRow, AwaitingShipment
  <1>6. payment = "FAILED" <=> reason = "PAYMENT_FAILED"
    BY <1>3, <1>4, <1>5 DEF CancelStep
  <1>7. payment = "EXPIRED" <=> reason = "PAYMENT_EXPIRED"
    BY <1>3, <1>4, <1>5 DEF CancelStep
  <1> HIDE DEF new, row
  <1>8. AuditedRow(new)
    BY <1>1, <1>2, <1>3, <1>5, <1>6, <1>7 DEF AuditedRow, AwaitingShipment, Moving
  <1> QED BY <1>8 DEF new, row

(* The steps of a shipment that move its order follow an edge of the state
   machine, and never to PAID or CANCELLED. *)
LEMMA ShipmentStep ==
  ASSUME RowsTyped, NEW k \in Packages, NEW t \in ShipmentTargets, transitionShipment(k, t)
  PROVE  LET o == pkg[k].order  s == order[o].status  u == orderTarget[t] IN
         /\ o \in Orders
         /\ pkg[k].shipment = expected[t] /\ pkg[k].status # "NONE"
         /\ \/ order' = order
            \/ /\ AsksOrder(k, t) /\ s = expectedOrder[t]
               /\ CanTransition(s, u)
               /\ u \in {"SHIPPED", "IN_DELIVERY", "DELIVERED", "RETURNED"}
               /\ order' = [order EXCEPT ![o] = AdvancedRow(order[o], u)]
  <1>1. /\ pkg[k].shipment = expected[t]
        /\ \/ order' = order
           \/ /\ AsksOrder(k, t) /\ order[pkg[k].order].status = expectedOrder[t]
              /\ CanTransition(order[pkg[k].order].status, orderTarget[t])
              /\ order' = [order EXCEPT ![pkg[k].order] =
                             AdvancedRow(order[pkg[k].order], orderTarget[t])]
    BY DEF transitionShipment, Advance
  <1>2. pkg[k].shipment # "NONE"
    BY <1>1 DEF expected, ShipmentTargets, ShipmentStatus
  <1> QED BY <1>1, <1>2, ShipmentHasOrder, ShipmentMoves

LEMMA AbsentAudited == AuditedRow(AbsentOrder) /\ AuditedRow(SeededOrder)
  BY DEF AuditedRow, AbsentOrder, AwaitingShipment, Moving

LEMMA AuditStep ==
  ASSUME RowsTyped, PaymentAndAudit, StepKinds
  PROVE  PaymentAndAudit'
  <1>a. ASSUME UNCHANGED order
        PROVE  PaymentAndAudit'
    BY <1>a DEF PaymentAndAudit
  <1>b. ASSUME NEW o \in Orders, NEW row, AuditedRow(row), order' = [order EXCEPT ![o] = row]
         PROVE  PaymentAndAudit'
    BY <1>b DEF PaymentAndAudit, RowsTyped
  <1>c. \A o \in Orders : order[o] \in OrderRow /\ AuditedRow(order[o])
    BY DEF RowsTyped, PaymentAndAudit
  <1>1. ASSUME NEW o \in Orders, NEW want \in Requests, createSimulatedOrder(o, want)
        PROVE  PaymentAndAudit'
    <2>1. PICK w \in Warehouses : order' = [order EXCEPT ![o] = NewOrder(w)]
      BY <1>1 DEF createSimulatedOrder
    <2>2. AuditedRow(NewOrder(w))
      BY DEF AuditedRow, NewOrder, AbsentOrder, AwaitingShipment, Moving
    <2> QED BY <1>b, <2>1, <2>2
  <1>2. ASSUME NEW o \in Orders, NEW target \in RequestedTargets, Transition(o, target)
        PROVE  PaymentAndAudit'
    <2>1. /\ CanTransition(order[o].status, target)
          /\ target = "PAID" => order[o].payment = "PENDING"
          /\ order' = [order EXCEPT ![o] = AdvancedRow(order[o], target)]
      BY <1>2 DEF Transition, PaymentOpen, Advance
    <2>2. target \in OrderStatus /\ target # "CANCELLED"
      BY DEF RequestedTargets, OrderStatus
    <2>3. AuditedRow(AdvancedRow(order[o], target))
      BY <1>c, <2>1, <2>2, AdvanceAudited
    <2> QED BY <1>b, <2>1, <2>3
  <1>3. ASSUME NEW o \in Orders, NEW actor \in Actors, NEW reason \in Reasons,
               NEW payment \in PaymentStatus, CancelStep(o, actor, reason, payment)
        PROVE  PaymentAndAudit'
    BY <1>b, <1>3, CancelAudited DEF CancelStep, Cancellation, MarkCancelled
  <1>4. ASSUME NEW k \in Packages, NEW t \in ShipmentTargets, transitionShipment(k, t)
        PROVE  PaymentAndAudit'
    <2> DEFINE o == pkg[k].order
               u == orderTarget[t]
    <2>1. /\ o \in Orders
          /\ \/ order' = order
             \/ /\ CanTransition(order[o].status, u)
                /\ u \in {"SHIPPED", "IN_DELIVERY", "DELIVERED", "RETURNED"}
                /\ order' = [order EXCEPT ![o] = AdvancedRow(order[o], u)]
      BY <1>4, ShipmentStep
    <2> HIDE DEF o, u
    <2>2. u \in {"SHIPPED", "IN_DELIVERY", "DELIVERED", "RETURNED"} =>
            u \in OrderStatus /\ u # "CANCELLED" /\ u # "PAID"
      BY DEF OrderStatus
    <2> QED BY <1>a, <1>b, <1>c, <2>1, <2>2, AdvanceAudited
  <1>5. ASSUME NEW k \in Packages, NEW o \in Orders, PackageStep(o, k)
        PROVE  PaymentAndAudit'
    BY <1>a, <1>5 DEF PackageStep, shipExistingPackage, InsertPackage
  <1>6. CASE StockNext
    <2>1. ASSUME NEW P \in SUBSET Products, NEW S \in SUBSET Orders, NEW late,
                 resetShopData(P, S, late)
          PROVE  PaymentAndAudit'
      BY <2>1, AbsentAudited DEF resetShopData, PaymentAndAudit
    <2> QED
      BY <1>a, <1>6, <2>1
      DEF StockNext, createControlWarehouse, updateControlWarehouse, updateProduct, Archive,
          updateWarehouseInventory, createProduct, unchangedOrders
  <1>7. CASE Tick \/ UNCHANGED vars
    BY <1>a, <1>7 DEF Tick, vars
  <1> QED BY <1>1, <1>2, <1>3, <1>4, <1>5, <1>6, <1>7 DEF StepKinds

LEMMA InitAudit == Init => PaymentAndAudit
  BY AbsentAudited DEF Init, PaymentAndAudit

(* Payment outcome, lifecycle and audit columns never contradict each other,
   whichever of the payment, cancellation and deadline handlers came first. *)
THEOREM PaymentAudited == Spec => []PaymentAndAudit
  <1>1. RowsTyped /\ PaymentAndAudit /\ [Next]_vars => PaymentAndAudit'
    BY NextKinds, AuditStep
  <1> QED BY <1>1, InitAudit, RowsAreTyped, PTL DEF Spec

-----------------------------------------------------------------------------
(* Reservations and orders *)

LEMMA CommitFits ==
  ASSUME NEW row \in ReservationRow, ReservationFits(row, "UNPAID")
  PROVE  ReservationFits(CommittedRow(row), "PAID")
  <1>1. CommittedRow(row) \in ReservationRow
        /\ CommittedRow(row).qty = row.qty /\ CommittedRow(row).fulfilled = row.fulfilled
        /\ CommittedRow(row).status = IF row.status = "ACTIVE" THEN "COMMITTED" ELSE row.status
    BY CommittedRowType DEF CommittedRow, ReservationRow
  <1> QED BY <1>1 DEF ReservationFits, AwaitingShipment, Moving

LEMMA ReleaseFits ==
  ASSUME NEW row \in ReservationRow, NEW s \in {"UNPAID"} \cup AwaitingShipment,
         ReservationFits(row, s)
  PROVE  ReservationFits(ReleasedRow(row), "CANCELLED")
  <1>1. ReleasedRow(row).qty = row.qty /\ ReleasedRow(row).fulfilled = row.fulfilled
        /\ ReleasedRow(row).status = IF row.status \in Holding THEN "RELEASED" ELSE row.status
    BY DEF ReleasedRow, ReservationRow
  <1>2. row.status \in {"NONE", "ACTIVE", "COMMITTED"} /\ row.fulfilled = 0
    BY DEF ReservationFits, AwaitingShipment, Moving, ReservationRow
  <1> QED BY <1>1, <1>2 DEF ReservationFits, AwaitingShipment, Moving, Holding, ReservationRow

LEMMA FulfillFits ==
  ASSUME NEW row \in ReservationRow, NEW n \in Nat, n > 0,
         NEW s \in {"READY_TO_SHIP"} \cup Moving, NEW u \in Moving,
         ReservationFits(row, s), row.status \in Holding, row.fulfilled + n <= row.qty
  PROVE  ReservationFits(FulfilledRow(row, n), u)
  <1>1. row.qty \in Nat /\ row.fulfilled \in Nat
    BY QuantityAssumption DEF ReservationRow, Quantity
  <1>2. row.status = "COMMITTED"
    BY DEF ReservationFits, AwaitingShipment, Moving, Holding
  <1>3. /\ FulfilledRow(row, n).qty = row.qty
        /\ FulfilledRow(row, n).fulfilled = row.fulfilled + n
        /\ FulfilledRow(row, n).status =
             IF row.fulfilled + n = row.qty THEN "FULFILLED" ELSE "COMMITTED"
    BY <1>2 DEF FulfilledRow, ReservationRow
  <1>4. row.fulfilled + n > 0 /\ row.qty > 0
    BY <1>1
  <1> QED BY <1>1, <1>3, <1>4 DEF ReservationFits, AwaitingShipment, Moving

(* A reservation that fits keeps fitting while its order moves forward. *)
LEMMA ForwardFits ==
  ASSUME NEW row \in ReservationRow, NEW s, NEW u, ReservationFits(row, s),
         \/ s \in AwaitingShipment /\ u \in AwaitingShipment
         \/ s \in {"READY_TO_SHIP"} \cup Moving /\ u \in Moving
  PROVE  ReservationFits(row, u)
  BY DEF ReservationFits, AwaitingShipment, Moving, ReservationRow

LEMMA AbsentFits ==
  ASSUME NEW s
  PROVE  ReservationFits(AbsentReservation, s)
  BY DEF ReservationFits, AbsentReservation

LEMMA ReservedFits ==
  ASSUME NEW want \in Requests, NEW l \in DOMAIN want
  PROVE  ReservationFits(ReservedRow(want[l]), "UNPAID")
  <1>1. want[l] \in [product : Products, qty : LineQuantities]
    BY DEF Requests
  <1>2. want[l].qty \in 1 .. MaxQuantity
    BY <1>1, QuantityAssumption
  <1>3. want[l].qty \in Nat /\ want[l].qty > 0
    BY <1>2, QuantityAssumption
  <1>4. /\ ReservedRow(want[l]).status = "ACTIVE" /\ ReservedRow(want[l]).fulfilled = 0
        /\ ReservedRow(want[l]).qty = want[l].qty
    BY DEF ReservedRow
  <1> QED BY <1>3, <1>4 DEF ReservationFits, AwaitingShipment, Moving

LEMMA ReservationStep ==
  ASSUME RowsTyped, ReservationFollowsOrder, StepKinds
  PROVE  ReservationFollowsOrder'
  <1>a. ASSUME UNCHANGED <<order, res>>
        PROVE  ReservationFollowsOrder'
    BY <1>a DEF ReservationFollowsOrder
  <1>b. ASSUME NEW o \in Orders, NEW row, NEW rows,
               order' = [order EXCEPT ![o] = row], res' = [res EXCEPT ![o] = rows],
               \A l \in Lines : ReservationFits(rows[l], row.status)
        PROVE  ReservationFollowsOrder'
    BY <1>b DEF ReservationFollowsOrder, RowsTyped
  <1>c. \A o \in Orders, l \in Lines :
          res[o][l] \in ReservationRow /\ ReservationFits(res[o][l], order[o].status)
    BY DEF RowsTyped, ReservationFollowsOrder
  <1>d. \A o \in Orders : order[o] \in OrderRow /\ res[o] \in [Lines -> ReservationRow]
    BY DEF RowsTyped
  <1>1. ASSUME NEW o \in Orders, NEW want \in Requests, createSimulatedOrder(o, want)
        PROVE  ReservationFollowsOrder'
    <2> DEFINE rows == [l \in Lines |-> IF l \in DOMAIN want THEN ReservedRow(want[l])
                                        ELSE AbsentReservation]
    <2>1. PICK w \in Warehouses :
            /\ order' = [order EXCEPT ![o] = NewOrder(w)]
            /\ res' = [res EXCEPT ![o] = rows]
      BY <1>1 DEF createSimulatedOrder, Allocate
    <2>2. NewOrder(w).status = "UNPAID"
      BY DEF NewOrder, AbsentOrder
    <2>3. \A l \in Lines : ReservationFits(rows[l], NewOrder(w).status)
      BY <2>2, ReservedFits, AbsentFits
    <2> HIDE DEF rows
    <2> QED BY <1>b, <2>1, <2>3
  <1>2. ASSUME NEW o \in Orders, NEW target \in RequestedTargets, Transition(o, target)
        PROVE  ReservationFollowsOrder'
    <2> DEFINE new == AdvancedRow(order[o], target)
    <2>1. /\ CanTransition(order[o].status, target)
          /\ order' = [order EXCEPT ![o] = new]
      BY <1>2 DEF Transition, Advance
    <2>2. new.status = target
      BY <1>d DEF AdvancedRow, OrderRow
    <2> HIDE DEF new
    <2>3. CASE target = "PAID"
      <3> DEFINE rows == [l \in Lines |-> CommittedRow(res[o][l])]
      <3>1. res' = [res EXCEPT ![o] = rows]
        BY <1>2, <2>3 DEF Transition, Commit
      <3>2. order[o].status = "UNPAID"
        BY <2>1, <2>3 DEF CanTransition, transitions
      <3>3. \A l \in Lines : ReservationFits(rows[l], new.status)
        BY <1>c, <2>2, <2>3, <3>2, CommitFits
      <3> HIDE DEF rows
      <3> QED BY <1>b, <2>1, <3>1, <3>3
    <2>4. CASE target # "PAID"
      <3>1. res' = [res EXCEPT ![o] = res[o]]
        BY <1>2, <2>4 DEF Transition, RowsTyped
      <3>2. \/ order[o].status \in AwaitingShipment /\ target \in AwaitingShipment
            \/ order[o].status \in Moving /\ target \in Moving
        BY <2>1, <2>4 DEF CanTransition, transitions, RequestedTargets, AwaitingShipment, Moving
      <3>3. \A l \in Lines : ReservationFits(res[o][l], new.status)
        BY <1>c, <2>2, <3>2, ForwardFits
      <3> QED BY <1>b, <2>1, <3>1, <3>3
    <2> QED BY <2>3, <2>4
  <1>3. ASSUME NEW o \in Orders, NEW actor \in Actors, NEW reason \in Reasons,
               NEW payment \in PaymentStatus, CancelStep(o, actor, reason, payment)
        PROVE  ReservationFollowsOrder'
    <2> DEFINE new == CancelledRow(order[o], actor, reason, payment)
               rows == [l \in Lines |-> ReleasedRow(res[o][l])]
    <2>1. order' = [order EXCEPT ![o] = new] /\ res' = [res EXCEPT ![o] = rows]
      BY <1>3 DEF CancelStep, Cancellation, MarkCancelled, Release
    <2>2. new.status = "CANCELLED"
      BY <1>d DEF CancelledRow, OrderRow
    <2>3. order[o].status \in {"UNPAID"} \cup AwaitingShipment
      BY <1>3 DEF CancelStep, CanCancel, ShopeeCancellable, CanTransition, transitions,
                  AwaitingShipment, Actors
    <2>4. \A l \in Lines : ReservationFits(rows[l], new.status)
      BY <1>c, <2>2, <2>3, ReleaseFits
    <2> HIDE DEF new, rows
    <2> QED BY <1>b, <2>1, <2>4
  <1>4. ASSUME NEW k \in Packages, NEW t \in ShipmentTargets, transitionShipment(k, t)
        PROVE  ReservationFollowsOrder'
    <2> DEFINE o == pkg[k].order
               u == orderTarget[t]
               s == order[o].status
    <2>1. /\ o \in Orders
          /\ \/ order' = [order EXCEPT ![o] = order[o]] /\ order' = order
             \/ /\ CanTransition(s, u) /\ s = expectedOrder[t]
                /\ u \in {"SHIPPED", "IN_DELIVERY", "DELIVERED", "RETURNED"}
                /\ order' = [order EXCEPT ![o] = AdvancedRow(order[o], u)]
      BY <1>4, ShipmentStep DEF RowsTyped
    <2>2. PICK row : /\ order' = [order EXCEPT ![o] = row]
                     /\ \/ row.status = s /\ order' = order
                        \/ /\ row.status = u /\ CanTransition(s, u)
                           /\ u \in {"SHIPPED", "IN_DELIVERY", "DELIVERED", "RETURNED"}
      <3>1. AdvancedRow(order[o], u).status = u
        BY <1>d, <2>1 DEF AdvancedRow, OrderRow
      <3> QED BY <2>1, <3>1
    <2>3. \/ row.status = s /\ order' = order
          \/ s \in {"READY_TO_SHIP"} \cup Moving /\ row.status \in Moving
      BY <2>2 DEF CanTransition, transitions, Moving
    <2>4. CASE t # "SHIPPED"
      <3>1. res' = [res EXCEPT ![o] = res[o]] /\ res' = res
        BY <1>4, <2>4 DEF transitionShipment, RowsTyped
      <3>2. CASE order' = order
        BY <1>a, <3>1, <3>2
      <3>3. CASE s \in {"READY_TO_SHIP"} \cup Moving /\ row.status \in Moving
        <4>1. \A l \in Lines : ReservationFits(res[o][l], row.status)
          BY <1>c, <2>1, <3>3, ForwardFits
        <4> QED BY <1>b, <2>1, <2>2, <3>1, <4>1
      <3> QED BY <2>3, <3>2, <3>3
    <2>5. CASE t = "SHIPPED"
      <3> DEFINE rows == [l \in Lines |-> IF l \in PackedLines(k)
                            THEN FulfilledRow(res[o][l], content[k][l]) ELSE res[o][l]]
      <3>1. /\ res' = [res EXCEPT ![o] = rows]
            /\ \A l \in PackedLines(k) : /\ res[o][l].status \in Holding
                                         /\ res[o][l].fulfilled + content[k][l] <= res[o][l].qty
        BY <1>4, <2>5 DEF transitionShipment, FulfillPackage
      <3>2. s \in {"READY_TO_SHIP"} \cup Moving /\ row.status \in Moving
        <4>1. CASE order' # order
          BY <2>3, <4>1
        <4>2. CASE order' = order
          <5>1. u = "SHIPPED" /\ expectedOrder[t] = "READY_TO_SHIP" /\ t \notin FinalShipment
            BY <2>5 DEF orderTarget, expectedOrder, FinalShipment
          <5>2. AsksOrder(k, t) <=> s # "SHIPPED"
            BY <5>1 DEF AsksOrder
          <5>3. s # "SHIPPED" /\ s # "READY_TO_SHIP" => orderRank(s) > orderRank("SHIPPED")
            BY <1>4, <5>1, <5>2 DEF transitionShipment
          <5>4. orderRank(s) > orderRank("SHIPPED") => s \in {"IN_DELIVERY", "DELIVERED"}
            BY DEF orderRank
          <5>5. s # "READY_TO_SHIP"
            <6> SUFFICES ASSUME s = "READY_TO_SHIP" PROVE FALSE
              OBVIOUS
            <6>1. order' = [order EXCEPT ![o] = AdvancedRow(order[o], u)]
              BY <1>4, <5>1, <5>2 DEF transitionShipment, Advance
            <6>2. order'[o].status = "SHIPPED"
              BY <1>d, <2>1, <5>1, <6>1 DEF AdvancedRow, OrderRow, RowsTyped
            <6> QED BY <4>2, <6>2
          <5>6. row.status = s
            BY <2>1, <2>2, <4>2 DEF RowsTyped
          <5> QED BY <5>3, <5>4, <5>5, <5>6 DEF Moving
        <4> QED BY <4>1, <4>2
      <3>3. ASSUME NEW l \in Lines
            PROVE  ReservationFits(rows[l], row.status)
        <4>1. CASE l \in PackedLines(k)
          <5>1. content[k][l] \in Nat /\ content[k][l] > 0
            BY <4>1 DEF PackedLines, RowsTyped
          <5> QED BY <1>c, <2>1, <3>1, <3>2, <4>1, <5>1, FulfillFits
        <4>2. CASE l \notin PackedLines(k)
          BY <1>c, <2>1, <3>2, <4>2, ForwardFits
        <4> QED BY <4>1, <4>2
      <3> HIDE DEF rows
      <3> QED BY <1>b, <2>1, <2>2, <3>1, <3>3
    <2> QED BY <2>4, <2>5
  <1>5. ASSUME NEW k \in Packages, NEW o \in Orders, PackageStep(o, k)
        PROVE  ReservationFollowsOrder'
    BY <1>a, <1>5 DEF PackageStep, shipExistingPackage, InsertPackage
  <1>6. CASE StockNext
    <2>1. ASSUME NEW P \in SUBSET Products, NEW S \in SUBSET Orders, NEW late,
                 resetShopData(P, S, late)
          PROVE  ReservationFollowsOrder'
      BY <2>1, AbsentFits DEF resetShopData, ReservationFollowsOrder
    <2> QED
      BY <1>a, <1>6, <2>1
      DEF StockNext, createControlWarehouse, updateControlWarehouse, updateProduct, Archive,
          updateWarehouseInventory, createProduct, unchangedOrders
  <1>7. CASE Tick \/ UNCHANGED vars
    BY <1>a, <1>7 DEF Tick, vars
  <1> QED BY <1>1, <1>2, <1>3, <1>4, <1>5, <1>6, <1>7 DEF StepKinds

LEMMA InitReservation == Init => ReservationFollowsOrder
  BY AbsentFits DEF Init, ReservationFollowsOrder

(* A reservation is held exactly as long as its order may still ship it:
   cancellation releases it, shipping consumes it, and nothing does both. *)
THEOREM ReservationsFollowOrders == Spec => []ReservationFollowsOrder
  <1>1. RowsTyped /\ ReservationFollowsOrder /\ [Next]_vars => ReservationFollowsOrder'
    BY NextKinds, ReservationStep
  <1> QED BY <1>1, InitReservation, RowsAreTyped, PTL DEF Spec

-----------------------------------------------------------------------------
(* Parcels and orders *)

(* A shipment that closes its order is the last one still open. *)
LEMMA LastShipment ==
  ASSUME RowsTyped, NEW k \in Packages, NEW t \in FinalShipment,
         pkg[k].shipment \notin {"NONE"} \cup FinalShipment, AsksOrder(k, t)
  PROVE  \A j \in Packages \ {k} :
           pkg[j].order = pkg[k].order => pkg[j].shipment \in {"NONE"} \cup FinalShipment
  <1> DEFINE o == pkg[k].order
             open == {j \in Shipments(o) : pkg[j].shipment \notin FinalShipment}
  <1>1. Cardinality(open) = 1
    BY DEF AsksOrder
  <1>2. IsFiniteSet(open)
    BY FiniteAssumption, FS_Subset DEF Shipments
  <1>3. PICK x : open = {x}
    BY <1>1, <1>2, FS_Singleton
  <1>4. k \in open
    BY DEF Shipments
  <1> QED BY <1>3, <1>4 DEF Shipments

(* The status a shipment has before a step is neither absent nor final. *)
LEMMA ExpectedOpen ==
  ASSUME NEW t \in ShipmentTargets
  PROVE  /\ expected[t] \in {"CREATED", "SHIPPED", "IN_DELIVERY", "DELIVERY_FAILED", "RETURNING"}
         /\ expected[t] = "CREATED" => t = "SHIPPED"
  <1>1. t \in {"SHIPPED", "IN_DELIVERY", "DELIVERED", "DELIVERY_FAILED", "RETURNING", "RETURNED"}
    BY DEF ShipmentTargets, ShipmentStatus
  <1>2. /\ expected["SHIPPED"] = "CREATED" /\ expected["IN_DELIVERY"] = "SHIPPED"
        /\ expected["DELIVERED"] = "IN_DELIVERY" /\ expected["DELIVERY_FAILED"] = "IN_DELIVERY"
        /\ expected["RETURNING"] = "DELIVERY_FAILED" /\ expected["RETURNED"] = "RETURNING"
    BY DEF expected
  <1> QED BY <1>1, <1>2

(* Only orders on their way have a shipment that can move: the first step of a
   shipment takes a waiting order along, and cancelled, completed and returned
   orders are out of reach. *)
LEMMA ShipmentOrderOpen ==
  ASSUME RowsTyped, ParcelsFollowOrder, NEW k \in Packages, NEW t \in ShipmentTargets,
         transitionShipment(k, t)
  PROVE  /\ order[pkg[k].order].status \in {"READY_TO_SHIP", "SHIPPED", "IN_DELIVERY"}
         /\ order' = order => order[pkg[k].order].status # "READY_TO_SHIP"
  <1> DEFINE o == pkg[k].order
             s == order[o].status
  <1>1. o \in Orders /\ pkg[k].shipment = expected[t] /\ pkg[k].status # "NONE"
    BY ShipmentStep
  <1>2. ParcelFits(pkg[k], s)
    BY <1>1 DEF ParcelsFollowOrder
  <1>3. s \notin {"DELIVERED", "COMPLETED", "RETURNED"}
    BY <1>1, <1>2, ExpectedOpen DEF ParcelFits, FinalShipment
  <1>4. s \in {"READY_TO_SHIP", "CANCELLED"} => t = "SHIPPED"
    BY <1>1, <1>2, ExpectedOpen DEF ParcelFits
  <1>5. t = "SHIPPED" => /\ orderTarget[t] = "SHIPPED" /\ expectedOrder[t] = "READY_TO_SHIP"
                         /\ t \notin FinalShipment
    BY DEF orderTarget, expectedOrder, FinalShipment
  <1>6. s \in {"READY_TO_SHIP", "CANCELLED"} => AsksOrder(k, t)
    BY <1>4, <1>5 DEF AsksOrder
  <1>7. s # "CANCELLED"
    <2> SUFFICES ASSUME s = "CANCELLED" PROVE FALSE
      OBVIOUS
    <2>1. orderRank(s) > orderRank("SHIPPED")
      BY <1>4, <1>5, <1>6 DEF transitionShipment
    <2> QED BY <2>1 DEF orderRank
  <1>8. s = "READY_TO_SHIP" => order' # order
    <2> SUFFICES ASSUME s = "READY_TO_SHIP" PROVE order' # order
      OBVIOUS
    <2>1. order' = [order EXCEPT ![o] = AdvancedRow(order[o], "SHIPPED")]
      BY <1>4, <1>5, <1>6 DEF transitionShipment, Advance
    <2>2. order[o] \in OrderRow
      BY <1>1 DEF RowsTyped
    <2>3. order'[o].status = "SHIPPED"
      BY <1>1, <2>1, <2>2 DEF AdvancedRow, OrderRow, RowsTyped
    <2> QED BY <2>3
  <1> QED BY <1>2, <1>3, <1>7, <1>8 DEF ParcelFits, Moving

LEMMA ParcelStep ==
  ASSUME RowsTyped, ParcelsFollowOrder, StepKinds
  PROVE  ParcelsFollowOrder'
  <1>a. ASSUME UNCHANGED <<order, pkg>>
        PROVE  ParcelsFollowOrder'
    BY <1>a DEF ParcelsFollowOrder
  <1>b. \A j \in Packages : pkg[j] \in PackageRow /\
          (pkg[j].status # "NONE" =>
             pkg[j].order \in Orders /\ ParcelFits(pkg[j], order[pkg[j].order].status))
    BY DEF RowsTyped, ParcelsFollowOrder, AbsentPackage, PackageRow
  <1>c. \A o \in Orders : order[o] \in OrderRow
    BY DEF RowsTyped
  (* A step that only writes one order's status. *)
  <1>d. ASSUME NEW o \in Orders, NEW row, order' = [order EXCEPT ![o] = row], UNCHANGED pkg,
               \A j \in Packages : pkg[j].status # "NONE" /\ pkg[j].order = o =>
                 ParcelFits(pkg[j], row.status)
        PROVE  ParcelsFollowOrder'
    BY <1>b, <1>d DEF ParcelsFollowOrder, RowsTyped
  <1>1. ASSUME NEW o \in Orders, NEW want \in Requests, createSimulatedOrder(o, want)
        PROVE  ParcelsFollowOrder'
    <2>1. PICK w \in Warehouses : order' = [order EXCEPT ![o] = NewOrder(w)]
      BY <1>1 DEF createSimulatedOrder
    <2>2. order[o].status = "NONE" /\ UNCHANGED pkg
      BY <1>1 DEF createSimulatedOrder, parcelVars
    <2>3. \A j \in Packages : ~ (pkg[j].status # "NONE" /\ pkg[j].order = o)
      BY <1>b, <2>2 DEF ParcelFits, Moving
    <2> QED BY <1>d, <2>1, <2>2, <2>3
  <1>2. ASSUME NEW o \in Orders, NEW target \in RequestedTargets, Transition(o, target)
        PROVE  ParcelsFollowOrder'
    <2> DEFINE new == AdvancedRow(order[o], target)
    <2>1. /\ CanTransition(order[o].status, target)
          /\ order' = [order EXCEPT ![o] = new] /\ UNCHANGED pkg
      BY <1>2 DEF Transition, Advance, parcelVars
    <2>2. new.status = target
      BY <1>c DEF AdvancedRow, OrderRow
    <2> HIDE DEF new
    <2>3. \/ order[o].status \in {"UNPAID", "PAID", "PROCESSING"}
          \/ order[o].status = "DELIVERED" /\ target = "COMPLETED"
      BY <2>1 DEF CanTransition, transitions, RequestedTargets
    <2>4. \A j \in Packages : pkg[j].status # "NONE" /\ pkg[j].order = o =>
            ParcelFits(pkg[j], new.status)
      BY <1>b, <2>2, <2>3 DEF ParcelFits, Moving
    <2> QED BY <1>d, <2>1, <2>4
  <1>3. ASSUME NEW o \in Orders, NEW actor \in Actors, NEW reason \in Reasons,
               NEW payment \in PaymentStatus, CancelStep(o, actor, reason, payment)
        PROVE  ParcelsFollowOrder'
    <2> DEFINE new == CancelledRow(order[o], actor, reason, payment)
    <2>1. order' = [order EXCEPT ![o] = new] /\ UNCHANGED pkg
      BY <1>3 DEF CancelStep, Cancellation, MarkCancelled, parcelVars
    <2>2. new.status = "CANCELLED"
      BY <1>c DEF CancelledRow, OrderRow
    <2> HIDE DEF new
    <2>3. order[o].status \in {"UNPAID"} \cup AwaitingShipment
      BY <1>3 DEF CancelStep, CanCancel, ShopeeCancellable, CanTransition, transitions,
                  AwaitingShipment, Actors
    <2>4. \A j \in Packages : pkg[j].status # "NONE" /\ pkg[j].order = o =>
            ParcelFits(pkg[j], new.status)
      BY <1>b, <2>2, <2>3 DEF ParcelFits, Moving, AwaitingShipment
    <2> QED BY <1>d, <2>1, <2>4
  <1>4. ASSUME NEW k \in Packages, NEW t \in ShipmentTargets, transitionShipment(k, t)
        PROVE  ParcelsFollowOrder'
    <2> DEFINE o == pkg[k].order
               u == orderTarget[t]
               row == [pkg[k] EXCEPT !.status = t, !.shipment = t]
    <2>1. o \in Orders /\ pkg[k].shipment = expected[t] /\ pkg[k].status # "NONE"
      BY <1>4, ShipmentStep
    <2>2. pkg' = [pkg EXCEPT ![k] = row]
      BY <1>4 DEF transitionShipment
    <2>3. row.order = o /\ row.status = t /\ row.shipment = t
      BY <1>b DEF PackageRow
    <2>4. t \notin {"NONE", "CREATED"}
      BY DEF ShipmentTargets, ShipmentStatus
    <2> HIDE DEF row
    <2>5. ASSUME order' = order
          PROVE  ParcelsFollowOrder'
      <3>1. order[o].status \in {"SHIPPED", "IN_DELIVERY"}
        BY <1>4, <2>5, ShipmentOrderOpen
      <3>2. ParcelFits(row, order[o].status)
        BY <2>3, <2>4, <3>1 DEF ParcelFits, Moving
      <3> QED BY <1>b, <2>1, <2>2, <2>3, <2>5, <3>2 DEF ParcelsFollowOrder, RowsTyped
    <2>6. ASSUME AsksOrder(k, t), u \in {"SHIPPED", "IN_DELIVERY", "DELIVERED", "RETURNED"},
                 order' = [order EXCEPT ![o] = AdvancedRow(order[o], u)]
          PROVE  ParcelsFollowOrder'
      <3>1. AdvancedRow(order[o], u).status = u
        BY <1>c, <2>1 DEF AdvancedRow, OrderRow
      <3>2. /\ u \in {"DELIVERED", "RETURNED"} => t \in FinalShipment
            /\ t \in FinalShipment => u = t
        BY OrderTargets DEF FinalShipment
      <3>3. ParcelFits(row, u)
        BY <2>3, <2>4, <2>6, <3>2 DEF ParcelFits, Moving, FinalShipment
      <3>4. ASSUME NEW j \in Packages \ {k}, pkg[j].status # "NONE", pkg[j].order = o
            PROVE  ParcelFits(pkg[j], u)
        <4>1. ParcelFits(pkg[j], order[o].status)
          BY <1>b, <3>4
        <4>2. pkg[k].shipment \notin {"NONE"} \cup FinalShipment
          BY <2>1, ExpectedOpen DEF FinalShipment
        <4>3. u \in {"DELIVERED", "RETURNED"} => pkg[j].shipment \in {"NONE"} \cup FinalShipment
          BY <2>6, <3>2, <3>4, <4>2, LastShipment
        <4> QED BY <2>6, <4>1, <4>3 DEF ParcelFits, Moving
      <3> QED
        BY <1>b, <2>1, <2>2, <2>3, <2>6, <3>1, <3>3, <3>4 DEF ParcelsFollowOrder, RowsTyped
    <2> QED BY <1>4, <2>5, <2>6, ShipmentStep
  <1>5. ASSUME NEW k \in Packages, NEW o \in Orders, PackageStep(o, k)
        PROVE  ParcelsFollowOrder'
    <2>1. PICK row : /\ pkg' = [pkg EXCEPT ![k] = row] /\ UNCHANGED order
                     /\ order[o].status = "READY_TO_SHIP"
                     /\ row.order = o /\ row.status = "READY_TO_SHIP"
                     /\ row.shipment \in {"NONE", "CREATED"}
      <3>1. CASE shipExistingPackage(o, k)
        <4> DEFINE row == [pkg[k] EXCEPT !.shipment = "CREATED"]
        <4>1. row.order = o /\ row.status = "READY_TO_SHIP" /\ row.shipment = "CREATED"
          BY <1>b, <3>1 DEF shipExistingPackage, PackageRow
        <4>2. /\ pkg' = [pkg EXCEPT ![k] = row] /\ UNCHANGED order
              /\ order[o].status = "READY_TO_SHIP"
          BY <3>1 DEF shipExistingPackage
        <4> HIDE DEF row
        <4> QED BY <4>1, <4>2
      <3>2. CASE \E c \in [Lines -> Int], shipment \in {"NONE", "CREATED"} :
                   InsertPackage(o, k, c, shipment)
        <4>1. PICK c \in [Lines -> Int], shipment \in {"NONE", "CREATED"} :
                InsertPackage(o, k, c, shipment)
          BY <3>2
        <4> DEFINE row == [order |-> o, status |-> "READY_TO_SHIP", shipment |-> shipment]
        <4>2. row.order = o /\ row.status = "READY_TO_SHIP" /\ row.shipment = shipment
          OBVIOUS
        <4>3. /\ pkg' = [pkg EXCEPT ![k] = row] /\ UNCHANGED order
              /\ order[o].status = "READY_TO_SHIP"
          BY <4>1 DEF InsertPackage
        <4> HIDE DEF row
        <4> QED BY <4>2, <4>3
      <3> QED BY <1>5, <3>1, <3>2 DEF PackageStep
    <2>2. ParcelFits(row, "READY_TO_SHIP")
      BY <2>1 DEF ParcelFits, Moving
    <2> QED BY <1>b, <2>1, <2>2 DEF ParcelsFollowOrder, RowsTyped
  <1>6. CASE StockNext
    <2>1. ASSUME NEW P \in SUBSET Products, NEW S \in SUBSET Orders, NEW late,
                 resetShopData(P, S, late)
          PROVE  ParcelsFollowOrder'
      <3>1. AbsentPackage.status = "NONE"
        BY DEF AbsentPackage
      <3> QED BY <2>1, <3>1 DEF resetShopData, ParcelsFollowOrder
    <2> QED
      BY <1>a, <1>6, <2>1
      DEF StockNext, createControlWarehouse, updateControlWarehouse, updateProduct, Archive,
          updateWarehouseInventory, createProduct, unchangedOrders, parcelVars
  <1>7. CASE Tick \/ UNCHANGED vars
    BY <1>a, <1>7 DEF Tick, vars, parcelVars
  <1> QED BY <1>1, <1>2, <1>3, <1>4, <1>5, <1>6, <1>7 DEF StepKinds

LEMMA InitParcel == Init => ParcelsFollowOrder
  BY DEF Init, ParcelsFollowOrder, AbsentPackage

(* Nothing of a cancelled order leaves the warehouse and no order is closed with
   a shipment on the road, for any number of packages and shipments. *)
THEOREM ParcelsFollowOrders == Spec => []ParcelsFollowOrder
  <1>1. RowsTyped /\ ParcelsFollowOrder /\ [Next]_vars => ParcelsFollowOrder'
    BY NextKinds, ParcelStep
  <1> QED BY <1>1, InitParcel, RowsAreTyped, PTL DEF Spec

-----------------------------------------------------------------------------
(* The catalogue *)

LEMMA ArchiveStep ==
  ASSUME RowsTyped, ArchivedProductIdle, StepKinds
  PROVE  ArchivedProductIdle'
  <1> DEFINE Holds(o, l, p) == res[o][l].product = p /\ res[o][l].status \in Holding
             Gone(p) == product[p].status \in {"NONE", "DELETED"}
  <1>a. \A p \in Products : Gone(p) => \A o \in Orders, l \in Lines : ~ Holds(o, l, p)
    BY DEF ArchivedProductIdle, HeldLines
  (* It is enough that every reservation still held was held before, or is of a
     product on sale, and that products only disappear when nobody holds them. *)
  <1>b. ASSUME \A p \in Products : Gone(p)' => \A o \in Orders, l \in Lines : ~ Holds(o, l, p)'
        PROVE  ArchivedProductIdle'
    BY <1>b DEF ArchivedProductIdle, HeldLines
  <1>c. ASSUME \A p \in Products : product'[p].status = product[p].status,
               \A o \in Orders, l \in Lines, p \in Products : Holds(o, l, p)' => Holds(o, l, p)
        PROVE  ArchivedProductIdle'
    BY <1>a, <1>b, <1>c
  <1>d. \A p \in Products : product[p] \in ProductRow
    BY DEF RowsTyped
  <1>1. ASSUME NEW o \in Orders, NEW want \in Requests, createSimulatedOrder(o, want)
        PROVE  ArchivedProductIdle'
    <2>1. PICK w \in Warehouses : Allocate(o, want, w)
      BY <1>1 DEF createSimulatedOrder
    <2>2. \A l \in DOMAIN want : product[want[l].product].status = "ACTIVE"
      BY <1>1 DEF createSimulatedOrder
    <2>3. \A p \in Products : product'[p].status = product[p].status
      BY <1>d, <2>1 DEF Allocate, ProductRow
    <2>4. \A x \in Orders, l \in Lines :
            res'[x][l] = IF x = o
                         THEN IF l \in DOMAIN want THEN ReservedRow(want[l]) ELSE AbsentReservation
                         ELSE res[x][l]
      BY <2>1 DEF Allocate, RowsTyped
    <2>5. \A l \in DOMAIN want : ReservedRow(want[l]).product = want[l].product
      BY DEF ReservedRow
    <2>6. AbsentReservation.status \notin Holding
      BY DEF AbsentReservation, Holding
    <2>7. ASSUME NEW p \in Products, Gone(p)', NEW x \in Orders, NEW l \in Lines
          PROVE  ~ Holds(x, l, p)'
      <3>1. Gone(p)
        BY <2>3, <2>7
      <3>2. CASE x # o
        BY <1>a, <2>4, <3>1, <3>2
      <3>3. CASE x = o
        BY <2>2, <2>4, <2>5, <2>6, <3>1, <3>3
      <3> QED BY <3>2, <3>3
    <2> QED BY <1>b, <2>7
  <1>2. ASSUME NEW o \in Orders, NEW target \in RequestedTargets, Transition(o, target)
        PROVE  ArchivedProductIdle'
    <2>1. UNCHANGED product
      BY <1>2 DEF Transition, stockVars
    <2>2. \A x \in Orders, l \in Lines : res'[x][l] \in {res[x][l], CommittedRow(res[x][l])}
      BY <1>2 DEF Transition, Commit, RowsTyped
    <2>3. \A row \in ReservationRow : /\ CommittedRow(row).product = row.product
                                      /\ CommittedRow(row).status \in Holding => row.status \in Holding
      BY DEF CommittedRow, ReservationRow, Holding
    <2>4. \A x \in Orders, l \in Lines : res[x][l] \in ReservationRow
      BY DEF RowsTyped
    <2> QED BY <1>c, <2>1, <2>2, <2>3, <2>4
  <1>3. ASSUME NEW o \in Orders, NEW actor \in Actors, NEW reason \in Reasons,
               NEW payment \in PaymentStatus, CancelStep(o, actor, reason, payment)
        PROVE  ArchivedProductIdle'
    <2>1. Release(o)
      BY <1>3 DEF CancelStep, Cancellation
    <2>2. \A p \in Products : product'[p].status = product[p].status
      BY <1>d, <2>1 DEF Release, ProductRow
    <2>3. \A x \in Orders, l \in Lines : res'[x][l] \in {res[x][l], ReleasedRow(res[x][l])}
      BY <2>1 DEF Release, RowsTyped
    <2>4. \A row \in ReservationRow : /\ ReleasedRow(row).product = row.product
                                      /\ ReleasedRow(row).status \notin Holding
      BY DEF ReleasedRow, ReservationRow, Holding
    <2>5. \A x \in Orders, l \in Lines : res[x][l] \in ReservationRow
      BY DEF RowsTyped
    <2> QED BY <1>c, <2>2, <2>3, <2>4, <2>5
  <1>4. ASSUME NEW k \in Packages, NEW t \in ShipmentTargets, transitionShipment(k, t)
        PROVE  ArchivedProductIdle'
    <2>1. UNCHANGED product
      BY <1>4 DEF transitionShipment
    <2>2. \A x \in Orders, l \in Lines :
            \/ res'[x][l] = res[x][l]
            \/ res[x][l].status \in Holding /\ res'[x][l] = FulfilledRow(res[x][l], content[k][l])
      <3>1. CASE t # "SHIPPED"
        BY <1>4, <3>1 DEF transitionShipment
      <3>2. CASE t = "SHIPPED"
        <4> DEFINE o == pkg[k].order
                   rows == [l \in Lines |-> IF l \in PackedLines(k)
                              THEN FulfilledRow(res[o][l], content[k][l]) ELSE res[o][l]]
        <4>1. /\ res' = [res EXCEPT ![o] = rows]
              /\ \A l \in PackedLines(k) : res[o][l].status \in Holding
          BY <1>4, <3>2 DEF transitionShipment, FulfillPackage
        <4>2. \A l \in Lines : rows[l] = IF l \in PackedLines(k)
                                         THEN FulfilledRow(res[o][l], content[k][l]) ELSE res[o][l]
          OBVIOUS
        <4> HIDE DEF rows
        <4>3. \A x \in Orders : res'[x] = IF x = o THEN rows ELSE res[x]
          BY <4>1 DEF RowsTyped
        <4> QED BY <4>1, <4>2, <4>3
      <3> QED BY <3>1, <3>2
    <2>3. \A row \in ReservationRow : \A n : FulfilledRow(row, n).product = row.product
      BY DEF FulfilledRow, ReservationRow
    <2>4. \A x \in Orders, l \in Lines : res[x][l] \in ReservationRow
      BY DEF RowsTyped
    <2> QED BY <1>c, <2>1, <2>2, <2>3, <2>4
  <1>5. ASSUME NEW k \in Packages, NEW o \in Orders, PackageStep(o, k)
        PROVE  ArchivedProductIdle'
    <2>1. UNCHANGED <<product, res>>
      BY <1>5 DEF PackageStep, shipExistingPackage, InsertPackage, stockVars
    <2> QED BY <1>c, <2>1
  <1>6. CASE StockNext
    <2>1. ASSUME UNCHANGED res, \A p \in Products : Gone(p)' => Gone(p)
          PROVE  ArchivedProductIdle'
      BY <1>a, <1>b, <2>1
    <2>2. ASSUME NEW w \in Warehouses, NEW s \in {"ACTIVE", "INACTIVE"}, NEW i \in Priorities,
                 createControlWarehouse(w, s, i) \/ updateControlWarehouse(w, s, i)
          PROVE  ArchivedProductIdle'
      BY <2>1, <2>2 DEF createControlWarehouse, updateControlWarehouse, unchangedOrders, stockVars
    <2>3. ASSUME NEW w \in Warehouses, NEW p \in Products, NEW n \in Quantity,
                 updateWarehouseInventory(w, p, n)
          PROVE  ArchivedProductIdle'
      <3>1. UNCHANGED res /\ \A q \in Products : product'[q].status = product[q].status
        BY <1>d, <2>3 DEF updateWarehouseInventory, unchangedOrders, RowsTyped, ProductRow
      <3> QED BY <2>1, <3>1
    <2>4. ASSUME NEW p \in Products, NEW s \in {"ACTIVE", "INACTIVE"},
                 \/ \E initial \in [Warehouses -> Quantity] : createProduct(p, s, initial)
                 \/ updateProduct(p, s)
          PROVE  ArchivedProductIdle'
      <3>1. UNCHANGED res /\ \A q \in Products :
                               product'[q].status = IF q = p THEN s ELSE product[q].status
        BY <1>d, <2>4 DEF createProduct, updateProduct, unchangedOrders, RowsTyped, ProductRow
      <3> QED BY <2>1, <3>1
    <2>5. ASSUME NEW p \in Products, Archive(p)
          PROVE  ArchivedProductIdle'
      <3>1. UNCHANGED res /\ \A q \in Products \ {p} : product'[q].status = product[q].status
        BY <2>5 DEF Archive, unchangedOrders, RowsTyped
      <3>2. \A o \in Orders, l \in Lines : ~ Holds(o, l, p)
        BY <2>5 DEF Archive, HeldLines
      <3> QED BY <1>a, <1>b, <3>1, <3>2
    <2>6. ASSUME NEW P \in SUBSET Products, NEW S \in SUBSET Orders, NEW late,
                 resetShopData(P, S, late)
          PROVE  ArchivedProductIdle'
      <3>1. \A o \in Orders, l \in Lines : res'[o][l].status \notin Holding
        BY <2>6 DEF resetShopData, AbsentReservation, Holding
      <3> QED BY <1>b, <3>1
    <2> QED BY <1>6, <2>2, <2>3, <2>4, <2>5, <2>6 DEF StockNext
  <1>7. CASE Tick \/ UNCHANGED vars
    BY <1>c, <1>7 DEF Tick, vars, stockVars
  <1> QED BY <1>1, <1>2, <1>3, <1>4, <1>5, <1>6, <1>7 DEF StepKinds

LEMMA InitArchive == Init => ArchivedProductIdle
  BY DEF Init, ArchivedProductIdle, HeldLines, AbsentReservation, Holding

(* A product is archived only when no reservation depends on it, and no order is
   allocated against an archived product. *)
THEOREM ArchivedProductsIdle == Spec => []ArchivedProductIdle
  <1>1. RowsTyped /\ ArchivedProductIdle /\ [Next]_vars => ArchivedProductIdle'
    BY NextKinds, ArchiveStep
  <1> QED BY <1>1, InitArchive, RowsAreTyped, PTL DEF Spec

-----------------------------------------------------------------------------
(* The events of an order *)

OrderTypes ==
  {OrderEvent[x] : x \in DOMAIN OrderEvent} \cup CancellationCauses \cup {"order.created"}

(* The orders that EventsMirrorOrders speaks of. *)
Told(row) == row.status # "NONE" /\ row # SeededOrder

(* EventsMirrorOrders for one order o of status s and the recorded events ev. *)
Mirrored(ev, o, s) ==
  LET Announced(x) == <<o, OrderEvent[x]>> \in ev IN
  /\ s \in DOMAIN OrderEvent => Announced(s)
  /\ \A x \in DOMAIN OrderEvent \ {s} : Announced(x) =>
       \E y \in OrderStatus : CanTransition(x, y) /\ (y = s \/ Announced(y))
  /\ \A e \in CancellationCauses : <<o, e>> \in ev => s = "CANCELLED"
  /\ <<o, "order.created">> \in ev

LEMMA EventsByOrder ==
  EventsMirrorOrders <=>
    \A o \in Orders : Told(order[o]) => Mirrored(events, o, order[o].status)
  BY DEF EventsMirrorOrders, Told, Mirrored, CancellationCauses

LEMMA EventTypes ==
  /\ DOMAIN OrderEvent = {"PAID", "PROCESSING", "READY_TO_SHIP", "SHIPPED", "IN_DELIVERY",
                          "DELIVERED", "COMPLETED", "RETURNED", "CANCELLED"}
  /\ \A x, y \in DOMAIN OrderEvent : OrderEvent[x] = OrderEvent[y] => x = y
  /\ \A x \in DOMAIN OrderEvent :
       OrderEvent[x] \notin CancellationCauses \cup {"order.created"}
  /\ OrderEvent["CANCELLED"] = "order.cancelled"
  /\ "order.created" \notin CancellationCauses
  BY DEF OrderEvent, CancellationCauses

(* The targets and sources of the edges of the state machine. *)
LEMMA Edges ==
  ASSUME NEW s, NEW t, CanTransition(s, t)
  PROVE  /\ t \in DOMAIN OrderEvent /\ t \in OrderStatus /\ s # t
         /\ s \notin {"NONE", "CANCELLED", "COMPLETED"}
  BY EventTypes DEF CanTransition, transitions, OrderStatus

(* Events of other aggregates or of other types say nothing of an order. *)
LEMMA MirroredSame ==
  ASSUME NEW o, NEW s, NEW ev, NEW ev2, Mirrored(ev, o, s),
         \A e \in OrderTypes : <<o, e>> \in ev2 <=> <<o, e>> \in ev
  PROVE  Mirrored(ev2, o, s)
  <1>1. /\ \A x \in DOMAIN OrderEvent :
             <<o, OrderEvent[x]>> \in ev2 <=> <<o, OrderEvent[x]>> \in ev
        /\ \A e \in CancellationCauses : <<o, e>> \in ev2 <=> <<o, e>> \in ev
        /\ <<o, "order.created">> \in ev2 <=> <<o, "order.created">> \in ev
    BY DEF OrderTypes
  <1>2. \A x, y : CanTransition(x, y) => y \in DOMAIN OrderEvent
    BY Edges
  <1> QED BY <1>1, <1>2 DEF Mirrored

(* The events ev2 add the announcement of status t to ev and, when t is CANCELLED,
   perhaps its causes. *)
Announces(ev, ev2, o, t, causes) ==
  /\ causes \in SUBSET CancellationCauses /\ (causes # {} => t = "CANCELLED")
  /\ \A e \in OrderTypes :
       <<o, e>> \in ev2 <=> <<o, e>> \in ev \/ e = OrderEvent[t] \/ e \in causes

(* One edge of the state machine, announced with the status it leads to. *)
LEMMA MirroredEdge ==
  ASSUME NEW o, NEW s, NEW t, NEW ev, NEW ev2, NEW causes,
         Mirrored(ev, o, s), CanTransition(s, t), Announces(ev, ev2, o, t, causes)
  PROVE  Mirrored(ev2, o, t)
  <1> USE DEF Announces
  <1>1. /\ t \in DOMAIN OrderEvent /\ t \in OrderStatus
        /\ s \notin {"NONE", "CANCELLED"} /\ t # "NONE"
    BY Edges DEF OrderStatus
  <1>2. /\ \A x \in DOMAIN OrderEvent :
             <<o, OrderEvent[x]>> \in ev2 <=> <<o, OrderEvent[x]>> \in ev \/ x = t
        /\ \A e \in CancellationCauses : <<o, e>> \in ev2 <=> <<o, e>> \in ev \/ e \in causes
        /\ <<o, "order.created">> \in ev2 <=> <<o, "order.created">> \in ev
    BY <1>1, EventTypes DEF OrderTypes
  <1>3. ASSUME NEW x \in DOMAIN OrderEvent \ {t}, <<o, OrderEvent[x]>> \in ev2
        PROVE  \E y \in OrderStatus :
                 CanTransition(x, y) /\ (y = t \/ <<o, OrderEvent[y]>> \in ev2)
    <2>1. CASE x = s
      BY <1>1, <2>1
    <2>2. CASE x # s
      <3>1. PICK y \in OrderStatus :
              CanTransition(x, y) /\ (y = s \/ <<o, OrderEvent[y]>> \in ev)
        BY <1>2, <1>3, <2>2 DEF Mirrored
      <3>2. y \in DOMAIN OrderEvent
        BY <3>1, Edges
      <3>3. <<o, OrderEvent[y]>> \in ev
        BY <3>1, <3>2 DEF Mirrored
      <3> QED BY <1>2, <3>1, <3>2, <3>3
    <2> QED BY <2>1, <2>2
  <1> QED BY <1>1, <1>2, <1>3 DEF Mirrored

LEMMA MirroredCreation ==
  ASSUME NEW o, NEW ev, NEW ev2, \A e \in OrderTypes : <<o, e>> \notin ev,
         \A e \in OrderTypes : <<o, e>> \in ev2 <=> <<o, e>> \in ev \/ e = "order.created"
  PROVE  Mirrored(ev2, o, "UNPAID")
  <1>1. /\ \A x \in DOMAIN OrderEvent : <<o, OrderEvent[x]>> \notin ev2
        /\ \A e \in CancellationCauses : <<o, e>> \notin ev2
        /\ <<o, "order.created">> \in ev2
    BY EventTypes DEF OrderTypes
  <1>2. "UNPAID" \notin DOMAIN OrderEvent
    BY EventTypes
  <1> QED BY <1>1, <1>2 DEF Mirrored

LEMMA EventsStep ==
  ASSUME RowsTyped, EventsMirrorOrders, StepKinds
  PROVE  EventsMirrorOrders'
  <1> DEFINE Same(x) == \A e \in OrderTypes : <<x, e>> \in events' <=> <<x, e>> \in events
  <1>a. /\ \A o \in Orders : order[o] \in OrderRow
        /\ \A o \in Orders : Told(order[o]) => Mirrored(events, o, order[o].status)
    BY EventsByOrder DEF RowsTyped
  <1>b. ASSUME \A o \in Orders : Told(order'[o]) => Mirrored(events', o, order'[o].status)
        PROVE  EventsMirrorOrders'
    BY <1>b DEF EventsMirrorOrders, Told, Mirrored, CancellationCauses
  <1>c. SeededOrder.status = "COMPLETED"
    BY DEF SeededOrder, AbsentOrder
  (* Steps that touch no order row and record no event of an order. *)
  <1>0. ASSUME UNCHANGED order, \A o \in Orders : Same(o)
        PROVE  EventsMirrorOrders'
    <2>1. \A o \in Orders : Told(order'[o]) => Mirrored(events', o, order'[o].status)
      BY <1>0, <1>a, MirroredSame
    <2> QED BY <1>b, <2>1
  (* Steps that touch one order row. *)
  <1>d. ASSUME NEW o \in Orders, NEW row, order' = [order EXCEPT ![o] = row],
               \A x \in Orders \ {o} : Same(x),
               Mirrored(events', o, row.status)
        PROVE  EventsMirrorOrders'
    <2>1. order'[o] = row /\ \A x \in Orders \ {o} : order'[x] = order[x]
      BY <1>d DEF RowsTyped
    <2>2. \A x \in Orders : Told(order'[x]) => Mirrored(events', x, order'[x].status)
      BY <1>a, <1>d, <2>1, MirroredSame
    <2> QED BY <1>b, <2>2
  (* Edges of the state machine. *)
  <1>e. ASSUME NEW o \in Orders, NEW row, NEW t, NEW causes,
               order' = [order EXCEPT ![o] = row],
               row.status = t, CanTransition(order[o].status, t),
               Announces(events, events', o, t, causes),
               \A x \in Orders \ {o} : Same(x)
        PROVE  EventsMirrorOrders'
    <2>1. Told(order[o])
      BY <1>c, <1>e, Edges DEF Told
    <2>2. Mirrored(events', o, t)
      BY <1>a, <1>e, <2>1, MirroredEdge
    <2> QED BY <1>d, <1>e, <2>2
  <1>1. ASSUME NEW o \in Orders, NEW want \in Requests, createSimulatedOrder(o, want)
        PROVE  EventsMirrorOrders'
    <2>1. PICK w \in Warehouses : order' = [order EXCEPT ![o] = NewOrder(w)]
      BY <1>1 DEF createSimulatedOrder
    <2>2. /\ NewOrder(w).status = "UNPAID"
          /\ events' = events \cup {<<o, "order.created">>}
      BY <1>1 DEF createSimulatedOrder, NewOrder, AbsentOrder, Record
    <2>3. \A e \in OrderTypes : <<o, e>> \notin events
      BY <1>1 DEF createSimulatedOrder, Unused
    <2>4. Mirrored(events', o, "UNPAID")
      BY <2>2, <2>3, MirroredCreation
    <2> QED BY <1>d, <2>1, <2>2, <2>4
  <1>2. ASSUME NEW o \in Orders, NEW target \in RequestedTargets, Transition(o, target)
        PROVE  EventsMirrorOrders'
    <2>1. /\ CanTransition(order[o].status, target)
          /\ order' = [order EXCEPT ![o] = AdvancedRow(order[o], target)]
          /\ events' = events \cup {<<o, OrderEvent[target]>>}
      BY <1>2 DEF Transition, Advance, Record
    <2>2. AdvancedRow(order[o], target).status = target
      BY <1>a DEF AdvancedRow, OrderRow
    <2>3. /\ Announces(events, events', o, target, {})
          /\ \A x \in Orders \ {o} : Same(x)
      BY <2>1 DEF Announces
    <2> QED BY <1>e, <2>1, <2>2, <2>3
  <1>3. ASSUME NEW o \in Orders, NEW actor \in Actors, NEW reason \in Reasons,
               NEW payment \in PaymentStatus, CancelStep(o, actor, reason, payment)
        PROVE  EventsMirrorOrders'
    <2> DEFINE row == CancelledRow(order[o], actor, reason, payment)
    <2>1. PICK causes \in SUBSET CancellationCauses :
            events' = events \cup {<<o, t>> : t \in causes \cup {"order.cancelled"}}
      BY <1>3 DEF CancelStep, CancellationRecorded, Record
    <2>2. order' = [order EXCEPT ![o] = row]
      BY <1>3 DEF CancelStep, Cancellation, MarkCancelled
    <2>3. row.status = "CANCELLED"
      BY <1>a DEF CancelledRow, OrderRow
    <2>4. CanTransition(order[o].status, "CANCELLED")
      BY <1>3 DEF CancelStep, CanCancel, ShopeeCancellable, CanTransition, transitions, Actors
    <2>5. /\ Announces(events, events', o, "CANCELLED", causes)
          /\ \A x \in Orders \ {o} : Same(x)
      BY <2>1, EventTypes DEF Announces
    <2> HIDE DEF row
    <2> QED BY <1>e, <2>2, <2>3, <2>4, <2>5
  <1>4. ASSUME NEW k \in Packages, NEW t \in ShipmentTargets, transitionShipment(k, t)
        PROVE  EventsMirrorOrders'
    <2>1. PICK o \in Orders : o = pkg[k].order
      BY <1>4, ShipmentStep
    <2> DEFINE u == orderTarget[t]
               moves == AsksOrder(k, t) /\ order[o].status = expectedOrder[t]
    <2>2. /\ moves => /\ CanTransition(order[o].status, u)
                      /\ order' = [order EXCEPT ![o] = AdvancedRow(order[o], u)]
          /\ ~ moves => UNCHANGED order
          /\ events' = events
               \cup (IF moves THEN {<<o, OrderEvent[u]>>} ELSE {})
               \cup (IF t \in DOMAIN ShipmentEvent THEN {<<k, ShipmentEvent[t]>>} ELSE {})
      BY <1>4, <2>1 DEF transitionShipment, Advance
    <2>3. \A x \in DOMAIN ShipmentEvent : ShipmentEvent[x] \notin OrderTypes
      BY DEF ShipmentEvent, OrderTypes, OrderEvent, CancellationCauses
    <2>4. AdvancedRow(order[o], u).status = u
      BY <1>a DEF AdvancedRow, OrderRow
    <2> HIDE DEF u, moves
    <2>5. CASE ~ moves
      <3>1. \A x \in Orders : Same(x)
        BY <2>2, <2>3, <2>5
      <3> QED BY <1>0, <2>2, <2>5, <3>1
    <2>6. CASE moves
      <3>1. /\ Announces(events, events', o, u, {})
            /\ \A x \in Orders \ {o} : Same(x)
        BY <2>2, <2>3, <2>6 DEF Announces
      <3> QED BY <1>e, <2>2, <2>4, <2>6, <3>1
    <2> QED BY <2>5, <2>6
  <1>5. ASSUME NEW k \in Packages, NEW o \in Orders, PackageStep(o, k)
        PROVE  EventsMirrorOrders'
    <2>1. UNCHANGED <<order, events>>
      BY <1>5 DEF PackageStep, shipExistingPackage, InsertPackage
    <2> QED BY <1>0, <2>1
  <1>6. CASE StockNext
    <2>1. ASSUME NEW P \in SUBSET Products, NEW S \in SUBSET Orders, NEW late,
                 resetShopData(P, S, late)
          PROVE  EventsMirrorOrders'
      <3>1. \A o \in Orders : order'[o] = SeededOrder \/ order'[o].status = "NONE"
        BY <2>1 DEF resetShopData, AbsentOrder
      <3> QED BY <1>b, <3>1 DEF Told
    <2>2. ASSUME NEW p, NEW e \in {"product.created", "product.updated", "product.deleted"},
                 Record(p, {e}), UNCHANGED order
          PROVE  EventsMirrorOrders'
      <3>1. e \notin OrderTypes
        BY DEF OrderTypes, OrderEvent, CancellationCauses
      <3>2. \A x \in Orders : Same(x)
        BY <2>2, <3>1 DEF Record
      <3> QED BY <1>0, <2>2, <3>2
    <2>3. ASSUME UNCHANGED <<order, events>>
          PROVE  EventsMirrorOrders'
      BY <1>0, <2>3
    <2> QED
      BY <1>6, <2>1, <2>2, <2>3
      DEF StockNext, createControlWarehouse, updateControlWarehouse, updateProduct, Archive,
          updateWarehouseInventory, createProduct, unchangedOrders
  <1>7. CASE Tick \/ UNCHANGED vars
    <2>1. UNCHANGED <<order, events>>
      BY <1>7 DEF Tick, vars
    <2> QED BY <1>0, <2>1
  <1> QED BY <1>1, <1>2, <1>3, <1>4, <1>5, <1>6, <1>7 DEF StepKinds

LEMMA InitEvents == Init => EventsMirrorOrders
  <1> SUFFICES ASSUME Init PROVE EventsMirrorOrders
    OBVIOUS
  <1>1. \A o \in Orders : order[o].status = "NONE"
    BY DEF Init, AbsentOrder
  <1> QED BY <1>1, EventsByOrder DEF Told

(* What the recorded events of an existing order say is true of it in every reachable
   state: its creation and its status have been announced, nothing it has not been
   through has, and a payment or deadline failure only together with its cancellation. *)
THEOREM EventsMirrored == Spec => []EventsMirrorOrders
  <1>1. RowsTyped /\ EventsMirrorOrders /\ [Next]_vars => EventsMirrorOrders'
    BY NextKinds, EventsStep
  <1> QED BY <1>1, InitEvents, RowsAreTyped, PTL DEF Spec

-----------------------------------------------------------------------------
(* What a step may never do *)

(* Every status change follows the one state machine, every cancellation is one
   the provider grants its actor, also where a handler writes the status without
   consulting the table. *)
THEOREM OneStateMachine == Spec => SingleStateMachine
  <1> DEFINE Legal(o) ==
        LET s == order[o].status  t == order'[o].status IN
        \/ t = s
        \/ order'[o] \in {AbsentOrder, SeededOrder}
        \/ s = "NONE" /\ t = "UNPAID"
        \/ /\ CanTransition(s, t)
           /\ t = "CANCELLED" => CanCancel(provider, s, order'[o].actor)
  <1>1. ASSUME RowsTyped, StepKinds, NEW o \in Orders
        PROVE  Legal(o)
    <2>a. \A x \in Orders : order[x] \in OrderRow
      BY <1>1 DEF RowsTyped
    <2>b. ASSUME NEW x \in Orders, NEW row, order' = [order EXCEPT ![x] = row], x # o
          PROVE  Legal(o)
      BY <1>1, <2>b DEF RowsTyped
    <2>c. ASSUME NEW row, order' = [order EXCEPT ![o] = row]
          PROVE  order'[o] = row
      BY <1>1, <2>c DEF RowsTyped
    <2>d. ASSUME NEW x \in Orders, NEW u, order' = [order EXCEPT ![x] = AdvancedRow(order[x], u)],
                 CanTransition(order[x].status, u), u # "CANCELLED"
          PROVE  Legal(o)
      <3>1. AdvancedRow(order[x], u).status = u
        BY <2>a DEF AdvancedRow, OrderRow
      <3> QED BY <2>b, <2>c, <2>d, <3>1
    <2>1. ASSUME NEW x \in Orders, NEW want \in Requests, createSimulatedOrder(x, want)
          PROVE  Legal(o)
      <3>1. PICK w \in Warehouses : order' = [order EXCEPT ![x] = NewOrder(w)]
        BY <2>1 DEF createSimulatedOrder
      <3>2. order[x].status = "NONE" /\ NewOrder(w).status = "UNPAID"
        BY <2>1 DEF createSimulatedOrder, NewOrder, AbsentOrder
      <3> QED BY <2>b, <2>c, <3>1, <3>2
    <2>2. ASSUME NEW x \in Orders, NEW target \in RequestedTargets, Transition(x, target)
          PROVE  Legal(o)
      <3>1. target # "CANCELLED"
        BY DEF RequestedTargets
      <3> QED BY <2>2, <2>d, <3>1 DEF Transition, Advance
    <2>3. ASSUME NEW x \in Orders, NEW actor \in Actors, NEW reason \in Reasons,
                 NEW payment \in PaymentStatus, CancelStep(x, actor, reason, payment)
          PROVE  Legal(o)
      <3> DEFINE new == CancelledRow(order[x], actor, reason, payment)
      <3>1. order' = [order EXCEPT ![x] = new]
        BY <2>3 DEF CancelStep, Cancellation, MarkCancelled
      <3>2. new.status = "CANCELLED" /\ new.actor = actor
        BY <2>a DEF CancelledRow, OrderRow
      <3> HIDE DEF new
      <3>3. CanCancel(provider, order[x].status, actor)
        <4>1. CASE actor # "SYSTEM"
          BY <2>3, <4>1 DEF CancelStep
        <4>2. CASE actor = "SYSTEM"
          <5>1. order[x].status \in {"UNPAID", "PAID", "PROCESSING"}
            BY <2>3, <4>2 DEF CancelStep
          <5> QED BY <4>2, <5>1 DEF CanCancel, ShopeeCancellable, CanTransition, transitions
        <4> QED BY <4>1, <4>2
      <3>4. CanTransition(order[x].status, "CANCELLED")
        BY <3>3 DEF CanCancel, ShopeeCancellable, CanTransition, transitions, Actors
      <3> QED BY <2>b, <2>c, <3>1, <3>2, <3>3, <3>4
    <2>4. ASSUME NEW k \in Packages, NEW t \in ShipmentTargets, transitionShipment(k, t)
          PROVE  Legal(o)
      <3>1. \/ order' = order
            \/ /\ pkg[k].order \in Orders
               /\ CanTransition(order[pkg[k].order].status, orderTarget[t])
               /\ orderTarget[t] \in {"SHIPPED", "IN_DELIVERY", "DELIVERED", "RETURNED"}
               /\ order' = [order EXCEPT ![pkg[k].order] =
                              AdvancedRow(order[pkg[k].order], orderTarget[t])]
        BY <1>1, <2>4, ShipmentStep
      <3> QED BY <2>d, <3>1
    <2>5. ASSUME NEW k \in Packages, NEW x \in Orders, PackageStep(x, k)
          PROVE  Legal(o)
      BY <2>5 DEF PackageStep, shipExistingPackage, InsertPackage
    <2>6. CASE StockNext
      <3>1. ASSUME NEW P \in SUBSET Products, NEW S \in SUBSET Orders, NEW late,
                   resetShopData(P, S, late)
            PROVE  Legal(o)
        BY <3>1 DEF resetShopData
      <3> QED
        BY <2>6, <3>1
        DEF StockNext, createControlWarehouse, updateControlWarehouse, updateProduct, Archive,
            updateWarehouseInventory, createProduct, unchangedOrders
    <2>7. CASE Tick \/ UNCHANGED vars
      BY <2>7 DEF Tick, vars
    <2> QED BY <1>1, <2>1, <2>2, <2>3, <2>4, <2>5, <2>6, <2>7 DEF StepKinds
  <1>2. RowsTyped /\ [Next]_vars => [\A o \in Orders : Legal(o)]_vars
    BY <1>1, NextKinds
  <1> QED BY <1>2, RowsAreTyped, PTL DEF Spec, SingleStateMachine

(* Cancelled, completed and returned orders and their reservations stay as they
   are until a reset removes them: nothing is paid, cancelled, shipped or
   released twice. *)
THEOREM FinishedFrozen == Spec => FinishedOrdersFrozen
  <1> DEFINE Finished == {"CANCELLED", "COMPLETED", "RETURNED"}
             Frozen(o) == /\ order[o].status \in {"CANCELLED", "COMPLETED", "RETURNED"}
                          /\ order'[o] \notin {AbsentOrder, SeededOrder}
                          => order'[o] = order[o] /\ res'[o] = res[o]
  <1>1. ASSUME RowsTyped, ParcelsFollowOrder, StepKinds, NEW o \in Orders
        PROVE  Frozen(o)
    <2> SUFFICES ASSUME order[o].status \in Finished,
                        order'[o] \notin {AbsentOrder, SeededOrder}
                 PROVE  order'[o] = order[o] /\ res'[o] = res[o]
      OBVIOUS
    (* A step on an order that is not finished is a step on another order. *)
    <2>a. ASSUME NEW x \in Orders, order[x].status \notin Finished,
                 NEW row, NEW rows,
                 order' = order \/ order' = [order EXCEPT ![x] = row],
                 res' = res \/ res' = [res EXCEPT ![x] = rows]
          PROVE  order'[o] = order[o] /\ res'[o] = res[o]
      BY <1>1, <2>a DEF RowsTyped
    <2>1. ASSUME NEW x \in Orders, NEW want \in Requests, createSimulatedOrder(x, want)
          PROVE  order'[o] = order[o] /\ res'[o] = res[o]
      <3>1. order[x].status \notin Finished
        BY <2>1 DEF createSimulatedOrder
      <3>2. /\ \E row : order' = [order EXCEPT ![x] = row]
            /\ \E rows : res' = [res EXCEPT ![x] = rows]
        BY <2>1 DEF createSimulatedOrder, Allocate
      <3> QED BY <2>a, <3>1, <3>2
    <2>2. ASSUME NEW x \in Orders, NEW target \in RequestedTargets, Transition(x, target)
          PROVE  order'[o] = order[o] /\ res'[o] = res[o]
      <3>1. order[x].status \notin Finished
        BY <2>2 DEF Transition, CanTransition, transitions
      <3>2. /\ \E row : order' = [order EXCEPT ![x] = row]
            /\ res' = res \/ \E rows : res' = [res EXCEPT ![x] = rows]
        BY <2>2 DEF Transition, Advance, Commit
      <3> QED BY <2>a, <3>1, <3>2
    <2>3. ASSUME NEW x \in Orders, NEW actor \in Actors, NEW reason \in Reasons,
                 NEW payment \in PaymentStatus, CancelStep(x, actor, reason, payment)
          PROVE  order'[o] = order[o] /\ res'[o] = res[o]
      <3>1. order[x].status \notin Finished
        BY <2>3 DEF CancelStep, CanCancel, ShopeeCancellable, CanTransition, transitions, Actors
      <3>2. /\ \E row : order' = [order EXCEPT ![x] = row]
            /\ \E rows : res' = [res EXCEPT ![x] = rows]
        BY <2>3 DEF CancelStep, Cancellation, MarkCancelled, Release
      <3> QED BY <2>a, <3>1, <3>2
    <2>4. ASSUME NEW k \in Packages, NEW t \in ShipmentTargets, transitionShipment(k, t)
          PROVE  order'[o] = order[o] /\ res'[o] = res[o]
      <3>1. pkg[k].order \in Orders /\ order[pkg[k].order].status \notin Finished
        BY <1>1, <2>4, ShipmentOrderOpen, ShipmentStep
      <3>2. /\ order' = order \/ \E row : order' = [order EXCEPT ![pkg[k].order] = row]
            /\ res' = res \/ \E rows : res' = [res EXCEPT ![pkg[k].order] = rows]
        BY <2>4 DEF transitionShipment, FulfillPackage, Advance
      <3> QED BY <2>a, <3>1, <3>2
    <2>5. ASSUME NEW k \in Packages, NEW x \in Orders, PackageStep(x, k)
          PROVE  order'[o] = order[o] /\ res'[o] = res[o]
      BY <2>5 DEF PackageStep, shipExistingPackage, InsertPackage
    <2>6. CASE StockNext
      <3>1. ASSUME NEW P \in SUBSET Products, NEW S \in SUBSET Orders, NEW late,
                   resetShopData(P, S, late)
            PROVE  order'[o] = order[o] /\ res'[o] = res[o]
        BY <3>1 DEF resetShopData
      <3> QED
        BY <2>6, <3>1
        DEF StockNext, createControlWarehouse, updateControlWarehouse, updateProduct, Archive,
            updateWarehouseInventory, createProduct, unchangedOrders
    <2>7. CASE Tick \/ UNCHANGED vars
      BY <2>7 DEF Tick, vars
    <2> QED BY <1>1, <2>1, <2>2, <2>3, <2>4, <2>5, <2>6, <2>7 DEF StepKinds
  <1>2. RowsTyped /\ ParcelsFollowOrder /\ [Next]_vars => [\A o \in Orders : Frozen(o)]_vars
    BY <1>1, NextKinds
  <1> QED BY <1>2, RowsAreTyped, ParcelsFollowOrders, PTL DEF Spec, FinishedOrdersFrozen
=============================================================================
