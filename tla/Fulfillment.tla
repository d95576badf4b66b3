----------------------------- MODULE Fulfillment -----------------------------
(***************************************************************************)
(* One shop of the marketplace: its orders, the inventory reservations     *)
(* that back their lines, the packages and shipments that carry them, the  *)
(* warehouses and the catalogue they draw on.                              *)
(*                                                                         *)
(* Every action is one committed PostgreSQL transaction.  The handlers     *)
(* take row locks before they read what they decide on (the order row,     *)
(* the warehouse and inventory rows, the product row), so transactions     *)
(* that touch the same rows are serialised by the database; a transaction  *)
(* that fails a check rolls back and leaves no step here.  The one handler *)
(* that locks nothing first is the reset of a shop: see resetShopData.     *)
(*                                                                         *)
(* A row that does not exist is represented by a row of status "NONE".     *)
(***************************************************************************)
EXTENDS OrderPolicy, FiniteSets

CONSTANTS
  Orders, Lines, Products, Packages,  \* identifiers the instance may use
  Warehouses,        \* each named by the alphabetical rank of its code
  DefaultWarehouse,  \* WH-DEFAULT
  Priorities,        \* allocation priorities an operator may set
  LineQuantities,    \* quantities an order line may ask for
  RequestReasons,    \* cancellation reasons a caller may give
  MaxQuantity,       \* bound of the quantity columns
  SeedStock,         \* stock of a seeded product
  PaymentExpiry, SellerSLA,           \* the two configured durations
  MaxTime,           \* bound of the clock
  MaxLate,           \* bound of the events recorded while a reset runs
  NoOrder, NoProduct, NoWarehouse     \* SQL NULL

ASSUME FiniteAssumption ==
  /\ IsFiniteSet(Orders) /\ IsFiniteSet(Lines) /\ IsFiniteSet(Products)
  /\ IsFiniteSet(Packages) /\ IsFiniteSet(Warehouses)
ASSUME WarehouseAssumption == Warehouses \subseteq Nat /\ DefaultWarehouse \in Warehouses
ASSUME QuantityAssumption ==
  /\ MaxQuantity \in Nat /\ LineQuantities \subseteq 1 .. MaxQuantity
  /\ SeedStock \in 0 .. MaxQuantity /\ Priorities \subseteq Int /\ 0 \in Priorities
ASSUME LateAssumption == MaxLate \in Nat
ASSUME ReasonAssumption == RequestReasons \subseteq Reasons
ASSUME TimeAssumption == PaymentExpiry \in Nat /\ SellerSLA \in Nat /\ MaxTime \in Nat
ASSUME NullAssumption ==
  NoOrder \notin Orders /\ NoProduct \notin Products /\ NoWarehouse \notin Warehouses

VARIABLES
  now,        \* the clock of the API and of the worker
  provider,   \* the shop's provider profile, fixed when it is created
  warehouse,  \* warehouses: status and priority
  product,    \* products: status and aggregate sellable stock
  onHand,     \* warehouse_inventory.on_hand_quantity
  reserved,   \* warehouse_inventory.reserved_quantity
  order,      \* orders
  res,        \* order_items with their inventory_reservations row, by line
  pkg,        \* packages with the status of their shipment
  content,    \* package_items.quantity, by package and line
  events      \* domain_events recorded so far: <<aggregate, type>>

stockVars == <<onHand, reserved, product>>
parcelVars == <<pkg, content>>
vars == <<now, provider, warehouse, product, onHand, reserved, order, res, pkg,
          content, events>>

-----------------------------------------------------------------------------
(* Rows *)

Quantity == 0 .. MaxQuantity
NoTime == -1
Time == Nat \cup {NoTime}

WarehouseRow == [status : {"NONE", "ACTIVE", "INACTIVE"}, priority : Priorities]
ProductRow == [status : {"NONE", "ACTIVE", "INACTIVE", "DELETED"}, stock : Int]
OrderRow ==
  [status : OrderStatus \cup {"NONE"}, payment : PaymentStatus, expires : Time,
   deadline : Time, warehouse : Warehouses \cup {NoWarehouse},
   actor : Actors \cup {""}, reason : Reasons \cup {""}]
ReservationRow ==
  [product : Products \cup {NoProduct}, qty : Quantity, fulfilled : Nat,
   status : {"NONE", "ACTIVE", "COMMITTED", "RELEASED", "FULFILLED"}]
PackageRow ==
  [order : Orders \cup {NoOrder},
   status : {"NONE", "READY_TO_SHIP"} \cup ShipmentTargets,
   shipment : {"NONE"} \cup ShipmentStatus]

AbsentWarehouse == [status |-> "NONE", priority |-> 0]
AbsentProduct == [status |-> "NONE", stock |-> 0]
AbsentOrder ==
  [status |-> "NONE", payment |-> "PENDING", expires |-> NoTime, deadline |-> NoTime,
   warehouse |-> NoWarehouse, actor |-> "", reason |-> ""]
(* A seeded COMPLETED order: paid_at is set, payment_status keeps its default and
   no reservation backs its line. *)
SeededOrder == [AbsentOrder EXCEPT !.status = "COMPLETED"]
AbsentReservation ==
  [product |-> NoProduct, qty |-> 0, fulfilled |-> 0, status |-> "NONE"]
AbsentPackage == [order |-> NoOrder, status |-> "NONE", shipment |-> "NONE"]

(* Reservations that still hold stock: the status list of Release and Archive. *)
Holding == {"ACTIVE", "COMMITTED"}

(* The sum of a function's values, counted unit by unit. *)
Units(q) == {u \in (DOMAIN q) \X (1 .. MaxQuantity) : u[2] <= q[u[1]]}
Total(q) == Cardinality(Units(q))

-----------------------------------------------------------------------------
(* Inventory *)

Requests ==
  UNION {[L -> [product : Products, qty : LineQuantities]] : L \in SUBSET Lines \ {{}}}

(* Mutant: a second line of a product overwrites the first. *)
aggregateLastLine(want) ==
  [p \in Products |->
     LET lines == {m \in DOMAIN want : want[m].product = p}
     IN  IF lines = {} THEN 0 ELSE want[CHOOSE l \in lines : TRUE].qty]

(* What a request needs of each product, its lines added up. *)
aggregateRequiredQuantity(want) ==
  [p \in Products |->
     Total([l \in {m \in DOMAIN want : want[m].product = p} |-> want[l].qty])]

(* Mutant: stock already promised counts as available. *)
EligibleByOnHand(w, need) ==
  /\ warehouse[w].status = "ACTIVE"
  /\ \A p \in Products : need[p] > 0 => onHand[w][p] >= need[p]

Eligible(w, need) ==
  /\ warehouse[w].status = "ACTIVE"
  /\ \A p \in Products : need[p] > 0 => onHand[w][p] - reserved[w][p] >= need[p]

(* ORDER BY priority DESC, code ASC *)
Precedes(w, v) ==
  \/ warehouse[w].priority > warehouse[v].priority
  \/ warehouse[w].priority = warehouse[v].priority /\ w < v

ReservedRow(line) ==
  [product |-> line.product, qty |-> line.qty, fulfilled |-> 0, status |-> "ACTIVE"]

(* Reserve every line of the request in warehouse w, the first eligible one. *)
Allocate(o, want, w) ==
  LET need == aggregateRequiredQuantity(want) IN
  /\ Eligible(w, need)
  /\ \A v \in Warehouses \ {w} : Eligible(v, need) => Precedes(w, v)
  /\ \A p \in Products :
       need[p] > 0 => product[p].status = "ACTIVE" /\ product[p].stock >= need[p]
  /\ reserved' = [reserved EXCEPT ![w] = [p \in Products |-> @[p] + need[p]]]
  /\ product' = [p \in Products |-> [product[p] EXCEPT !.stock = @ - need[p]]]
  /\ res' = [res EXCEPT ![o] =
       [l \in Lines |->
          IF l \in DOMAIN want THEN ReservedRow(want[l]) ELSE AbsentReservation]]
  /\ UNCHANGED onHand

(* Mark the reservations of an order as paid. *)
CommittedRow(row) ==
  IF row.status = "ACTIVE" THEN [row EXCEPT !.status = "COMMITTED"] ELSE row

Commit(o) == res' = [res EXCEPT ![o] = [l \in Lines |-> CommittedRow(@[l])]]

(* What an order still holds of a product. *)
HeldLines(o, p) ==
  {l \in Lines : res[o][l].product = p /\ res[o][l].status \in Holding}
Held(o, p) == Total([l \in HeldLines(o, p) |-> res[o][l].qty - res[o][l].fulfilled])

(* Mutant: only paid reservations change status. *)
ReleasedIfPaid(row) ==
  IF row.status = "COMMITTED" THEN [row EXCEPT !.status = "RELEASED"] ELSE row

ReleasedRow(row) ==
  IF row.status \in Holding THEN [row EXCEPT !.status = "RELEASED"] ELSE row

(* Return what an order still holds to the sellable stock of its warehouse. *)
Release(o) ==
  LET w == order[o].warehouse IN
  /\ \A p \in Products : Held(o, p) > 0 => reserved[w][p] >= Held(o, p)
  /\ reserved' = [reserved EXCEPT ![w] = [p \in Products |-> @[p] - Held(o, p)]]
  /\ product' = [p \in Products |-> [product[p] EXCEPT !.stock = @ + Held(o, p)]]
  /\ res' = [res EXCEPT ![o] = [l \in Lines |-> ReleasedRow(@[l])]]
  /\ UNCHANGED onHand

(* Turn the reservations behind a package into physical stock usage. *)
PackedLines(k) == {l \in Lines : content[k][l] > 0}
Shipped(k, p) ==
  Total([l \in {m \in PackedLines(k) : res[pkg[k].order][m].product = p} |-> content[k][l]])

(* Mutant: the first package of a line finishes its reservation. *)
FulfilledAtOnce(row, n) ==
  [row EXCEPT !.fulfilled = @ + n, !.status = "FULFILLED"]

FulfilledRow(row, n) ==
  [row EXCEPT !.fulfilled = @ + n,
              !.status = IF row.fulfilled + n = row.qty THEN "FULFILLED" ELSE @]

FulfillPackage(k) ==
  LET o == pkg[k].order
      w == order[o].warehouse
  IN
  /\ PackedLines(k) # {}
  /\ \A l \in PackedLines(k) :
       /\ res[o][l].status \in Holding
       /\ res[o][l].fulfilled + content[k][l] <= res[o][l].qty
  /\ \A p \in Products : Shipped(k, p) > 0 =>
       onHand[w][p] >= Shipped(k, p) /\ reserved[w][p] >= Shipped(k, p)
  /\ onHand' = [onHand EXCEPT ![w] = [p \in Products |-> @[p] - Shipped(k, p)]]
  /\ reserved' = [reserved EXCEPT ![w] = [p \in Products |-> @[p] - Shipped(k, p)]]
  /\ res' = [res EXCEPT ![o] =
       [l \in Lines |->
          IF l \in PackedLines(k) THEN FulfilledRow(@[l], content[k][l]) ELSE @[l]]]

-----------------------------------------------------------------------------
(* Orders *)

OrderEvent ==
  [PAID |-> "order.paid", PROCESSING |-> "order.processing",
   READY_TO_SHIP |-> "order.ready_to_ship", SHIPPED |-> "order.shipped",
   IN_DELIVERY |-> "order.in_delivery", DELIVERED |-> "order.delivered",
   COMPLETED |-> "order.completed", RETURNED |-> "order.returned",
   CANCELLED |-> "order.cancelled"]

(* events.Record: the event joins the transaction.  Its outbox row, which does so too,
   is WebhookDelivery's. *)
Record(aggregate, types) == events' = events \cup {<<aggregate, t>> : t \in types}

(* UpdateOrder for a forward transition. *)
AdvancedRow(row, target) ==
  [row EXCEPT !.status = target,
              !.payment = IF target = "PAID" THEN "PAID" ELSE @,
              !.deadline = IF target = "PAID" /\ provider = ShopeeLike
                           THEN now + SellerSLA ELSE @]

Advance(o, target) == order' = [order EXCEPT ![o] = AdvancedRow(@, target)]

(* UpdateOrder for a cancellation. *)
CancelledRow(row, actor, reason, payment) ==
  [row EXCEPT !.status = "CANCELLED", !.payment = payment, !.actor = actor,
              !.reason = reason]

MarkCancelled(o, actor, reason, payment) ==
  order' = [order EXCEPT ![o] = CancelledRow(@, actor, reason, payment)]

NewOrder(w) ==
  [AbsentOrder EXCEPT !.status = "UNPAID", !.expires = now + PaymentExpiry,
                      !.warehouse = w]

(* NewID never returns an identifier twice: a new row takes one of the instance's only
   when no recorded event names it. *)
Unused(x) == \A e \in events : e[1] # x

(* A customer order: the rows, the allocation and the event, or nothing. *)
createSimulatedOrder(o, want) ==
  /\ order[o].status = "NONE" /\ Unused(o)
  /\ \A l \in DOMAIN want : product[want[l].product].status = "ACTIVE"
  /\ \E w \in Warehouses :
       /\ Allocate(o, want, w)
       /\ order' = [order EXCEPT ![o] = NewOrder(w)]
  /\ Record(o, {"order.created"})
  /\ UNCHANGED <<now, provider, warehouse, parcelVars>>

(* A payment is accepted up to and including its expiry instant. *)
PaymentOpen(o) ==
  /\ order[o].payment = "PENDING"
  /\ order[o].expires # NoTime => order[o].expires >= now

Transition(o, target) ==
  /\ CanTransition(order[o].status, target)
  /\ target = "PAID" => PaymentOpen(o)
  /\ Advance(o, target)
  /\ IF target = "PAID" THEN Commit(o) ELSE UNCHANGED res
  /\ Record(o, {OrderEvent[target]})
  /\ UNCHANGED <<now, provider, warehouse, stockVars, parcelVars>>

(* The lifecycle steps an API caller may ask for; shipments drive the rest. *)
RequestedTargets == {"PAID", "PROCESSING", "READY_TO_SHIP", "COMPLETED"}

Cancel(o, actor, reason) ==
  /\ order[o].status # "NONE"
  /\ ValidCancellationReason(actor, reason)
  /\ CanCancel(provider, order[o].status, actor)
  /\ MarkCancelled(o, actor, reason, order[o].payment)
  /\ Release(o)
  /\ Record(o, {"order.cancelled"})
  /\ UNCHANGED <<now, provider, warehouse, parcelVars>>

(* Mutant: only the payment column is looked at. *)
failPaymentByColumn(o) ==
  /\ order[o].status # "NONE" /\ order[o].payment = "PENDING"
  /\ MarkCancelled(o, "SYSTEM", "PAYMENT_FAILED", "FAILED")
  /\ Release(o)
  /\ Record(o, {"order.payment_failed", "order.cancelled"})
  /\ UNCHANGED <<now, provider, warehouse, parcelVars>>

failPayment(o) ==
  /\ order[o].status = "UNPAID" /\ order[o].payment = "PENDING"
  /\ MarkCancelled(o, "SYSTEM", "PAYMENT_FAILED", "FAILED")
  /\ Release(o)
  /\ Record(o, {"order.payment_failed", "order.cancelled"})
  /\ UNCHANGED <<now, provider, warehouse, parcelVars>>

(* Mutant: the seller deadline is not checked against the status again. *)
OverdueByClock(o, reason) ==
  \/ /\ reason = "PAYMENT_EXPIRED"
     /\ order[o].status = "UNPAID" /\ order[o].payment = "PENDING"
     /\ order[o].expires # NoTime /\ order[o].expires <= now
  \/ /\ reason = "SELLER_SLA_EXPIRED"
     /\ order[o].status # "CANCELLED"
     /\ order[o].deadline # NoTime /\ order[o].deadline <= now

Overdue(o, reason) ==
  \/ /\ reason = "PAYMENT_EXPIRED"
     /\ order[o].status = "UNPAID" /\ order[o].payment = "PENDING"
     /\ order[o].expires # NoTime /\ order[o].expires <= now
  \/ /\ reason = "SELLER_SLA_EXPIRED"
     /\ order[o].status \in {"PAID", "PROCESSING"}
     /\ order[o].deadline # NoTime /\ order[o].deadline <= now

(* Mutant: every deadline expires the payment. *)
OverdueExpires(reason, payment) == "EXPIRED"

OverduePayment(reason, payment) ==
  IF reason = "PAYMENT_EXPIRED" THEN "EXPIRED" ELSE payment

(* Mutant: the cancellation itself is not announced. *)
OverdueCauseOnly(reason) ==
  {IF reason = "PAYMENT_EXPIRED" THEN "order.payment_expired" ELSE "order.sla_expired"}

OverdueEvents(reason) ==
  {IF reason = "PAYMENT_EXPIRED" THEN "order.payment_expired" ELSE "order.sla_expired",
   "order.cancelled"}

CancelOverdue(o, reason) ==
  /\ Overdue(o, reason)
  /\ MarkCancelled(o, "SYSTEM", reason, OverduePayment(reason, order[o].payment))
  /\ Release(o)
  /\ Record(o, OverdueEvents(reason))
  /\ UNCHANGED <<now, provider, warehouse, parcelVars>>

-----------------------------------------------------------------------------
(* Packages and shipments *)

(* Mutant: packages without a shipment do not count. *)
RemainingAfterShipments(o, l) ==
  res[o][l].qty -
    Total([k \in {j \in Packages : pkg[j].order = o /\ pkg[j].shipment # "NONE"} |-> content[k][l]])

(* What is left of a line after all packages of its order. *)
Remaining(o, l) ==
  res[o][l].qty - Total([k \in {j \in Packages : pkg[j].order = o} |-> content[k][l]])

(* Mutant: nobody asks whether there was anything left to pack. *)
FilledUnasked(c) == TRUE

(* A package has at least one item. *)
Filled(c) == \E l \in Lines : c[l] > 0

(* A new package of an order that waits for shipping. *)
InsertPackage(o, k, c, shipment) ==
  /\ order[o].status = "READY_TO_SHIP" /\ order[o].warehouse # NoWarehouse
  /\ pkg[k].status = "NONE" /\ Unused(k)
  /\ Filled(c)
  /\ pkg' = [pkg EXCEPT ![k] =
       [order |-> o, status |-> "READY_TO_SHIP", shipment |-> shipment]]
  /\ content' = [content EXCEPT ![k] = c]
  /\ UNCHANGED <<now, provider, warehouse, stockVars, order, res, events>>

Contents == [Lines -> Quantity]

(* The control plane names a quantity for every line it packs. *)
createControlPackage(o, k, c) ==
  /\ \A l \in Lines : c[l] > 0 => c[l] <= Remaining(o, l)
  /\ InsertPackage(o, k, c, "NONE")

(* The provider adapter may also name whole lines: all that is left of each. *)
createPackageForOrder(o, k, whole, c) ==
  /\ whole \cap {l \in Lines : c[l] > 0} = {}
  /\ \A l \in whole \cup {m \in Lines : c[m] > 0} : Remaining(o, l) > 0
  /\ \A l \in Lines : c[l] > 0 => c[l] <= Remaining(o, l)
  /\ InsertPackage(o, k,
       [l \in Lines |-> IF l \in whole THEN Remaining(o, l) ELSE c[l]], "NONE")

(* A shipment for an existing package, which then has exactly one. *)
shipExistingPackage(o, k) ==
  /\ order[o].status = "READY_TO_SHIP" /\ order[o].warehouse # NoWarehouse
  /\ pkg[k].order = o /\ pkg[k].status = "READY_TO_SHIP"
  /\ PackedLines(k) # {}
  /\ pkg[k].shipment = "NONE"
  /\ pkg' = [pkg EXCEPT ![k].shipment = "CREATED"]
  /\ UNCHANGED <<now, provider, warehouse, stockVars, order, res, content, events>>

(* Without a package id, a shipment gets a new package of all that is left. *)
createShipmentForOrder(o, k) ==
  \/ shipExistingPackage(o, k)
  \/ InsertPackage(o, k,
       [l \in Lines |-> IF Remaining(o, l) > 0 THEN Remaining(o, l) ELSE 0], "CREATED")

Shipments(o) == {k \in Packages : pkg[k].order = o /\ pkg[k].shipment # "NONE"}

(* Mutant: the first final shipment decides. *)
AsksOrderAtFirst(k, t) ==
  order[pkg[k].order].status # orderTarget[t] /\ orderTarget[t] # ""

(* Whether a shipment step asks the order to move too. *)
AsksOrder(k, t) ==
  LET o == pkg[k].order IN
  /\ order[o].status # orderTarget[t]
  /\ IF t \in FinalShipment
     THEN Cardinality({j \in Shipments(o) : pkg[j].shipment \notin FinalShipment}) = 1
     ELSE orderTarget[t] # ""

ShipmentEvent ==
  [DELIVERY_FAILED |-> "shipment.delivery_failed", RETURNING |-> "shipment.returning",
   RETURNED |-> "shipment.returned"]

transitionShipment(k, t) ==
  LET o == pkg[k].order
      os == order[o].status
      moves == AsksOrder(k, t) /\ os = expectedOrder[t]
  IN
  /\ pkg[k].shipment = expected[t]
  /\ AsksOrder(k, t) /\ os # expectedOrder[t] => orderRank(os) > orderRank(orderTarget[t])
  /\ IF t = "SHIPPED" THEN FulfillPackage(k) ELSE UNCHANGED <<onHand, reserved, res>>
  /\ pkg' = [pkg EXCEPT ![k] = [@ EXCEPT !.status = t, !.shipment = t]]
  /\ IF moves
     THEN CanTransition(os, orderTarget[t]) /\ Advance(o, orderTarget[t])
     ELSE UNCHANGED order
  /\ events' = events
       \cup (IF moves THEN {<<o, OrderEvent[orderTarget[t]]>>} ELSE {})
       \cup (IF t \in DOMAIN ShipmentEvent THEN {<<k, ShipmentEvent[t]>>} ELSE {})
  /\ UNCHANGED <<now, provider, warehouse, product, content>>

-----------------------------------------------------------------------------
(* Warehouses and catalogue *)

unchangedOrders == UNCHANGED <<now, provider, order, res, parcelVars>>

createControlWarehouse(w, status, priority) ==
  /\ warehouse[w].status = "NONE"
  /\ warehouse' = [warehouse EXCEPT ![w] = [status |-> status, priority |-> priority]]
  /\ unchangedOrders /\ UNCHANGED <<stockVars, events>>

updateControlWarehouse(w, status, priority) ==
  /\ warehouse[w].status # "NONE"
  /\ warehouse' = [warehouse EXCEPT ![w] = [status |-> status, priority |-> priority]]
  /\ unchangedOrders /\ UNCHANGED <<stockVars, events>>

(* Mutant: the new count is added instead of the difference. *)
updateInventoryAbsolute(w, p, n) ==
  /\ warehouse[w].status # "NONE" /\ product[p].status # "NONE"
  /\ n >= reserved[w][p]
  /\ onHand' = [onHand EXCEPT ![w][p] = n]
  /\ product' = [product EXCEPT ![p].stock = @ + n]
  /\ unchangedOrders /\ UNCHANGED <<warehouse, reserved, events>>

(* An operator's recount.  The product may be archived; its row still exists. *)
updateWarehouseInventory(w, p, n) ==
  /\ warehouse[w].status # "NONE" /\ product[p].status # "NONE"
  /\ n >= reserved[w][p]
  /\ onHand' = [onHand EXCEPT ![w][p] = n]
  /\ product' = [product EXCEPT ![p].stock = @ + (n - onHand[w][p])]
  /\ unchangedOrders /\ UNCHANGED <<warehouse, reserved, events>>

createProduct(p, status, initial) ==
  /\ product[p].status = "NONE" /\ Unused(p)
  /\ \A w \in Warehouses : initial[w] > 0 => warehouse[w].status # "NONE"
  /\ product' = [product EXCEPT ![p] = [status |-> status, stock |-> Total(initial)]]
  /\ onHand' = [w \in Warehouses |-> [onHand[w] EXCEPT ![p] = initial[w]]]
  /\ reserved' = [w \in Warehouses |-> [reserved[w] EXCEPT ![p] = 0]]
  /\ Record(p, {"product.created"})
  /\ unchangedOrders /\ UNCHANGED warehouse

updateProduct(p, status) ==
  /\ product[p].status \in {"ACTIVE", "INACTIVE"}
  /\ product' = [product EXCEPT ![p].status = status]
  /\ Record(p, {"product.updated"})
  /\ unchangedOrders /\ UNCHANGED <<warehouse, onHand, reserved>>

(* Mutant: unpaid reservations do not block archival. *)
ArchiveUnpaid(p) ==
  /\ product[p].status \in {"ACTIVE", "INACTIVE"}
  /\ \A o \in Orders, l \in Lines :
       ~ (res[o][l].product = p /\ res[o][l].status = "COMMITTED")
  /\ product' = [product EXCEPT ![p].status = "DELETED"]
  /\ Record(p, {"product.deleted"})
  /\ unchangedOrders /\ UNCHANGED <<warehouse, onHand, reserved>>

Archive(p) ==
  /\ product[p].status \in {"ACTIVE", "INACTIVE"}
  /\ \A o \in Orders : HeldLines(o, p) = {}
  /\ product' = [product EXCEPT ![p].status = "DELETED"]
  /\ Record(p, {"product.deleted"})
  /\ unchangedOrders /\ UNCHANGED <<warehouse, onHand, reserved>>

(* Up to MaxLate of the recorded events. *)
LateEvents ==
  {{}} \cup {{pick[i] : i \in 1 .. MaxLate} : pick \in [1 .. MaxLate -> events]}

(* Reset to seed: products, orders and what hangs off them go, warehouses stay; new
   products P and completed orders S take their place.

   The handler locks nothing first, and its DELETEs are READ COMMITTED.  Each sees what
   was committed when it began; the one of the events runs before those of the orders
   and products.  The events that were committed in between are the late ones: they
   stay, also when the order, package or product they name goes with the later DELETEs.
   (Any of the events may be late here; in the code it is the latest.)  For everything
   else the reset is the one step it is here, that of its last DELETE: that waits for the
   locks of transactions that change a row of it, it fails (and with it the reset) on
   the foreign key of an order that was placed after the orders were deleted, and what
   is created later refers to nothing that is gone. *)
resetShopData(P, S, late) ==
  /\ late \in LateEvents
  /\ \A e \in late : e[1] \notin P \cup S
  /\ product' = [p \in Products |->
       IF p \in P THEN [status |-> "ACTIVE", stock |-> SeedStock] ELSE AbsentProduct]
  /\ onHand' = [w \in Warehouses |->
       [p \in Products |-> IF w = DefaultWarehouse /\ p \in P THEN SeedStock ELSE 0]]
  /\ reserved' = [w \in Warehouses |-> [p \in Products |-> 0]]
  /\ order' = [o \in Orders |-> IF o \in S THEN SeededOrder ELSE AbsentOrder]
  /\ res' = [o \in Orders |-> [l \in Lines |-> AbsentReservation]]
  /\ pkg' = [k \in Packages |-> AbsentPackage]
  /\ content' = [k \in Packages |-> [l \in Lines |-> 0]]
  /\ events' = late
  /\ UNCHANGED <<now, provider, warehouse>>

-----------------------------------------------------------------------------
(* A shop as createShop leaves it: its default warehouse and nothing else. *)
Init ==
  /\ now = 0
  /\ provider \in Providers
  /\ warehouse = [w \in Warehouses |->
       IF w = DefaultWarehouse THEN [status |-> "ACTIVE", priority |-> 0]
       ELSE AbsentWarehouse]
  /\ product = [p \in Products |-> AbsentProduct]
  /\ onHand = [w \in Warehouses |-> [p \in Products |-> 0]]
  /\ reserved = [w \in Warehouses |-> [p \in Products |-> 0]]
  /\ order = [o \in Orders |-> AbsentOrder]
  /\ res = [o \in Orders |-> [l \in Lines |-> AbsentReservation]]
  /\ pkg = [k \in Packages |-> AbsentPackage]
  /\ content = [k \in Packages |-> [l \in Lines |-> 0]]
  /\ events = {}

Tick ==
  /\ now < MaxTime /\ now' = now + 1
  /\ UNCHANGED <<provider, warehouse, stockVars, order, res, parcelVars, events>>

OrderNext ==
  \E o \in Orders :
    \/ \E want \in Requests : createSimulatedOrder(o, want)
    \/ \E target \in RequestedTargets : Transition(o, target)
    \/ \E actor \in {"CUSTOMER", "SELLER"}, reason \in RequestReasons :
         Cancel(o, actor, reason)
    \/ failPayment(o)
    \/ \E reason \in Reasons : CancelOverdue(o, reason)

ShippingNext ==
  \E k \in Packages :
    \/ \E o \in Orders :
         \/ \E c \in Contents : createControlPackage(o, k, c)
         \/ \E whole \in SUBSET Lines, c \in Contents :
              createPackageForOrder(o, k, whole, c)
         \/ createShipmentForOrder(o, k)
    \/ \E t \in ShipmentTargets : transitionShipment(k, t)

StockNext ==
  \/ \E w \in Warehouses, s \in {"ACTIVE", "INACTIVE"}, i \in Priorities :
       createControlWarehouse(w, s, i) \/ updateControlWarehouse(w, s, i)
  \/ \E w \in Warehouses, p \in Products, n \in Quantity : updateWarehouseInventory(w, p, n)
  \/ \E p \in Products, s \in {"ACTIVE", "INACTIVE"} :
       \/ \E initial \in [Warehouses -> Quantity] : createProduct(p, s, initial)
       \/ updateProduct(p, s)
  \/ \E p \in Products : Archive(p)
  \/ \E P \in SUBSET Products \ {{}}, S \in SUBSET Orders, late \in LateEvents :
       resetShopData(P, S, late)

Next == OrderNext \/ ShippingNext \/ StockNext \/ Tick

Spec == Init /\ [][Next]_vars
-----------------------------------------------------------------------------
(* Properties *)

Moving == {"SHIPPED", "IN_DELIVERY", "DELIVERED", "COMPLETED", "RETURNED"}
AwaitingShipment == {"PAID", "PROCESSING", "READY_TO_SHIP"}

(* The columns of every table row, and a package belongs to an order. *)
RowsTyped ==
  /\ now \in Nat
  /\ provider \in Providers
  /\ warehouse \in [Warehouses -> WarehouseRow]
  /\ product \in [Products -> ProductRow]
  /\ onHand \in [Warehouses -> [Products -> Int]]
  /\ reserved \in [Warehouses -> [Products -> Int]]
  /\ order \in [Orders -> OrderRow]
  /\ res \in [Orders -> [Lines -> ReservationRow]]
  /\ pkg \in [Packages -> PackageRow]
  /\ content \in [Packages -> [Lines -> Int]]
  /\ \A k \in Packages :
       IF pkg[k].order = NoOrder THEN pkg[k] = AbsentPackage ELSE pkg[k].status # "NONE"

(* Every row has the columns its table declares, and no quantity ever meets the CHECK
   or the trigger that would refuse it: stock columns are not negative, a reservation
   is of something and never fulfilled beyond it, a package belongs to an order and
   holds something.  (The CHECK between the two columns of warehouse_inventory is
   NoOversell.) *)
TypeOK ==
  /\ RowsTyped
  /\ \A p \in Products : product[p].stock >= 0
  /\ \A w \in Warehouses, p \in Products : onHand[w][p] >= 0 /\ reserved[w][p] >= 0
  /\ \A o \in Orders, l \in Lines :
       /\ res[o][l].status # "NONE" => res[o][l].qty > 0
       /\ res[o][l].fulfilled <= res[o][l].qty
  /\ \A k \in Packages :
       /\ \A l \in Lines : content[k][l] >= 0
       /\ pkg[k].status # "NONE" => \E l \in Lines : content[k][l] > 0

(* A warehouse never promises more than it physically has, whatever the order
   of allocations, shipments, releases and operator recounts: the CHECK
   constraint of warehouse_inventory never has to fire. *)
NoOversell ==
  \A w \in Warehouses, p \in Products :
    0 <= reserved[w][p] /\ reserved[w][p] <= onHand[w][p]

(* products.stock, which Allocate, Release, recounts and Create each adjust on
   their own, is always the sum over the warehouses of what is available. *)
StockLedger ==
  \A p \in Products :
    product[p].stock = Total([w \in Warehouses |-> onHand[w][p] - reserved[w][p]])

(* The reserved quantity of a warehouse is exactly what the ACTIVE and COMMITTED
   reservations it backs still have to ship, so that the drift errors of Release
   and FulfillPackage are unreachable. *)
ReservedLedger ==
  \A w \in Warehouses, p \in Products :
    reserved[w][p] =
      Total([r \in {x \in Orders \X Lines : order[x[1]].warehouse = w
                                            /\ x[2] \in HeldLines(x[1], p)}
             |-> res[r[1]][r[2]].qty - res[r[1]][r[2]].fulfilled])

(* What the status s of an order says about a reservation row of it. *)
ReservationFits(row, s) ==
  /\ row.status # "NONE" =>
       CASE s = "UNPAID" -> row.status = "ACTIVE"
         [] s \in AwaitingShipment -> row.status = "COMMITTED"
         [] s = "CANCELLED" -> row.status = "RELEASED"
         [] s \in Moving -> row.status \in {"COMMITTED", "FULFILLED"}
         [] OTHER -> FALSE
  /\ row.fulfilled > 0 => s \in Moving
  /\ row.fulfilled <= row.qty
  /\ row.status = "FULFILLED" <=> row.qty > 0 /\ row.fulfilled = row.qty

(* Reservations change hands with their order: held while it may still ship,
   committed by payment, released exactly by cancellation, consumed exactly by
   shipping.  Six handlers write the two rows. *)
ReservationFollowsOrder ==
  \A o \in Orders, l \in Lines : ReservationFits(res[o][l], order[o].status)

(* What the status s of an order says about a package row of it. *)
ParcelFits(row, s) ==
  /\ s \in {"READY_TO_SHIP", "CANCELLED"} \cup Moving
  /\ s \in {"READY_TO_SHIP", "CANCELLED"} => row.shipment \in {"NONE", "CREATED"}
  /\ s \in {"DELIVERED", "COMPLETED", "RETURNED"} =>
       row.shipment \in {"NONE"} \cup FinalShipment
  /\ IF row.shipment \in {"NONE", "CREATED"}
     THEN row.status = "READY_TO_SHIP" ELSE row.status = row.shipment

(* Nothing of a cancelled order ever leaves the warehouse, even when the order
   was cancelled with packages and shipments already created; and an order that
   is delivered, completed or returned has no shipment still on the road. *)
ParcelsFollowOrder ==
  \A k \in Packages :
    pkg[k].status # "NONE" => ParcelFits(pkg[k], order[pkg[k].order].status)

(* The packages of an order never hold more of a line than was ordered, and what
   a reservation counts as fulfilled is what its shipped packages hold. *)
FulfilledIsShipped ==
  \A o \in Orders, l \in Lines :
    LET of == {k \in Packages : pkg[k].order = o} IN
    /\ Remaining(o, l) >= 0
    /\ res[o][l].fulfilled =
         Total([k \in {j \in of : pkg[j].status \in ShipmentTargets} |-> content[k][l]])

(* Both ledgers at once, for instances where one order draws on an inventory row
   through several lines and ships them in parts (Allocate, FulfillPackage). *)
LedgersExact == StockLedger /\ ReservedLedger

(* An archived product has no reservation that still depends on it: archival and
   order allocation cannot overtake each other. *)
ArchivedProductIdle ==
  \A p \in Products : product[p].status \in {"NONE", "DELETED"} =>
    \A o \in Orders : HeldLines(o, p) = {}

AuditedRow(row) ==
  row # SeededOrder =>
  /\ row.status = "UNPAID" => row.payment = "PENDING"
  /\ row.status \in AwaitingShipment \cup Moving => row.payment = "PAID"
  /\ row.payment = "FAILED" <=> row.reason = "PAYMENT_FAILED"
  /\ row.payment = "EXPIRED" <=> row.reason = "PAYMENT_EXPIRED"
  /\ row.reason = "SELLER_SLA_EXPIRED" => row.payment = "PAID"
  /\ row.status = "CANCELLED" <=> row.actor # ""
  /\ row.actor # "" => ValidCancellationReason(row.actor, row.reason)

(* Payment and cancellation columns agree with the lifecycle: money was taken
   exactly for the orders that went past UNPAID, and every cancelled order, by
   whichever of the three handlers, carries an actor and a reason of that actor
   that agrees with the payment outcome.  Seeded history is exempt: a reset
   writes completed orders whose payment_status is the column's default. *)
PaymentAndAudit == \A o \in Orders : AuditedRow(order[o])

(* What a consumer of the events can conclude of an order that exists: its creation and
   the status it is in have been recorded, no event announces a status the order has
   not been through, and a deadline or payment failure is never announced alone.  Of an
   order that a reset removed, late events may remain; seeded history has none. *)
EventsMirrorOrders ==
  \A o \in {x \in Orders : order[x].status # "NONE" /\ order[x] # SeededOrder} :
    LET s == order[o].status
        Announced(x) == <<o, OrderEvent[x]>> \in events
    IN
    /\ <<o, "order.created">> \in events
    /\ s \in DOMAIN OrderEvent => Announced(s)
    /\ \A x \in DOMAIN OrderEvent \ {s} : Announced(x) =>
         \E y \in OrderStatus : CanTransition(x, y) /\ (y = s \/ Announced(y))
    /\ \A e \in {"order.payment_failed", "order.payment_expired", "order.sla_expired"} :
         <<o, e>> \in events => s = "CANCELLED"

(* Every status change of an order is an edge of the one state machine, also
   where handlers write the status without asking it (failPayment,
   CancelOverdue), and every cancellation is one its provider grants its actor.
   Only a reset removes an order, and seeds completed ones. *)
SingleStateMachine ==
  [][\A o \in Orders :
       LET s == order[o].status  t == order'[o].status IN
       \/ t = s
       \/ order'[o] \in {AbsentOrder, SeededOrder}
       \/ s = "NONE" /\ t = "UNPAID"
       \/ /\ CanTransition(s, t)
          /\ t = "CANCELLED" => CanCancel(provider, s, order'[o].actor)]_vars

(* A finished order stays as it is until a reset removes it: no late payment,
   cancellation, deadline or shipment step touches it or its reservations, so
   stock is given back at most once. *)
FinishedOrdersFrozen ==
  [][\A o \in Orders :
       /\ order[o].status \in {"CANCELLED", "COMPLETED", "RETURNED"}
       /\ order'[o] \notin {AbsentOrder, SeededOrder}
       => order'[o] = order[o] /\ res'[o] = res[o]]_vars

(* What the rows say of the stock pool: where an order is in it, what the stock
   column sells and what the reservations hold. *)
StageOf(status) ==
  CASE status = "NONE" -> "none"
    [] status = "CANCELLED" -> "returned"
    [] status \in Moving -> "shipped"
    [] OTHER -> "promised"

PoolStage == [o \in Orders |-> StageOf(order[o].status)]
PoolSellable == [p \in Products |-> product[p].stock]
PoolPromised == [o \in Orders |-> [p \in Products |-> Held(o, p)]]

Pool == INSTANCE StockPool
          WITH stage <- PoolStage, sellable <- PoolSellable, promised <- PoolPromised

(* Fulfillment implements StockPool: with stock kept per warehouse, promised by
   lines, shipped by packages and cancelled by four kinds of handler, an order still
   is promised only what nobody else was, and what it was promised goes back whole
   and once, or ships. *)
OneStockPool == Pool!Spec
=============================================================================
