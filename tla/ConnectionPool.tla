--------------------------- MODULE ConnectionPool ---------------------------
(* Control-plane requests of one shop that compete for the connections of the API's  *)
(* pool and for row locks.  A handler is the sequence of the statements that make it *)
(* wait; everything it holds follows from how far it is.  Neither kind of wait times *)
(* out: the handlers pass a gin context, whose Done channel is nil.  The database    *)
(* breaks cycles of row locks; nothing breaks a cycle that goes through the pool.    *)
EXTENDS Naturals, Sequences, FiniteSets

CONSTANTS
  Requests,
  PoolSizes,      \* the pool sizes to consider (pgxpool's MaxConns)
  Warehouses,     \* of the shop
  NoWarehouse,    \* what a row of another table is of
  FirstRankings   \* the orders of its active warehouses to start from

Rankings ==
  UNION {{q \in [1 .. n -> Warehouses] : \A i, j \in 1 .. n : q[i] = q[j] => i = j} :
           n \in 0 .. Cardinality(Warehouses)}

ASSUME PoolAssumption ==
  /\ IsFiniteSet(Requests)
  /\ PoolSizes \subseteq Nat \ {0}
  /\ NoWarehouse \notin Warehouses
  /\ FirstRankings \subseteq Rankings

VARIABLES
  poolSize,
  ranking,        \* the active warehouses, ORDER BY priority DESC, code ASC
  kind,           \* the handler of each request
  warehouses,     \* the warehouses it is about, in the order it takes them
  tried,          \* how many of them an order's allocation looks into
  at,             \* the statement it is at
  querying,       \* it runs a statement on a connection of its own
  outcome

vars == <<poolSize, ranking, kind, warehouses, tried, at, querying, outcome>>

-----------------------------------------------------------------------------
(* The four strengths of a row lock; those conflict that exceed 4 together. *)
KeyShare == 1       \* a foreign key that refers to the row
Share == 2          \* SELECT ... FOR SHARE
NoKeyUpdate == 3    \* UPDATE, ON CONFLICT DO UPDATE
Update == 4         \* SELECT ... FOR UPDATE, UPDATE of a unique key

Conflict(m, n) == m + n > 4

Statement(op) == [op |-> op, mode |-> 0, table |-> "none", of |-> NoWarehouse]

Query == Statement("query")     \* outside the transaction, on another connection
Begin == Statement("begin")
Read == Statement("read")       \* in the transaction, fixing what it locks next

Lock(mode, table, of) == [op |-> "lock", mode |-> mode, table |-> table, of |-> of]

Shop(mode) == Lock(mode, "shop", NoWarehouse)
Product(mode) == Lock(mode, "product", NoWarehouse)

Each(mode, table, ws) == [i \in 1 .. Len(ws) |-> Lock(mode, table, ws[i])]

-----------------------------------------------------------------------------
(* Handlers.  Requests are for different orders, so the rows of an order make nobody *)
(* wait, and a handler that locks no others is left out; so is the shop's reset,     *)
(* which deletes rows of every table in an order of its own.  The other rows are     *)
(* those of one shop, one product, and its stock in each warehouse.  What a handler  *)
(* reads before it begins (the session, the shop) is left out: it waits for a        *)
(* connection as Begin does, holding nothing, and gives it back.  So is an early     *)
(* return, which gives the same locks back sooner.                                   *)

(* Mutant: the stock is released before the shop row is locked. *)
CancelStockFirst(w) ==
  <<Begin, Lock(NoKeyUpdate, "inventory", w), Product(NoKeyUpdate), Shop(Update)>>

(* SELECT ... FROM orders o JOIN shops s ... FOR UPDATE locks the shop row too. *)
CancelSteps(w) ==
  <<Begin, Shop(Update), Lock(NoKeyUpdate, "inventory", w), Product(NoKeyUpdate)>>

(* failPayment locks the order alone; its event refers to the shop. *)
FailPaymentSteps(w) ==
  <<Begin, Lock(NoKeyUpdate, "inventory", w), Product(NoKeyUpdate), Shop(KeyShare)>>

(* FulfillPackage, then the order's transition. *)
ShipSteps(w) == <<Begin, Lock(NoKeyUpdate, "inventory", w), Shop(Update)>>

(* INSERT INTO orders refers to the shop and INSERT INTO order_items to the product.  *)
(* Allocate locks all warehouses its snapshot has as active, in the ranking's order,  *)
(* then the stock in one after the other until one has enough, then the product.      *)
CreateOrderSteps(ws, n) ==
  <<Begin, Shop(KeyShare), Product(KeyShare), Read>>
    \o Each(Update, "warehouse", ws)
    \o Each(Update, "inventory", SubSeq(ws, 1, n))
    \o Each(NoKeyUpdate, "product", IF n = 0 THEN <<>> ELSE <<NoWarehouse>>)

(* Without initial inventory, ON CONFLICT DO UPDATE takes the default warehouse. *)
CreateDefaultProductSteps(w) ==
  <<Begin, Shop(KeyShare), Lock(NoKeyUpdate, "warehouse", w)>>

(* Each row of the initial inventory refers to a warehouse, in the caller's order. *)
CreateProductSteps(ws) == <<Begin, Shop(KeyShare)>> \o Each(KeyShare, "warehouse", ws)

(* The product row, then the event. *)
UpdateProductSteps == <<Begin, Product(NoKeyUpdate), Shop(KeyShare)>>

ArchiveProductSteps == <<Begin, Product(Update), Shop(KeyShare)>>

(* The operator's authorization is a query on another connection, inside the transaction. *)
UpdateInventorySteps(w) ==
  <<Begin, Lock(Update, "warehouse", w), Query,
    Lock(Update, "inventory", w), Product(NoKeyUpdate)>>

(* An administrator is authorized without a query. *)
AdminUpdateInventorySteps(w) ==
  <<Begin, Lock(Update, "warehouse", w), Lock(Update, "inventory", w), Product(NoKeyUpdate)>>

(* One statement that commits by itself; a new code is a new key. *)
UpdateWarehouseSteps(w) == <<Begin, Lock(NoKeyUpdate, "warehouse", w)>>

RecodeWarehouseSteps(w) == <<Begin, Lock(Update, "warehouse", w)>>

(* Mutant: authorization moves into the transaction. *)
RetryAuthorizedLate == <<Begin, Lock(Share, "webhook", NoWarehouse), Query>>

RetryDeliverySteps == <<Begin, Lock(Share, "webhook", NoWarehouse)>>

(* What a request for one warehouse, for several and for none may be. *)
PlaceKinds ==
  {"cancel", "failPayment", "ship", "updateInventory", "adminUpdateInventory",
   "updateWarehouse", "recodeWarehouse", "createDefaultProduct"}

Kinds ==
  PlaceKinds \cup {"createOrder", "createProduct", "updateProduct", "archiveProduct", "retryDelivery"}

(* The warehouses a request may arrive with: an order's are looked up on the way. *)
Arrivals(k) ==
  IF k \in PlaceKinds THEN {q \in Rankings : Len(q) = 1}
  ELSE IF k = "createProduct" THEN Rankings \ {<<>>} ELSE {<<>>}

Handler(k, ws, n) ==
  CASE k = "cancel" -> CancelSteps(ws[1])
    [] k = "failPayment" -> FailPaymentSteps(ws[1])
    [] k = "ship" -> ShipSteps(ws[1])
    [] k = "createOrder" -> CreateOrderSteps(ws, n)
    [] k = "createDefaultProduct" -> CreateDefaultProductSteps(ws[1])
    [] k = "createProduct" -> CreateProductSteps(ws)
    [] k = "updateProduct" -> UpdateProductSteps
    [] k = "archiveProduct" -> ArchiveProductSteps
    [] k = "updateInventory" -> UpdateInventorySteps(ws[1])
    [] k = "adminUpdateInventory" -> AdminUpdateInventorySteps(ws[1])
    [] k = "updateWarehouse" -> UpdateWarehouseSteps(ws[1])
    [] k = "recodeWarehouse" -> RecodeWarehouseSteps(ws[1])
    [] k = "retryDelivery" -> RetryDeliverySteps

Steps(r) == Handler(kind[r], warehouses[r], tried[r])

AtEnd(r) == at[r] > Len(Steps(r))

Step(r) == Steps(r)[at[r]]

-----------------------------------------------------------------------------
(* Mutant: an aborted handler does not roll back. *)
OpenUntilDone(r) == outcome[r] # "done"

(* defer tx.Rollback: however a handler ends, it gives back what it holds. *)
Open(r) == outcome[r] = "open"

InTransaction(r) == Open(r) /\ \E i \in 1 .. at[r] - 1 : Steps(r)[i].op = "begin"

(* The row locks a request has. *)
Holds(r, lock) == Open(r) /\ LET steps == Steps(r) IN \E i \in 1 .. at[r] - 1 : steps[i] = lock

InUse == Cardinality({r \in Requests : InTransaction(r)})
           + Cardinality({r \in Requests : querying[r]})

(* Mutant: one connection too many. *)
FreeConnectionOrOne == InUse <= poolSize

FreeConnection == InUse < poolSize

Blocks(s, r) ==
  /\ s # r
  /\ ~AtEnd(r)
  /\ LET step == Step(r) IN
       /\ step.op = "lock"
       /\ \E m \in {KeyShare, Share, NoKeyUpdate, Update} :
            Conflict(m, step.mode) /\ Holds(s, Lock(m, step.table, step.of))

Blocked(r) == Open(r) /\ \E s \in Requests : Blocks(s, r)

(* Requests that wait for each other's rows, in one cycle or in several joined. *)
Cycle(S) == \A s \in S : (\E t \in S : Blocks(t, s)) /\ (\E t \in S : Blocks(s, t))

InCycle(r) ==
  /\ Blocked(r)
  /\ \E S \in SUBSET {s \in Requests : Blocked(s)} : r \in S /\ Cycle(S)

-----------------------------------------------------------------------------
Init ==
  /\ poolSize \in PoolSizes
  /\ ranking \in FirstRankings
  /\ kind \in [Requests -> Kinds]
  /\ warehouses \in {f \in [Requests -> Rankings] : \A r \in Requests : f[r] \in Arrivals(kind[r])}
  /\ tried = [r \in Requests |-> 0]
  /\ at = [r \in Requests |-> 1]
  /\ querying = [r \in Requests |-> FALSE]
  /\ outcome = [r \in Requests |-> "open"]

Advance(r) == at' = [at EXCEPT ![r] = @ + 1]

Waits(r) == outcome[r] = "open" /\ ~querying[r] /\ ~AtEnd(r)

BeginTransaction(r) ==
  /\ Waits(r)
  /\ Step(r).op = "begin"
  /\ FreeConnection
  /\ Advance(r)
  /\ UNCHANGED <<poolSize, ranking, kind, warehouses, tried, querying, outcome>>

StartQuery(r) ==
  /\ Waits(r)
  /\ Step(r).op = "query"
  /\ FreeConnection
  /\ querying' = [querying EXCEPT ![r] = TRUE]
  /\ UNCHANGED <<poolSize, ranking, kind, warehouses, tried, at, outcome>>

EndQuery(r) ==
  /\ querying[r]
  /\ querying' = [querying EXCEPT ![r] = FALSE]
  /\ Advance(r)
  /\ UNCHANGED <<poolSize, ranking, kind, warehouses, tried, outcome>>

LockRow(r) ==
  /\ Waits(r)
  /\ Step(r).op = "lock"
  /\ ~Blocked(r)
  /\ Advance(r)
  /\ UNCHANGED <<poolSize, ranking, kind, warehouses, tried, querying, outcome>>

(* The snapshot of Allocate's query has the ranking of this moment. *)
LookUpWarehouses(r) ==
  /\ Waits(r)
  /\ Step(r).op = "read"
  /\ warehouses' = [warehouses EXCEPT ![r] = ranking]
  /\ \E n \in 0 .. Len(ranking) :
       /\ n = 0 <=> ranking = <<>>
       /\ tried' = [tried EXCEPT ![r] = n]
  /\ Advance(r)
  /\ UNCHANGED <<poolSize, ranking, kind, querying, outcome>>

Others(q, w) == SelectSeq(q, LAMBDA v : v # w)

(* A warehouse's new priority, code or status moves it in the ranking, in or out. *)
CommitTransaction(r) ==
  /\ outcome[r] = "open"
  /\ AtEnd(r)
  /\ outcome' = [outcome EXCEPT ![r] = "done"]
  /\ IF kind[r] \in {"updateWarehouse", "recodeWarehouse"}
     THEN ranking' \in {q \in Rankings : Others(q, warehouses[r][1]) = Others(ranking, warehouses[r][1])}
     ELSE UNCHANGED ranking
  /\ UNCHANGED <<poolSize, kind, warehouses, tried, at, querying>>

(* The database aborts one transaction of a cycle; its handler answers an error. *)
DeadlockDetected(r) ==
  /\ outcome[r] = "open"
  /\ InCycle(r)
  /\ outcome' = [outcome EXCEPT ![r] = "aborted"]
  /\ UNCHANGED <<poolSize, ranking, kind, warehouses, tried, at, querying>>

RequestStep(r) ==
  \/ BeginTransaction(r) \/ StartQuery(r) \/ EndQuery(r) \/ LockRow(r)
  \/ LookUpWarehouses(r) \/ CommitTransaction(r) \/ DeadlockDetected(r)

Next == \E r \in Requests : RequestStep(r)

(* Every request has a goroutine, and the database looks for cycles every second.  A *)
(* step brings its request nearer the end, so that no request can keep another from  *)
(* going on by going on itself, and fairness to all of them is fairness to each.     *)
Spec == Init /\ [][Next]_vars /\ WF_vars(Next)

-----------------------------------------------------------------------------
TypeOK ==
  /\ poolSize \in PoolSizes
  /\ ranking \in Rankings
  /\ kind \in [Requests -> Kinds]
  /\ warehouses \in [Requests -> Rankings]
  /\ \A r \in Requests :
       /\ kind[r] # "createOrder" => warehouses[r] \in Arrivals(kind[r])
       /\ tried[r] <= Len(warehouses[r])
  /\ tried \in [Requests -> Nat]
  /\ at \in [Requests -> Nat \ {0}]
  /\ querying \in [Requests -> BOOLEAN]
  /\ outcome \in [Requests -> {"open", "done", "aborted"}]
  /\ InUse <= poolSize

CanStep(r) ==
  \/ querying[r]
  \/ AtEnd(r)
  \/ Step(r).op = "lock" /\ (InCycle(r) \/ ~Blocked(r))
  \/ Step(r).op = "read"
  \/ Step(r).op \in {"query", "begin"} /\ FreeConnection

(* Requests are left and none of them will ever move. *)
Wedged ==
  /\ \E r \in Requests : outcome[r] = "open"
  /\ \A r \in Requests : outcome[r] = "open" => ~CanStep(r)

(* Only one handler can bring the API to a standstill: an operator's inventory       *)
(* update that holds its transaction and waits for the connection of its own         *)
(* authorization, with every other connection held by requests that wait for rows.   *)
WedgeNeedsInventoryUpdate ==
  Wedged =>
    /\ InUse = poolSize
    /\ \E r \in Requests : kind[r] = "updateInventory" /\ InTransaction(r) /\ Step(r).op = "query"

(* Row locks are taken in the order shop, warehouse, inventory, product, except by   *)
(* a shipment, a failed payment, a product's update or removal, and by a new product *)
(* with stock in several warehouses, which come in its caller's order.               *)
Inverts(r) ==
  \/ kind[r] \in {"ship", "failPayment", "updateProduct", "archiveProduct"}
  \/ kind[r] = "createProduct" /\ Len(warehouses[r]) > 1

(* Two allocations that looked up the warehouses before and after a change of them. *)
Disagree(s, t) ==
  /\ kind[s] = "createOrder" /\ kind[t] = "createOrder"
  /\ warehouses[s] # <<>> /\ warehouses[t] # <<>>
  /\ warehouses[s] # warehouses[t]

(* No requests wait for each other's rows unless one of them is of those handlers, or *)
(* two create orders under different rankings of the shop's warehouses.               *)
CycleNeedsInversion ==
  \A S \in SUBSET {r \in Requests : Blocked(r)} :
    S # {} /\ Cycle(S) => \E s \in S : Inverts(s) \/ \E t \in S : Disagree(s, t)

PoolIsAmple == poolSize > Cardinality(Requests)

(* With a connection to spare for every request, or without operators' inventory     *)
(* updates, every request ends, whatever cycles of row locks the others build.       *)
EveryRequestEnds ==
  <>(PoolIsAmple \/ (\A r \in Requests : kind[r] # "updateInventory")
       => \A r \in Requests : outcome[r] # "open")

(* What authorizing before the transaction is for: the API never stands still.       *)
PoolNeverWedged == ~Wedged
=============================================================================
