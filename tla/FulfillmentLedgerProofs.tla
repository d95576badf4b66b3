----------------------- MODULE FulfillmentLedgerProofs -----------------------
(***************************************************************************)
(* The books of Fulfillment for every value of its constants: the stock    *)
(* column is what the warehouses have to sell, a warehouse reserves what   *)
(* its orders still hold, and a line counts as fulfilled what its packages *)
(* shipped.                                                                *)
(***************************************************************************)
EXTENDS FulfillmentProofs, FunctionTheorems

-----------------------------------------------------------------------------
(* Sums of quantities *)

(* What is summed up: a quantity for each of finitely many rows. *)
Amounts(D) == [D -> Quantity]

LEMMA UnitsFinite ==
  ASSUME NEW D, IsFiniteSet(D), NEW q \in Amounts(D)
  PROVE  IsFiniteSet(Units(q)) /\ Total(q) \in Nat
  <1>0. IsFiniteSet(1 .. MaxQuantity)
    BY QuantityAssumption, FS_Interval
  <1>1. IsFiniteSet(D \X (1 .. MaxQuantity))
    BY <1>0, FS_Product
  <1>2. Units(q) \in SUBSET (D \X (1 .. MaxQuantity))
    BY DEF Units, Amounts
  <1>3. IsFiniteSet(Units(q))
    BY <1>1, <1>2, FS_Subset
  <1> QED BY <1>3, FS_CardinalityType DEF Total

(* Rows that amount to nothing do not count. *)
LEMMA TotalSupport ==
  ASSUME NEW D, NEW q \in Amounts(D), NEW A \in SUBSET D,
         \A x \in D \ A : q[x] = 0
  PROVE  Total(q) = Total([x \in A |-> q[x]])
  <1>1. Units(q) = Units([x \in A |-> q[x]])
    BY QuantityAssumption DEF Units, Amounts, Quantity
  <1> QED BY <1>1 DEF Total

LEMMA TotalNothing ==
  ASSUME NEW D, NEW q \in Amounts(D), \A x \in D : q[x] = 0
  PROVE  Total(q) = 0
  <1>1. Units(q) = {}
    BY QuantityAssumption DEF Units, Amounts, Quantity
  <1> QED BY <1>1, FS_EmptySet DEF Total

LEMMA TotalOfOne ==
  ASSUME NEW a, NEW q \in Amounts({a})
  PROVE  Total(q) = q[a]
  <1> DEFINE n == q[a]
             f == [i \in 1 .. n |-> <<a, i>>]
  <1>1. n \in 0 .. MaxQuantity /\ MaxQuantity \in Nat
    BY QuantityAssumption DEF Amounts, Quantity
  <1>2. Units(q) = {<<a, i>> : i \in 1 .. n}
    BY <1>1 DEF Units, Amounts
  <1>3. f \in Bijection(1 .. n, Units(q))
    <2> HIDE DEF n
    <2>1. f \in [1 .. n -> Units(q)]
      BY <1>2
    <2>2. \A i, j \in 1 .. n : f[i] = f[j] => i = j
      OBVIOUS
    <2>3. \A u \in Units(q) : \E i \in 1 .. n : f[i] = u
      BY <1>2
    <2> QED BY <2>1, <2>2, <2>3, Fun_IsBij
  <1>4. IsFiniteSet(1 .. n) /\ Cardinality(1 .. n) = n
    <2>1. n \in Int /\ ~(1 > n) => n - 1 + 1 = n
      BY <1>1
    <2> HIDE DEF n
    <2>2. n \in Nat
      BY <1>1
    <2>3. 1 > n <=> n = 0
      BY <2>2
    <2> QED BY <2>1, <2>2, <2>3, FS_Interval
  <1> QED BY <1>3, <1>4, FS_Bijection DEF ExistsBijection, Total

(* A sum falls into the sums over two parts of its rows. *)
LEMMA TotalSplit ==
  ASSUME NEW D, IsFiniteSet(D), NEW q \in Amounts(D), NEW A \in SUBSET D
  PROVE  Total(q) = Total([x \in A |-> q[x]]) + Total([x \in D \ A |-> q[x]])
  <1> DEFINE a == [x \in A |-> q[x]]
             b == [x \in D \ A |-> q[x]]
  <1>1. a \in Amounts(A) /\ b \in Amounts(D \ A)
    BY DEF Amounts
  <1>2. IsFiniteSet(A) /\ IsFiniteSet(D \ A)
    BY FS_Subset
  <1>3. /\ IsFiniteSet(Units(a)) /\ Total(a) \in Nat
        /\ IsFiniteSet(Units(b)) /\ Total(b) \in Nat
    BY <1>1, <1>2, UnitsFinite
  <1>4. Units(q) = Units(a) \cup Units(b) /\ Units(a) \cap Units(b) = {}
    BY DEF Units, Amounts
  <1>5. Cardinality(Units(a) \cup Units(b)) =
          Cardinality(Units(a)) + Cardinality(Units(b)) - Cardinality(Units(a) \cap Units(b))
    BY <1>3, FS_Union
  <1>6. Cardinality(Units(a)) \in Nat /\ Cardinality(Units(b)) \in Nat
    BY <1>3 DEF Total
  <1>7. Cardinality(Units(a) \cap Units(b)) = 0
    BY <1>4, FS_EmptySet
  <1>8. Cardinality(Units(q)) = Cardinality(Units(a)) + Cardinality(Units(b)) - 0
    BY <1>4, <1>5, <1>7
  <1> HIDE DEF a, b
  <1>9. Cardinality(Units(q)) = Cardinality(Units(a)) + Cardinality(Units(b))
    BY <1>6, <1>8
  <1> QED BY <1>9 DEF Total, a, b

(* One row more, or one less. *)
LEMMA TotalPick ==
  ASSUME NEW D, IsFiniteSet(D), NEW q \in Amounts(D), NEW a \in D
  PROVE  Total(q) = q[a] + Total([x \in D \ {a} |-> q[x]])
  <1> DEFINE one == [x \in {a} |-> q[x]]
  <1>1. one \in Amounts({a}) /\ one[a] = q[a]
    BY DEF Amounts
  <1>2. Total(one) = q[a]
    BY <1>1, TotalOfOne
  <1> QED BY <1>2, TotalSplit

LEMMA TotalAdded ==
  ASSUME NEW D, IsFiniteSet(D), NEW a, a \notin D, NEW q \in Amounts(D \cup {a})
  PROVE  Total(q) = q[a] + Total([x \in D |-> q[x]])
  <1>1. IsFiniteSet(D \cup {a}) /\ (D \cup {a}) \ {a} = D
    BY FS_AddElement
  <1> QED BY <1>1, TotalPick

(* Two sums whose rows differ in one place. *)
LEMMA TotalChange ==
  ASSUME NEW D, IsFiniteSet(D), NEW q \in Amounts(D), NEW r \in Amounts(D), NEW a \in D,
         \A x \in D \ {a} : r[x] = q[x]
  PROVE  Total(r) = Total(q) - q[a] + r[a]
  <1> DEFINE rest == [x \in D \ {a} |-> q[x]]
  <1>1. rest = [x \in D \ {a} |-> r[x]]
    OBVIOUS
  <1>2. Total(q) = q[a] + Total(rest) /\ Total(r) = r[a] + Total(rest)
    BY <1>1, TotalPick
  <1>3. rest \in Amounts(D \ {a}) /\ IsFiniteSet(D \ {a})
    BY FS_Subset DEF Amounts
  <1>4. Total(rest) \in Nat /\ q[a] \in Int /\ r[a] \in Int
    BY <1>3, UnitsFinite, QuantityAssumption DEF Amounts, Quantity
  <1> QED BY <1>2, <1>4

(* Sums of the same rows under other names. *)
LEMMA TotalRename ==
  ASSUME NEW D, IsFiniteSet(D), NEW E, NEW q \in Amounts(D), NEW r \in Amounts(E),
         NEW f \in [D -> E], \A x, y \in D : f[x] = f[y] => x = y,
         \A y \in E : \E x \in D : f[x] = y, \A x \in D : r[f[x]] = q[x]
  PROVE  Total(r) = Total(q)
  <1> DEFINE g == [u \in Units(q) |-> <<f[u[1]], u[2]>>]
  <1>1. /\ \A u \in Units(q) : u[1] \in D /\ u[2] \in 1 .. MaxQuantity /\ u[2] <= q[u[1]]
                               /\ u = <<u[1], u[2]>>
        /\ \A u \in Units(r) : u[1] \in E /\ u[2] \in 1 .. MaxQuantity /\ u[2] <= r[u[1]]
                               /\ u = <<u[1], u[2]>>
    BY DEF Units, Amounts
  <1>2. \A x \in D, i \in 1 .. MaxQuantity : i <= q[x] => <<x, i>> \in Units(q)
    BY DEF Units, Amounts
  <1>3. \A y \in E, i \in 1 .. MaxQuantity : i <= r[y] => <<y, i>> \in Units(r)
    BY DEF Units, Amounts
  <1>4. g \in [Units(q) -> Units(r)]
    BY <1>1, <1>3
  <1>5. \A u, v \in Units(q) : g[u] = g[v] => u = v
    BY <1>1
  <1>6. \A v \in Units(r) : \E u \in Units(q) : g[u] = v
    <2> SUFFICES ASSUME NEW v \in Units(r) PROVE \E u \in Units(q) : g[u] = v
      OBVIOUS
    <2>1. PICK x \in D : f[x] = v[1]
      BY <1>1
    <2>2. <<x, v[2]>> \in Units(q)
      BY <1>1, <1>2, <2>1
    <2>3. g[<<x, v[2]>>] = v
      BY <1>1, <2>1, <2>2
    <2> QED BY <2>2, <2>3
  <1>7. g \in Bijection(Units(q), Units(r))
    BY <1>4, <1>5, <1>6, Fun_IsBij
  <1> HIDE DEF g
  <1> QED BY <1>7, UnitsFinite, FS_Bijection DEF ExistsBijection, Total

(* The sum of sums. *)
LEMMA TotalPlus ==
  ASSUME NEW D, IsFiniteSet(D), NEW q \in Amounts(D), NEW r \in Amounts(D),
         NEW s \in Amounts(D), \A x \in D : s[x] = q[x] + r[x]
  PROVE  Total(s) = Total(q) + Total(r)
  <1> DEFINE above == {u \in Units(s) : u[2] > q[u[1]]}
             g == [u \in Units(r) |-> <<u[1], q[u[1]] + u[2]>>]
  <1>0. /\ \A x \in D : q[x] \in 0 .. MaxQuantity /\ r[x] \in 0 .. MaxQuantity
                        /\ s[x] \in 0 .. MaxQuantity
        /\ MaxQuantity \in Nat
    BY QuantityAssumption DEF Amounts, Quantity
  <1>1. \A t \in {q, r, s} : \A u : u \in Units(t) <=>
          /\ u \in D \X (1 .. MaxQuantity) /\ u[2] <= t[u[1]]
    BY DEF Units, Amounts
  <1>2. /\ IsFiniteSet(Units(q)) /\ Total(q) \in Nat
        /\ IsFiniteSet(Units(r)) /\ Total(r) \in Nat
        /\ IsFiniteSet(Units(s)) /\ Total(s) \in Nat
    BY UnitsFinite
  <1>3. Units(s) = Units(q) \cup above /\ Units(q) \cap above = {}
    BY <1>0, <1>1
  <1>4. g \in Bijection(Units(r), above)
    <2>1. \A u \in Units(r) : /\ u[1] \in D /\ u[2] \in 1 .. MaxQuantity /\ u[2] <= r[u[1]]
                              /\ u = <<u[1], u[2]>>
      BY <1>1
    <2>2. \A u \in Units(r) : <<u[1], q[u[1]] + u[2]>> \in above
      BY <1>0, <1>1, <2>1
    <2>3. g \in [Units(r) -> above]
      BY <2>2
    <2>4. \A u, v \in Units(r) : g[u] = g[v] => u = v
      BY <1>0, <2>1
    <2>5. \A v \in above : \E u \in Units(r) : g[u] = v
      <3> SUFFICES ASSUME NEW v \in above PROVE \E u \in Units(r) : g[u] = v
        OBVIOUS
      <3> DEFINE u == <<v[1], v[2] - q[v[1]]>>
      <3>1. /\ v[1] \in D /\ v[2] \in 1 .. MaxQuantity /\ v = <<v[1], v[2]>>
            /\ v[2] <= s[v[1]] /\ v[2] > q[v[1]]
        BY <1>1
      <3>2. /\ v[2] - q[v[1]] \in 1 .. MaxQuantity /\ v[2] - q[v[1]] <= r[v[1]]
            /\ q[v[1]] + (v[2] - q[v[1]]) = v[2]
        BY <1>0, <3>1
      <3>3. u \in Units(r)
        BY <1>1, <3>1, <3>2
      <3>4. g[u] = v
        BY <3>1, <3>2, <3>3
      <3> QED BY <3>3, <3>4
    <2> HIDE DEF g
    <2> QED BY <2>3, <2>4, <2>5, Fun_IsBij
  <1> HIDE DEF g
  <1>5. IsFiniteSet(above) /\ Cardinality(above) = Cardinality(Units(r))
    BY <1>2, <1>4, FS_Bijection DEF ExistsBijection
  <1>6. Cardinality(Units(q) \cup above) =
          Cardinality(Units(q)) + Cardinality(above) - Cardinality(Units(q) \cap above)
    BY <1>2, <1>5, FS_Union
  <1> HIDE DEF above
  <1> QED BY <1>2, <1>3, <1>5, <1>6, FS_EmptySet DEF Total

-----------------------------------------------------------------------------
(* Bounds the sums rest on *)

(* An inventory row stays within its column. *)
OnHandFits == \A w \in Warehouses, p \in Products : onHand[w][p] <= MaxQuantity

(* Every order that something can still happen to has a warehouse, and a slot
   without an order has none. *)
WarehouseFits ==
  \A o \in Orders :
    /\ order[o].status = "NONE" => order[o].warehouse = NoWarehouse
    /\ order[o].status \notin {"NONE", "COMPLETED"} => order[o].warehouse \in Warehouses

LEMMA OnHandStep ==
  ASSUME RowsTyped, OnHandFits, StepKinds
  PROVE  OnHandFits'
  <1>0. ASSUME UNCHANGED onHand
        PROVE  OnHandFits'
    BY <1>0 DEF OnHandFits
  <1>1. ASSUME NEW k \in Packages, FulfillPackage(k)
        PROVE  OnHandFits'
    <2> DEFINE w == order[pkg[k].order].warehouse
               out == [p \in Products |-> Shipped(k, p)]
    <2>1. out \in [Products -> Nat]
      BY ShippedType
    <2>2. onHand' = [onHand EXCEPT ![w] = [p \in Products |-> onHand[w][p] - out[p]]]
      BY <1>1 DEF FulfillPackage
    <2> HIDE DEF out, w
    <2>3. \A v \in Warehouses, p \in Products :
            onHand[v][p] \in Int /\ (onHand'[v][p] = onHand[v][p] \/ onHand'[v][p] = onHand[v][p] - out[p])
      BY <2>2 DEF RowsTyped
    <2> QED BY <2>1, <2>3, QuantityAssumption DEF OnHandFits
  <1>2. ASSUME NEW k \in Packages, NEW t \in ShipmentTargets, transitionShipment(k, t)
        PROVE  OnHandFits'
    BY <1>0, <1>1, <1>2 DEF transitionShipment
  <1>3. CASE StockNext
    <2>1. ASSUME NEW w \in Warehouses, NEW p \in Products, NEW n \in Quantity,
                 updateWarehouseInventory(w, p, n)
          PROVE  OnHandFits'
      BY <2>1, QuantityAssumption DEF updateWarehouseInventory, OnHandFits, RowsTyped, Quantity
    <2>2. ASSUME NEW p \in Products, NEW s \in {"ACTIVE", "INACTIVE"},
                 NEW initial \in [Warehouses -> Quantity], createProduct(p, s, initial)
          PROVE  OnHandFits'
      BY <2>2, QuantityAssumption DEF createProduct, OnHandFits, RowsTyped, Quantity
    <2>3. ASSUME NEW P \in SUBSET Products, NEW S \in SUBSET Orders, NEW late,
                 resetShopData(P, S, late)
          PROVE  OnHandFits'
      BY <2>3, QuantityAssumption DEF resetShopData, OnHandFits
    <2> QED
      BY <1>0, <1>3, <2>1, <2>2, <2>3
      DEF StockNext, createControlWarehouse, updateControlWarehouse, updateProduct, Archive,
          stockVars
  <1>4. ASSUME NEW o \in Orders, NEW want \in Requests, createSimulatedOrder(o, want)
        PROVE  OnHandFits'
    BY <1>0, <1>4 DEF createSimulatedOrder, Allocate
  <1>5. ASSUME NEW o \in Orders, NEW actor \in Actors, NEW reason \in Reasons,
               NEW payment \in PaymentStatus, CancelStep(o, actor, reason, payment)
        PROVE  OnHandFits'
    BY <1>0, <1>5 DEF CancelStep, Cancellation, Release
  <1>6. ASSUME NEW o \in Orders, NEW target \in RequestedTargets, Transition(o, target)
        PROVE  OnHandFits'
    BY <1>0, <1>6 DEF Transition, stockVars
  <1>7. ASSUME NEW k \in Packages, NEW o \in Orders, PackageStep(o, k)
        PROVE  OnHandFits'
    BY <1>0, <1>7 DEF PackageStep, shipExistingPackage, InsertPackage, stockVars
  <1>8. CASE Tick \/ UNCHANGED vars
    BY <1>0, <1>8 DEF Tick, vars, stockVars
  <1> QED BY <1>2, <1>3, <1>4, <1>5, <1>6, <1>7, <1>8 DEF StepKinds

(* The statuses a cancellation starts from. *)
LEMMA CancelledFrom ==
  ASSUME NEW o, NEW actor \in Actors, NEW reason, NEW payment,
         CancelStep(o, actor, reason, payment)
  PROVE  order[o].status \in {"UNPAID"} \cup AwaitingShipment
  BY DEF CancelStep, CanCancel, ShopeeCancellable, CanTransition, transitions,
         AwaitingShipment, Actors

LEMMA WarehouseStep ==
  ASSUME RowsTyped, WarehouseFits, StepKinds
  PROVE  WarehouseFits'
  <1>0. ASSUME UNCHANGED order
        PROVE  WarehouseFits'
    BY <1>0 DEF WarehouseFits
  <1>a. ASSUME NEW o \in Orders, NEW row, order' = [order EXCEPT ![o] = row],
               row.status # "NONE", row.warehouse \in Warehouses
        PROVE  WarehouseFits'
    BY <1>a DEF WarehouseFits, RowsTyped
  <1>b. \A o \in Orders : order[o] \in OrderRow
    BY DEF RowsTyped
  <1>c. ASSUME NEW o \in Orders, NEW u, u # "NONE", CanTransition(order[o].status, u),
               order' = [order EXCEPT ![o] = AdvancedRow(order[o], u)]
        PROVE  WarehouseFits'
    <2>1. /\ AdvancedRow(order[o], u).status = u
          /\ AdvancedRow(order[o], u).warehouse = order[o].warehouse
      BY <1>b DEF AdvancedRow, OrderRow
    <2>2. order[o].status \notin {"NONE", "COMPLETED"}
      BY <1>c DEF CanTransition, transitions
    <2> QED BY <1>a, <1>c, <2>1, <2>2 DEF WarehouseFits
  <1>1. ASSUME NEW o \in Orders, NEW want \in Requests, createSimulatedOrder(o, want)
        PROVE  WarehouseFits'
    <2>1. PICK w \in Warehouses : order' = [order EXCEPT ![o] = NewOrder(w)]
      BY <1>1 DEF createSimulatedOrder
    <2>2. NewOrder(w).status = "UNPAID" /\ NewOrder(w).warehouse = w
      BY DEF NewOrder, AbsentOrder
    <2> QED BY <1>a, <2>1, <2>2
  <1>2. ASSUME NEW o \in Orders, NEW target \in RequestedTargets, Transition(o, target)
        PROVE  WarehouseFits'
    BY <1>2, <1>c DEF Transition, Advance, RequestedTargets
  <1>3. ASSUME NEW o \in Orders, NEW actor \in Actors, NEW reason \in Reasons,
               NEW payment \in PaymentStatus, CancelStep(o, actor, reason, payment)
        PROVE  WarehouseFits'
    <2> DEFINE row == CancelledRow(order[o], actor, reason, payment)
    <2>1. order' = [order EXCEPT ![o] = row]
      BY <1>3 DEF CancelStep, Cancellation, MarkCancelled
    <2>2. row.status = "CANCELLED" /\ row.warehouse = order[o].warehouse
      BY <1>b DEF CancelledRow, OrderRow
    <2>3. order[o].status \notin {"NONE", "COMPLETED"}
      BY <1>3, CancelledFrom DEF AwaitingShipment
    <2> HIDE DEF row
    <2> QED BY <1>a, <2>1, <2>2, <2>3 DEF WarehouseFits
  <1>4. ASSUME NEW k \in Packages, NEW t \in ShipmentTargets, transitionShipment(k, t)
        PROVE  WarehouseFits'
    <2> DEFINE o == pkg[k].order
               u == orderTarget[t]
    <2>1. /\ o \in Orders
          /\ \/ order' = order
             \/ /\ CanTransition(order[o].status, u)
                /\ u \in {"SHIPPED", "IN_DELIVERY", "DELIVERED", "RETURNED"}
                /\ order' = [order EXCEPT ![o] = AdvancedRow(order[o], u)]
      BY <1>4, ShipmentStep
    <2> HIDE DEF o, u
    <2> QED BY <1>0, <1>c, <2>1
  <1>5. ASSUME NEW k \in Packages, NEW o \in Orders, PackageStep(o, k)
        PROVE  WarehouseFits'
    BY <1>0, <1>5 DEF PackageStep, shipExistingPackage, InsertPackage
  <1>6. CASE StockNext
    <2>1. ASSUME NEW P \in SUBSET Products, NEW S \in SUBSET Orders, NEW late,
                 resetShopData(P, S, late)
          PROVE  WarehouseFits'
      BY <2>1 DEF resetShopData, WarehouseFits, AbsentOrder, SeededOrder
    <2> QED
      BY <1>0, <1>6, <2>1
      DEF StockNext, createControlWarehouse, updateControlWarehouse, updateProduct, Archive,
          updateWarehouseInventory, createProduct, unchangedOrders
  <1>7. CASE Tick \/ UNCHANGED vars
    BY <1>0, <1>7 DEF Tick, vars
  <1> QED BY <1>1, <1>2, <1>3, <1>4, <1>5, <1>6, <1>7 DEF StepKinds

-----------------------------------------------------------------------------
(* The sellable stock *)

Sellable(oh, rv, p) == [w \in Warehouses |-> oh[w][p] - rv[w][p]]

(* An inventory in which nothing is oversold. *)
Sound(oh, rv) ==
  /\ oh \in [Warehouses -> [Products -> Int]] /\ rv \in [Warehouses -> [Products -> Int]]
  /\ \A w \in Warehouses, p \in Products :
       0 <= rv[w][p] /\ rv[w][p] <= oh[w][p] /\ oh[w][p] <= MaxQuantity

LEMMA SellableAmounts ==
  ASSUME NEW oh, NEW rv, Sound(oh, rv), NEW p \in Products
  PROVE  Sellable(oh, rv, p) \in Amounts(Warehouses)
  BY QuantityAssumption DEF Sellable, Sound, Amounts, Quantity

(* One inventory row changes, and the sum with it. *)
LEMMA SellableChange ==
  ASSUME NEW oh, NEW rv, NEW oh2, NEW rv2, Sound(oh, rv), Sound(oh2, rv2),
         NEW p \in Products, NEW w \in Warehouses,
         \A v \in Warehouses \ {w} : oh2[v][p] = oh[v][p] /\ rv2[v][p] = rv[v][p]
  PROVE  Total(Sellable(oh2, rv2, p)) =
           Total(Sellable(oh, rv, p)) - (oh[w][p] - rv[w][p]) + (oh2[w][p] - rv2[w][p])
  <1>1. /\ Sellable(oh, rv, p) \in Amounts(Warehouses)
        /\ Sellable(oh2, rv2, p) \in Amounts(Warehouses)
    BY SellableAmounts
  <1>2. /\ Sellable(oh, rv, p)[w] = oh[w][p] - rv[w][p]
        /\ Sellable(oh2, rv2, p)[w] = oh2[w][p] - rv2[w][p]
        /\ \A v \in Warehouses \ {w} : Sellable(oh2, rv2, p)[v] = Sellable(oh, rv, p)[v]
    BY DEF Sellable
  <1> QED BY <1>1, <1>2, FiniteAssumption, TotalChange

(* No row changes what it has to sell, and the sum stays. *)
LEMMA SellableSame ==
  ASSUME NEW oh, NEW rv, NEW oh2, NEW rv2, NEW p,
         \A w \in Warehouses : oh2[w][p] - rv2[w][p] = oh[w][p] - rv[w][p]
  PROVE  Total(Sellable(oh2, rv2, p)) = Total(Sellable(oh, rv, p))
  BY DEF Sellable

(* What a seeded product has to sell is its stock in the default warehouse. *)
LEMMA SellableSeed ==
  ASSUME NEW oh, NEW rv, NEW p, NEW n \in Quantity,
         \A w \in Warehouses : /\ oh[w][p] = IF w = DefaultWarehouse THEN n ELSE 0
                               /\ rv[w][p] = 0
  PROVE  Total(Sellable(oh, rv, p)) = n
  <1> DEFINE q == Sellable(oh, rv, p)
             one == [w \in {DefaultWarehouse} |-> q[w]]
  <1>1. n - 0 = n /\ 0 - 0 = 0 /\ n \in Int
    BY QuantityAssumption DEF Quantity
  <1>2. q = [w \in Warehouses |-> IF w = DefaultWarehouse THEN n ELSE 0]
    BY <1>1 DEF Sellable
  <1>3. /\ q \in Amounts(Warehouses) /\ q[DefaultWarehouse] = n
        /\ \A w \in Warehouses \ {DefaultWarehouse} : q[w] = 0
    BY <1>2, WarehouseAssumption, QuantityAssumption DEF Amounts, Quantity
  <1> HIDE DEF q
  <1>4. one \in Amounts({DefaultWarehouse}) /\ one[DefaultWarehouse] = n
    BY <1>3 DEF Amounts
  <1>5. Total(q) = Total(one)
    <2>1. {DefaultWarehouse} \in SUBSET Warehouses
      BY WarehouseAssumption
    <2> QED BY <1>3, <2>1, TotalSupport
  <1>6. Total(one) = n
    BY <1>4, TotalOfOne
  <1> QED BY <1>5, <1>6 DEF q

LEMMA StockLedgerStep ==
  ASSUME RowsTyped, NoOversell, OnHandFits, WarehouseFits, StockLedger, StepKinds,
         RowsTyped', NoOversell', OnHandFits'
  PROVE  StockLedger'
  <1> DEFINE Stock(p) == product[p].stock
             Sum(p) == Total(Sellable(onHand, reserved, p))
  <1>a. /\ Sound(onHand, reserved) /\ Sound(onHand', reserved')
        /\ \A p \in Products : Stock(p) = Sum(p) /\ product[p] \in ProductRow /\ Stock(p) \in Int
        /\ \A w \in Warehouses, p \in Products :
             onHand[w][p] \in Int /\ reserved[w][p] \in Int
    BY DEF Sound, RowsTyped, NoOversell, OnHandFits, StockLedger, Sellable, ProductRow
  <1>b. ASSUME \A p \in Products : Stock(p)' = Sum(p)'
        PROVE  StockLedger'
    BY <1>b DEF StockLedger, Sellable
  <1>0. ASSUME UNCHANGED <<onHand, reserved>>, \A p \in Products : Stock(p)' = Stock(p)
        PROVE  StockLedger'
    BY <1>0, <1>a, <1>b
  (* Reservations of one warehouse change by need, and the stock column with them. *)
  <1>c. ASSUME NEW w \in Warehouses, NEW need \in [Products -> Int], UNCHANGED onHand,
               reserved' = [reserved EXCEPT ![w] = [p \in Products |-> reserved[w][p] + need[p]]],
               product' = [p \in Products |-> [product[p] EXCEPT !.stock = Stock(p) - need[p]]]
        PROVE  StockLedger'
    <2> SUFFICES ASSUME NEW p \in Products PROVE Stock(p)' = Sum(p)'
      BY <1>b
    <2>1. Stock(p)' = Stock(p) - need[p]
      BY <1>a, <1>c DEF ProductRow
    <2>2. /\ \A v \in Warehouses \ {w} : onHand'[v][p] = onHand[v][p] /\ reserved'[v][p] = reserved[v][p]
          /\ onHand'[w][p] = onHand[w][p] /\ reserved'[w][p] = reserved[w][p] + need[p]
      BY <1>c DEF RowsTyped
    <2>3. Sum(p)' = Sum(p) - (onHand[w][p] - reserved[w][p]) + (onHand'[w][p] - reserved'[w][p])
      BY <1>a, <2>2, SellableChange
    <2>4. need[p] \in Int /\ Sum(p) \in Int
      BY <1>a
    <2> HIDE DEF Sum
    <2> QED BY <1>a, <2>1, <2>2, <2>3, <2>4
  <1>1. ASSUME NEW o \in Orders, NEW want \in Requests, createSimulatedOrder(o, want)
        PROVE  StockLedger'
    <2> DEFINE need == aggregateRequiredQuantity(want)
    <2>1. need \in [Products -> Int]
      BY NeedType
    <2>2. PICK w \in Warehouses : Allocate(o, want, w)
      BY <1>1 DEF createSimulatedOrder
    <2>3. /\ reserved' = [reserved EXCEPT ![w] = [p \in Products |-> reserved[w][p] + need[p]]]
          /\ product' = [p \in Products |-> [product[p] EXCEPT !.stock = Stock(p) - need[p]]]
          /\ UNCHANGED onHand
      BY <2>2 DEF Allocate
    <2> HIDE DEF need
    <2> QED BY <1>c, <2>1, <2>3
  <1>2. ASSUME NEW o \in Orders, NEW actor \in Actors, NEW reason \in Reasons,
               NEW payment \in PaymentStatus, CancelStep(o, actor, reason, payment)
        PROVE  StockLedger'
    <2> DEFINE w == order[o].warehouse
               need == [p \in Products |-> 0 - Held(o, p)]
    <2>1. w \in Warehouses
      BY <1>2, CancelledFrom DEF WarehouseFits, AwaitingShipment
    <2>2. \A p \in Products : Held(o, p) \in Nat
      BY HeldType
    <2>3. /\ need \in [Products -> Int]
          /\ \A p \in Products : /\ reserved[w][p] - Held(o, p) = reserved[w][p] + need[p]
                                 /\ Stock(p) + Held(o, p) = Stock(p) - need[p]
      BY <1>a, <2>1, <2>2
    <2>4. /\ reserved' = [reserved EXCEPT ![w] = [p \in Products |-> reserved[w][p] - Held(o, p)]]
          /\ product' = [p \in Products |-> [product[p] EXCEPT !.stock = Stock(p) + Held(o, p)]]
          /\ UNCHANGED onHand
      BY <1>2 DEF CancelStep, Cancellation, Release
    <2> HIDE DEF need, w
    <2>5. /\ reserved' = [reserved EXCEPT ![w] = [p \in Products |-> reserved[w][p] + need[p]]]
          /\ product' = [p \in Products |-> [product[p] EXCEPT !.stock = Stock(p) - need[p]]]
      BY <2>3, <2>4
    <2> QED BY <1>c, <2>1, <2>3, <2>4, <2>5
  <1>3. ASSUME NEW k \in Packages, NEW t \in ShipmentTargets, transitionShipment(k, t)
        PROVE  StockLedger'
    <2>1. UNCHANGED product
      BY <1>3 DEF transitionShipment
    <2>2. CASE UNCHANGED <<onHand, reserved>>
      BY <1>0, <2>1, <2>2
    <2>3. CASE FulfillPackage(k)
      <3> DEFINE w == order[pkg[k].order].warehouse
                 out == [p \in Products |-> Shipped(k, p)]
      <3>1. out \in [Products -> Nat]
        BY ShippedType
      <3>2. /\ reserved' = [reserved EXCEPT ![w] = [p \in Products |-> reserved[w][p] - out[p]]]
            /\ onHand' = [onHand EXCEPT ![w] = [p \in Products |-> onHand[w][p] - out[p]]]
        BY <2>3 DEF FulfillPackage
      <3> HIDE DEF w, out
      <3>3. ASSUME NEW p \in Products, NEW v \in Warehouses
            PROVE  onHand'[v][p] - reserved'[v][p] = onHand[v][p] - reserved[v][p]
        <4>1. \/ onHand'[v][p] = onHand[v][p] /\ reserved'[v][p] = reserved[v][p]
              \/ onHand'[v][p] = onHand[v][p] - out[p] /\ reserved'[v][p] = reserved[v][p] - out[p]
          BY <3>2 DEF RowsTyped
        <4> QED BY <1>a, <3>1, <4>1
      <3>4. \A p \in Products : Sum(p)' = Sum(p)
        BY <3>3, SellableSame
      <3> HIDE DEF Sum
      <3> QED BY <1>a, <1>b, <2>1, <3>4
    <2> QED BY <1>3, <2>2, <2>3 DEF transitionShipment
  <1>4. ASSUME NEW w \in Warehouses, NEW q \in Products, NEW n \in Quantity,
               updateWarehouseInventory(w, q, n)
        PROVE  StockLedger'
    <2> SUFFICES ASSUME NEW p \in Products PROVE Stock(p)' = Sum(p)'
      BY <1>b
    <2>1. /\ onHand' = [onHand EXCEPT ![w][q] = n] /\ UNCHANGED reserved
          /\ product' = [product EXCEPT ![q].stock = Stock(q) + (n - onHand[w][q])]
      BY <1>4 DEF updateWarehouseInventory
    <2>2. CASE p # q
      <3>1. \A v \in Warehouses : onHand'[v][p] - reserved'[v][p] = onHand[v][p] - reserved[v][p]
        BY <2>1, <2>2 DEF RowsTyped
      <3>2. Sum(p)' = Sum(p)
        BY <3>1, SellableSame
      <3>3. Stock(p)' = Stock(p)
        BY <2>1, <2>2 DEF RowsTyped
      <3> QED BY <1>a, <3>2, <3>3
    <2>3. CASE p = q
      <3>1. /\ \A v \in Warehouses \ {w} : onHand'[v][p] = onHand[v][p] /\ reserved'[v][p] = reserved[v][p]
            /\ onHand'[w][p] = n /\ reserved'[w][p] = reserved[w][p]
        BY <2>1, <2>3 DEF RowsTyped
      <3>2. Sum(p)' = Sum(p) - (onHand[w][p] - reserved[w][p]) + (onHand'[w][p] - reserved'[w][p])
        BY <1>a, <3>1, SellableChange
      <3>3. Stock(p)' = Stock(p) + (n - onHand[w][p])
        BY <1>a, <2>1, <2>3 DEF ProductRow, RowsTyped
      <3>4. n \in Int /\ Sum(p) \in Int
        BY <1>a, QuantityAssumption DEF Quantity
      <3> HIDE DEF Sum
      <3> QED BY <1>a, <3>1, <3>2, <3>3, <3>4
    <2> QED BY <2>2, <2>3
  <1>5. ASSUME NEW q \in Products, NEW s \in {"ACTIVE", "INACTIVE"},
               NEW initial \in [Warehouses -> Quantity], createProduct(q, s, initial)
        PROVE  StockLedger'
    <2> SUFFICES ASSUME NEW p \in Products PROVE Stock(p)' = Sum(p)'
      BY <1>b
    <2>1. /\ product' = [product EXCEPT ![q] = [status |-> s, stock |-> Total(initial)]]
          /\ onHand' = [w \in Warehouses |-> [onHand[w] EXCEPT ![q] = initial[w]]]
          /\ reserved' = [w \in Warehouses |-> [reserved[w] EXCEPT ![q] = 0]]
      BY <1>5 DEF createProduct
    <2>2. CASE p # q
      <3>1. \A v \in Warehouses : onHand'[v][p] - reserved'[v][p] = onHand[v][p] - reserved[v][p]
        BY <2>1, <2>2 DEF RowsTyped
      <3>2. Sum(p)' = Sum(p)
        BY <3>1, SellableSame
      <3>3. Stock(p)' = Stock(p)
        BY <2>1, <2>2 DEF RowsTyped
      <3> QED BY <1>a, <3>2, <3>3
    <2>3. CASE p = q
      <3>1. \A w \in Warehouses : onHand'[w][p] - reserved'[w][p] = initial[w]
        <4>1. \A w \in Warehouses : initial[w] \in Int
          BY QuantityAssumption DEF Quantity
        <4>2. \A w \in Warehouses : onHand'[w][p] = initial[w] /\ reserved'[w][p] = 0
          BY <2>1, <2>3 DEF RowsTyped
        <4> QED BY <4>1, <4>2
      <3>2. Sellable(onHand', reserved', p) = initial
        BY <3>1 DEF Sellable
      <3>3. Stock(p)' = Total(initial)
        BY <2>1, <2>3 DEF RowsTyped
      <3> QED BY <3>2, <3>3
    <2> QED BY <2>2, <2>3
  <1>6. ASSUME NEW P \in SUBSET Products, NEW S \in SUBSET Orders, NEW late,
               resetShopData(P, S, late)
        PROVE  StockLedger'
    <2> SUFFICES ASSUME NEW p \in Products PROVE Stock(p)' = Sum(p)'
      BY <1>b
    <2> DEFINE n == IF p \in P THEN SeedStock ELSE 0
    <2>1. /\ n \in Quantity
          /\ \A w \in Warehouses : /\ onHand'[w][p] = IF w = DefaultWarehouse THEN n ELSE 0
                                  /\ reserved'[w][p] = 0
          /\ Stock(p)' = n
      BY <1>6, QuantityAssumption DEF resetShopData, AbsentProduct, Quantity
    <2> HIDE DEF n
    <2> QED BY <2>1, SellableSeed
  <1>7. CASE StockNext
    <2>1. ASSUME NEW p \in Products, NEW s \in {"ACTIVE", "INACTIVE"}, updateProduct(p, s)
          PROVE  StockLedger'
      BY <1>0, <1>a, <2>1 DEF updateProduct, RowsTyped, ProductRow
    <2>2. ASSUME NEW p \in Products, Archive(p)
          PROVE  StockLedger'
      BY <1>0, <1>a, <2>2 DEF Archive, RowsTyped, ProductRow
    <2> QED
      BY <1>0, <1>4, <1>5, <1>6, <1>7, <2>1, <2>2
      DEF StockNext, createControlWarehouse, updateControlWarehouse, stockVars
  <1>8. ASSUME NEW o \in Orders, NEW target \in RequestedTargets, Transition(o, target)
        PROVE  StockLedger'
    BY <1>0, <1>8 DEF Transition, stockVars
  <1>9. ASSUME NEW k \in Packages, NEW o \in Orders, PackageStep(o, k)
        PROVE  StockLedger'
    BY <1>0, <1>9 DEF PackageStep, shipExistingPackage, InsertPackage, stockVars
  <1>10. CASE Tick \/ UNCHANGED vars
    BY <1>0, <1>10 DEF Tick, vars, stockVars
  <1> QED BY <1>1, <1>2, <1>3, <1>7, <1>8, <1>9, <1>10 DEF StepKinds

LEMMA InitBounds == Init => OnHandFits /\ WarehouseFits
  <1>1. Init => OnHandFits
    BY QuantityAssumption DEF Init, OnHandFits
  <1>2. AbsentOrder.status = "NONE" /\ AbsentOrder.warehouse = NoWarehouse
    BY DEF AbsentOrder
  <1>3. Init => WarehouseFits
    BY <1>2 DEF Init, WarehouseFits
  <1> QED BY <1>1, <1>3

LEMMA InitStockLedger == Init => StockLedger
  <1> SUFFICES ASSUME Init, NEW p \in Products
               PROVE  product[p].stock = Total(Sellable(onHand, reserved, p))
    BY DEF StockLedger, Sellable
  <1>1. product[p].stock = 0
    BY DEF Init, AbsentProduct
  <1>2. \A w \in Warehouses : onHand[w][p] = 0 /\ reserved[w][p] = 0
    BY DEF Init
  <1>3. 0 \in Quantity
    BY QuantityAssumption DEF Quantity
  <1> QED BY <1>1, <1>2, <1>3, SellableSeed

LEMMA BoundsHold == Spec => [](OnHandFits /\ WarehouseFits)
  <1>1. RowsTyped /\ OnHandFits /\ WarehouseFits /\ [Next]_vars => OnHandFits' /\ WarehouseFits'
    BY NextKinds, OnHandStep, WarehouseStep
  <1> QED BY <1>1, InitBounds, RowsAreTyped, PTL DEF Spec

(* The stock column of a product, which five handlers adjust on their own, is
   what its warehouses have to sell, for any number of warehouses and orders. *)
THEOREM StockLedgerExact == Spec => []StockLedger
  <1>1. /\ RowsTyped /\ NoOversell /\ OnHandFits /\ WarehouseFits /\ StockLedger
        /\ RowsTyped' /\ NoOversell' /\ OnHandFits' /\ [Next]_vars
        => StockLedger'
    BY NextKinds, StockLedgerStep
  <1> QED BY <1>1, InitStockLedger, RowsAreTyped, NeverOversold, BoundsHold, PTL DEF Spec

-----------------------------------------------------------------------------
(* The reserved stock *)

(* HeldLines and Held of an order with these reservation rows. *)
LinesHeld(rows, p) == {l \in Lines : rows[l].product = p /\ rows[l].status \in Holding}
HeldBy(rows, p) == Total([l \in LinesHeld(rows, p) |-> rows[l].qty - rows[l].fulfilled])

(* The rows that hold stock of a warehouse, and what they hold. *)
Backing(ord, rs, w, p) ==
  {x \in Orders \X Lines : ord[x[1]].warehouse = w /\ x[2] \in LinesHeld(rs[x[1]], p)}
Backed(ord, rs, w, p) ==
  Total([x \in Backing(ord, rs, w, p) |-> rs[x[1]][x[2]].qty - rs[x[1]][x[2]].fulfilled])

(* Reservation rows that have not shipped more than they were made for. *)
SoundRows(rows) ==
  rows \in [Lines -> ReservationRow] /\ \A l \in Lines : rows[l].fulfilled <= rows[l].qty

LEMMA OutstandingQuantity ==
  ASSUME NEW rows, SoundRows(rows), NEW l \in Lines
  PROVE  rows[l].qty - rows[l].fulfilled \in Quantity
  BY QuantityAssumption DEF SoundRows, ReservationRow, Quantity

LEMMA HeldByAmounts ==
  ASSUME NEW rows, SoundRows(rows), NEW p
  PROVE  /\ [l \in LinesHeld(rows, p) |-> rows[l].qty - rows[l].fulfilled]
              \in Amounts(LinesHeld(rows, p))
         /\ IsFiniteSet(LinesHeld(rows, p)) /\ HeldBy(rows, p) \in Nat
  <1>1. IsFiniteSet(LinesHeld(rows, p))
    BY FiniteAssumption, FS_Subset DEF LinesHeld
  <1>2. [l \in LinesHeld(rows, p) |-> rows[l].qty - rows[l].fulfilled]
          \in Amounts(LinesHeld(rows, p))
    BY OutstandingQuantity DEF Amounts, LinesHeld
  <1> QED BY <1>1, <1>2, UnitsFinite DEF HeldBy

(* What a warehouse holds for one order and for the others. *)
LEMMA BackedSplit ==
  ASSUME NEW ord, NEW rs, \A x \in Orders : SoundRows(rs[x]),
         NEW o \in Orders, NEW w, NEW p
  PROVE  /\ Backed(ord, rs, w, p) =
              (IF ord[o].warehouse = w THEN HeldBy(rs[o], p) ELSE 0) +
              Total([x \in {y \in Backing(ord, rs, w, p) : y[1] # o} |->
                       rs[x[1]][x[2]].qty - rs[x[1]][x[2]].fulfilled])
         /\ Total([x \in {y \in Backing(ord, rs, w, p) : y[1] # o} |->
                       rs[x[1]][x[2]].qty - rs[x[1]][x[2]].fulfilled]) \in Nat
  <1> DEFINE B == Backing(ord, rs, w, p)
             mine == {y \in B : y[1] = o}
             others == {y \in B : y[1] # o}
             q == [x \in B |-> rs[x[1]][x[2]].qty - rs[x[1]][x[2]].fulfilled]
             qMine == [x \in mine |-> q[x]]
             qOthers == [x \in others |-> q[x]]
             L == LinesHeld(rs[o], p)
             h == [l \in L |-> rs[o][l].qty - rs[o][l].fulfilled]
  <1>1. B \in SUBSET (Orders \X Lines) /\ \A x \in B : x[1] \in Orders /\ x[2] \in Lines
    BY DEF Backing
  <1>2. IsFiniteSet(B)
    BY <1>1, FiniteAssumption, FS_Product, FS_Subset
  <1>3. q \in Amounts(B)
    BY <1>1, OutstandingQuantity DEF Amounts
  <1>4. h \in Amounts(L) /\ IsFiniteSet(L)
    BY HeldByAmounts
  <1>5. others = B \ mine /\ mine \in SUBSET B /\ others \in SUBSET B
    OBVIOUS
  <1>6. mine = IF ord[o].warehouse = w THEN {<<o, l>> : l \in L} ELSE {}
    BY DEF Backing, LinesHeld
  <1>7. qOthers = [x \in others |-> rs[x[1]][x[2]].qty - rs[x[1]][x[2]].fulfilled]
    BY <1>5
  <1>8. \A l \in L : <<o, l>> \in mine => q[<<o, l>>] = h[l]
    OBVIOUS
  <1> HIDE DEF B, q, h, L, mine, others
  <1>9. qMine \in Amounts(mine) /\ qOthers \in Amounts(others)
    BY <1>3, <1>5 DEF Amounts
  <1>10. Total(q) = Total(qMine) + Total([x \in B \ mine |-> q[x]])
    BY <1>2, <1>3, <1>5, TotalSplit
  <1>11. Total(qMine) = IF ord[o].warehouse = w THEN Total(h) ELSE 0
    <2>1. CASE ord[o].warehouse = w
      <3> DEFINE f == [l \in L |-> <<o, l>>]
      <3>1. f \in [L -> mine] /\ \A l \in L : f[l] = <<o, l>>
        BY <1>6, <2>1
      <3>2. \A l, m \in L : f[l] = f[m] => l = m
        OBVIOUS
      <3>3. \A y \in mine : \E l \in L : f[l] = y
        BY <1>6, <2>1
      <3>4. \A l \in L : qMine[f[l]] = h[l]
        BY <1>8, <3>1
      <3> HIDE DEF f, qMine
      <3> QED BY <1>4, <1>9, <2>1, <3>1, <3>2, <3>3, <3>4, TotalRename
    <2>2. CASE ord[o].warehouse # w
      <3>1. \A x \in mine : qMine[x] = 0
        BY <1>6, <2>2
      <3> HIDE DEF qMine
      <3> QED BY <1>9, <2>2, <3>1, TotalNothing
    <2> QED BY <2>1, <2>2
  <1>12. Total(qOthers) \in Nat /\ Total(h) \in Nat
    <2>1. IsFiniteSet(others)
      BY <1>2, <1>5, FS_Subset
    <2> HIDE DEF qOthers
    <2> QED BY <1>4, <1>9, <2>1, UnitsFinite
  <1>13. Total(q) = Backed(ord, rs, w, p) /\ Total(h) = HeldBy(rs[o], p)
    BY DEF Backed, HeldBy, B, L, q, h
  <1>14. qOthers = [x \in B \ mine |-> q[x]]
    BY <1>5
  <1> HIDE DEF qOthers, qMine
  <1>15. Total(q) = (IF ord[o].warehouse = w THEN Total(h) ELSE 0) + Total(qOthers)
    BY <1>10, <1>11, <1>14
  <1> QED BY <1>7, <1>12, <1>13, <1>15 DEF B, others

(* One order changes, and with it what is held for it. *)
LEMMA BackedChange ==
  ASSUME NEW ord, NEW rs, NEW ord2, NEW rs2,
         \A x \in Orders : SoundRows(rs[x]) /\ SoundRows(rs2[x]),
         NEW o \in Orders, NEW w, NEW p,
         \A x \in Orders \ {o} : ord2[x].warehouse = ord[x].warehouse /\ rs2[x] = rs[x]
  PROVE  /\ Backed(ord2, rs2, w, p) =
              Backed(ord, rs, w, p) - (IF ord[o].warehouse = w THEN HeldBy(rs[o], p) ELSE 0)
                                    + (IF ord2[o].warehouse = w THEN HeldBy(rs2[o], p) ELSE 0)
         /\ Backed(ord, rs, w, p) \in Nat /\ HeldBy(rs[o], p) \in Nat
         /\ HeldBy(rs2[o], p) \in Nat
  <1> DEFINE A == {y \in Backing(ord, rs, w, p) : y[1] # o}
             A2 == {y \in Backing(ord2, rs2, w, p) : y[1] # o}
             a == Total([x \in A |-> rs[x[1]][x[2]].qty - rs[x[1]][x[2]].fulfilled])
             a2 == Total([x \in A2 |-> rs2[x[1]][x[2]].qty - rs2[x[1]][x[2]].fulfilled])
             m == IF ord[o].warehouse = w THEN HeldBy(rs[o], p) ELSE 0
             m2 == IF ord2[o].warehouse = w THEN HeldBy(rs2[o], p) ELSE 0
  <1>1. A2 = A /\ \A x \in A : x[1] \in Orders \ {o}
    BY DEF Backing
  <1>2. a2 = a
    BY <1>1
  <1>3. Backed(ord, rs, w, p) = m + a /\ a \in Nat
    BY BackedSplit
  <1>4. Backed(ord2, rs2, w, p) = m2 + a2
    BY BackedSplit
  <1>5. HeldBy(rs[o], p) \in Nat /\ HeldBy(rs2[o], p) \in Nat
    BY HeldByAmounts
  <1>6. m \in Nat /\ m2 \in Nat
    BY <1>5
  <1> HIDE DEF a, a2, m, m2, A, A2
  <1>7. Backed(ord2, rs2, w, p) = Backed(ord, rs, w, p) - m + m2 /\ Backed(ord, rs, w, p) \in Nat
    BY <1>2, <1>3, <1>4, <1>6
  <1> QED BY <1>5, <1>7 DEF m, m2

(* The rows of a request hold what the request needs. *)
LEMMA RequestHeld ==
  ASSUME NEW want \in Requests, NEW p \in Products
  PROVE  HeldBy([l \in Lines |-> IF l \in DOMAIN want THEN ReservedRow(want[l])
                                  ELSE AbsentReservation], p) =
           aggregateRequiredQuantity(want)[p]
  <1> DEFINE rows == [l \in Lines |-> IF l \in DOMAIN want THEN ReservedRow(want[l])
                                       ELSE AbsentReservation]
             of == {m \in DOMAIN want : want[m].product = p}
  <1>1. /\ DOMAIN want \in SUBSET Lines
        /\ \A l \in DOMAIN want : want[l].qty \in Nat
    <2>1. /\ DOMAIN want \in SUBSET Lines
          /\ \A l \in DOMAIN want : want[l] \in [product : Products, qty : LineQuantities]
      BY DEF Requests
    <2>2. LineQuantities \subseteq Nat
      BY QuantityAssumption
    <2> QED BY <2>1, <2>2
  <1>2. \A l \in DOMAIN want :
          /\ rows[l].product = want[l].product /\ rows[l].status \in Holding
          /\ rows[l].qty - rows[l].fulfilled = want[l].qty
    BY <1>1 DEF ReservedRow, Holding
  <1>3. \A l \in Lines \ DOMAIN want : rows[l].status \notin Holding
    BY DEF AbsentReservation, Holding
  <1> HIDE DEF rows
  <1>4. LinesHeld(rows, p) = of
    BY <1>1, <1>2, <1>3 DEF LinesHeld
  <1>5. [l \in LinesHeld(rows, p) |-> rows[l].qty - rows[l].fulfilled] = [l \in of |-> want[l].qty]
    BY <1>2, <1>4
  <1>6. HeldBy(rows, p) = aggregateRequiredQuantity(want)[p]
    BY <1>5 DEF HeldBy, aggregateRequiredQuantity
  <1> QED BY <1>6 DEF rows

(* Payment keeps what is held; cancellation gives all of it up. *)
LEMMA CommittedHeld ==
  ASSUME NEW rows \in [Lines -> ReservationRow], NEW p
  PROVE  HeldBy([l \in Lines |-> CommittedRow(rows[l])], p) = HeldBy(rows, p)
  <1> DEFINE new == [l \in Lines |-> CommittedRow(rows[l])]
  <1>1. \A l \in Lines : /\ new[l].product = rows[l].product /\ new[l].qty = rows[l].qty
                         /\ new[l].fulfilled = rows[l].fulfilled
                         /\ new[l].status \in Holding <=> rows[l].status \in Holding
    BY DEF CommittedRow, ReservationRow, Holding
  <1> HIDE DEF new
  <1>2. LinesHeld(new, p) = LinesHeld(rows, p)
    BY <1>1 DEF LinesHeld
  <1>3. [l \in LinesHeld(new, p) |-> new[l].qty - new[l].fulfilled] =
          [l \in LinesHeld(rows, p) |-> rows[l].qty - rows[l].fulfilled]
    BY <1>1, <1>2 DEF LinesHeld
  <1>4. HeldBy(new, p) = HeldBy(rows, p)
    BY <1>3 DEF HeldBy
  <1> QED BY <1>4 DEF new

LEMMA NothingHeld ==
  ASSUME NEW rows, NEW p, LinesHeld(rows, p) = {}
  PROVE  HeldBy(rows, p) = 0
  <1> DEFINE q == [l \in LinesHeld(rows, p) |-> rows[l].qty - rows[l].fulfilled]
  <1>1. q \in Amounts({}) /\ \A x \in {} : q[x] = 0
    BY DEF Amounts
  <1> HIDE DEF q
  <1>2. Total(q) = 0
    BY <1>1, TotalNothing
  <1> QED BY <1>2 DEF HeldBy, q

LEMMA ReleasedHeld ==
  ASSUME NEW rows \in [Lines -> ReservationRow], NEW p
  PROVE  HeldBy([l \in Lines |-> ReleasedRow(rows[l])], p) = 0
  <1>1. \A l \in Lines : ReleasedRow(rows[l]).status \notin Holding
    BY DEF ReleasedRow, Holding, ReservationRow
  <1> DEFINE new == [l \in Lines |-> ReleasedRow(rows[l])]
  <1>2. LinesHeld(new, p) = {}
    BY <1>1 DEF LinesHeld
  <1> HIDE DEF new
  <1>3. HeldBy(new, p) = 0
    BY <1>2, NothingHeld
  <1> QED BY <1>3 DEF new

(* Shipping gives up what is shipped. *)
LEMMA FulfilledHeld ==
  ASSUME NEW rows, NEW rows2, SoundRows(rows), SoundRows(rows2), NEW c \in [Lines -> Int],
         \A l \in Lines : c[l] > 0 => /\ rows[l].status \in Holding
                                      /\ rows[l].fulfilled + c[l] <= rows[l].qty,
         \A l \in Lines : rows2[l] = IF c[l] > 0 THEN FulfilledRow(rows[l], c[l]) ELSE rows[l],
         NEW p
  PROVE  HeldBy(rows2, p) = HeldBy(rows, p) -
           Total([l \in {m \in {n \in Lines : c[n] > 0} : rows[m].product = p} |-> c[l]])
  <1> DEFINE L == LinesHeld(rows, p)
             L2 == LinesHeld(rows2, p)
             before == [l \in L |-> rows[l].qty - rows[l].fulfilled]
             after == [l \in L |-> rows2[l].qty - rows2[l].fulfilled]
             out == [l \in L |-> IF c[l] > 0 THEN c[l] ELSE 0]
             packed == {m \in {n \in Lines : c[n] > 0} : rows[m].product = p}
  <1>1. \A l \in Lines :
          /\ rows[l].qty \in 0 .. MaxQuantity /\ rows[l].fulfilled \in Nat
          /\ rows[l].fulfilled <= rows[l].qty /\ c[l] \in Int /\ MaxQuantity \in Nat
          /\ rows2[l].product = rows[l].product
          /\ rows2[l].qty = rows[l].qty
          /\ rows2[l].fulfilled = IF c[l] > 0 THEN rows[l].fulfilled + c[l] ELSE rows[l].fulfilled
          /\ rows2[l].status = IF c[l] > 0 /\ rows[l].fulfilled + c[l] = rows[l].qty
                               THEN "FULFILLED" ELSE rows[l].status
    BY QuantityAssumption DEF SoundRows, ReservationRow, Quantity, FulfilledRow
  <1>2. L \in SUBSET Lines /\ L2 \in SUBSET L
    BY <1>1 DEF LinesHeld, Holding
  <1>3. packed \in SUBSET L
    BY DEF LinesHeld
  <1>4. IsFiniteSet(L)
    BY HeldByAmounts
  <1>5. before \in Amounts(L) /\ after \in Amounts(L) /\ out \in Amounts(L)
    BY <1>1, <1>2 DEF Amounts, Quantity
  <1>6. \A l \in L : before[l] = after[l] + out[l]
    BY <1>1, <1>2
  <1>7. \A l \in L \ L2 : after[l] = 0
    BY <1>1, <1>2 DEF LinesHeld, Holding
  <1>8. \A l \in L \ packed : out[l] = 0
    BY <1>2 DEF LinesHeld
  <1>9. /\ [l \in L2 |-> after[l]] = [l \in L2 |-> rows2[l].qty - rows2[l].fulfilled]
        /\ [l \in packed |-> out[l]] = [l \in packed |-> c[l]]
    BY <1>2, <1>3
  <1> HIDE DEF before, after, out, packed, L, L2
  <1>10. Total(before) = Total(after) + Total(out)
    BY <1>4, <1>5, <1>6, TotalPlus
  <1>11. Total(after) = Total([l \in L2 |-> after[l]])
    BY <1>2, <1>5, <1>7, TotalSupport
  <1>12. Total(out) = Total([l \in packed |-> out[l]])
    BY <1>3, <1>5, <1>8, TotalSupport
  <1>13. Total(before) \in Nat /\ Total(after) \in Nat /\ Total(out) \in Nat
    BY <1>4, <1>5, UnitsFinite
  <1>14. HeldBy(rows, p) = Total(before)
    BY DEF HeldBy, before, L
  <1>15. HeldBy(rows2, p) = Total(after)
    BY <1>9, <1>11 DEF HeldBy, L2
  <1>16. Total([l \in packed |-> c[l]]) = Total(out)
    BY <1>9, <1>12
  <1>17. HeldBy(rows2, p) = HeldBy(rows, p) - Total([l \in packed |-> c[l]])
    BY <1>10, <1>13, <1>14, <1>15, <1>16
  <1> QED BY <1>17 DEF packed

LEMMA NothingBacked ==
  ASSUME NEW ord, NEW rs, NEW w, NEW p, \A o \in Orders : LinesHeld(rs[o], p) = {}
  PROVE  Backed(ord, rs, w, p) = 0
  <1> DEFINE q == [x \in Backing(ord, rs, w, p) |-> rs[x[1]][x[2]].qty - rs[x[1]][x[2]].fulfilled]
  <1>1. Backing(ord, rs, w, p) = {}
    BY DEF Backing
  <1>2. q \in Amounts({}) /\ \A x \in {} : q[x] = 0
    BY <1>1 DEF Amounts
  <1> HIDE DEF q
  <1>3. Total(q) = 0
    BY <1>2, TotalNothing
  <1> QED BY <1>3 DEF Backed, q

LEMMA ReservedLedgerStep ==
  ASSUME RowsTyped, WarehouseFits, ReservationFollowsOrder, ArchivedProductIdle, ReservedLedger,
         StepKinds, RowsTyped', ReservationFollowsOrder'
  PROVE  ReservedLedger'
  <1> DEFINE Sum(w, p) == Backed(order, res, w, p)
             Mine(o, w, p) == IF order[o].warehouse = w THEN HeldBy(res[o], p) ELSE 0
  <1>a. /\ \A x \in Orders : SoundRows(res[x]) /\ SoundRows(res'[x])
        /\ \A w \in Warehouses, p \in Products :
             reserved[w][p] = Sum(w, p) /\ reserved[w][p] \in Int
        /\ \A x \in Orders : order[x] \in OrderRow
    <2>1. \A x \in Orders : SoundRows(res[x]) /\ SoundRows(res'[x])
      BY DEF SoundRows, RowsTyped, ReservationFollowsOrder, ReservationFits
    <2>2. \A w \in Warehouses, p \in Products : reserved[w][p] = Sum(w, p)
      BY DEF ReservedLedger, Backed, Backing, LinesHeld, HeldLines
    <2> QED BY <2>1, <2>2 DEF RowsTyped
  <1>b. ASSUME \A w \in Warehouses, p \in Products : reserved'[w][p] = Sum(w, p)'
        PROVE  ReservedLedger'
    BY <1>b DEF ReservedLedger, Backed, Backing, LinesHeld, HeldLines
  <1>0. ASSUME UNCHANGED <<reserved, order, res>>
        PROVE  ReservedLedger'
    BY <1>0, <1>a, <1>b
  (* A step of one order changes what is reserved for it and nothing else. *)
  <1>c. ASSUME NEW o \in Orders,
               \A x \in Orders \ {o} : order'[x] = order[x] /\ res'[x] = res[x],
               \A w \in Warehouses, p \in Products :
                 reserved'[w][p] = reserved[w][p] - Mine(o, w, p) + Mine(o, w, p)'
        PROVE  ReservedLedger'
    <2> SUFFICES ASSUME NEW w \in Warehouses, NEW p \in Products
                 PROVE  reserved'[w][p] = Sum(w, p)'
      BY <1>b
    <2>1. Sum(w, p)' = Sum(w, p) - Mine(o, w, p) + Mine(o, w, p)'
      <3>1. \A x \in Orders \ {o} : order'[x].warehouse = order[x].warehouse /\ res'[x] = res[x]
        BY <1>c
      <3>2. \A x \in Orders : SoundRows(res[x]) /\ SoundRows(res'[x])
        BY <1>a
      <3> QED BY <3>1, <3>2, BackedChange
    <2> HIDE DEF Sum, Mine
    <2> QED BY <1>a, <1>c, <2>1
  <1>d. \A o \in Orders, p \in Products :
          HeldBy(res[o], p) \in Nat /\ HeldBy(res'[o], p) \in Nat /\ Held(o, p) = HeldBy(res[o], p)
    BY <1>a, HeldByAmounts DEF Held, HeldBy, HeldLines, LinesHeld
  (* Steps that keep what is held. *)
  <1>e. ASSUME NEW o \in Orders, UNCHANGED reserved,
               \A x \in Orders \ {o} : order'[x] = order[x] /\ res'[x] = res[x],
               order'[o].warehouse = order[o].warehouse,
               \A p \in Products : HeldBy(res'[o], p) = HeldBy(res[o], p)
        PROVE  ReservedLedger'
    <2>1. \A w \in Warehouses, p \in Products :
            /\ Mine(o, w, p)' = Mine(o, w, p) /\ Mine(o, w, p) \in Int
            /\ reserved'[w][p] = reserved[w][p] /\ reserved[w][p] \in Int
      BY <1>a, <1>d, <1>e
    <2> HIDE DEF Mine
    <2>2. \A w \in Warehouses, p \in Products :
            reserved'[w][p] = reserved[w][p] - Mine(o, w, p) + Mine(o, w, p)'
      BY <2>1
    <2> QED BY <1>c, <1>e, <2>2
  <1>1. ASSUME NEW o \in Orders, NEW want \in Requests, createSimulatedOrder(o, want)
        PROVE  ReservedLedger'
    <2> DEFINE need == aggregateRequiredQuantity(want)
               rows == [l \in Lines |-> IF l \in DOMAIN want THEN ReservedRow(want[l])
                                        ELSE AbsentReservation]
    <2>1. PICK v \in Warehouses : Allocate(o, want, v) /\ order' = [order EXCEPT ![o] = NewOrder(v)]
      BY <1>1 DEF createSimulatedOrder
    <2>2. /\ reserved' = [reserved EXCEPT ![v] = [p \in Products |-> reserved[v][p] + need[p]]]
          /\ res' = [res EXCEPT ![o] = rows]
          /\ NewOrder(v).warehouse = v
      BY <2>1 DEF Allocate, NewOrder, AbsentOrder
    <2>3. order[o].warehouse \notin Warehouses
      BY <1>1, NullAssumption DEF createSimulatedOrder, WarehouseFits
    <2>4. \A p \in Products : HeldBy(rows, p) = need[p] /\ need[p] \in Nat
      BY NeedType, RequestHeld
    <2> HIDE DEF need, rows
    <2>5. \A w \in Warehouses, p \in Products :
            reserved'[w][p] = reserved[w][p] - Mine(o, w, p) + Mine(o, w, p)'
      <3> SUFFICES ASSUME NEW w \in Warehouses, NEW p \in Products
                   PROVE  reserved'[w][p] = reserved[w][p] - Mine(o, w, p) + Mine(o, w, p)'
        OBVIOUS
      <3>1. Mine(o, w, p) = 0
        BY <2>3
      <3>2. Mine(o, w, p)' = IF w = v THEN need[p] ELSE 0
        BY <2>1, <2>2, <2>4 DEF RowsTyped
      <3>3. reserved'[w][p] = IF w = v THEN reserved[w][p] + need[p] ELSE reserved[w][p]
        BY <2>2 DEF RowsTyped
      <3> HIDE DEF Mine
      <3> QED BY <1>a, <2>4, <3>1, <3>2, <3>3
    <2>6. \A x \in Orders \ {o} : order'[x] = order[x] /\ res'[x] = res[x]
      BY <2>1, <2>2 DEF RowsTyped
    <2> QED BY <1>c, <2>5, <2>6
  <1>2. ASSUME NEW o \in Orders, NEW target \in RequestedTargets, Transition(o, target)
        PROVE  ReservedLedger'
    <2>1. /\ order' = [order EXCEPT ![o] = AdvancedRow(order[o], target)]
          /\ UNCHANGED reserved
          /\ AdvancedRow(order[o], target).warehouse = order[o].warehouse
      BY <1>2, <1>a DEF Transition, Advance, stockVars, AdvancedRow, OrderRow
    <2>2. \/ res' = res
          \/ res' = [res EXCEPT ![o] = [l \in Lines |-> CommittedRow(res[o][l])]]
      BY <1>2 DEF Transition, Commit
    <2>3. \A p \in Products : HeldBy(res'[o], p) = HeldBy(res[o], p)
      <3>1. CASE res' = res
        BY <3>1
      <3>2. CASE res' = [res EXCEPT ![o] = [l \in Lines |-> CommittedRow(res[o][l])]]
        <4>1. res'[o] = [l \in Lines |-> CommittedRow(res[o][l])] /\ res[o] \in [Lines -> ReservationRow]
          BY <3>2 DEF RowsTyped
        <4> QED BY <4>1, CommittedHeld
      <3> QED BY <2>2, <3>1, <3>2
    <2>4. /\ \A x \in Orders \ {o} : order'[x] = order[x] /\ res'[x] = res[x]
          /\ order'[o].warehouse = order[o].warehouse
      BY <2>1, <2>2 DEF RowsTyped
    <2> QED BY <1>e, <2>1, <2>3, <2>4
  <1>3. ASSUME NEW o \in Orders, NEW actor \in Actors, NEW reason \in Reasons,
               NEW payment \in PaymentStatus, CancelStep(o, actor, reason, payment)
        PROVE  ReservedLedger'
    <2> DEFINE v == order[o].warehouse
               held == [p \in Products |-> Held(o, p)]
    <2>1. /\ order' = [order EXCEPT ![o] = CancelledRow(order[o], actor, reason, payment)]
          /\ reserved' = [reserved EXCEPT ![v] = [p \in Products |-> reserved[v][p] - held[p]]]
          /\ res' = [res EXCEPT ![o] = [l \in Lines |-> ReleasedRow(res[o][l])]]
      BY <1>3 DEF CancelStep, Cancellation, MarkCancelled, Release
    <2>2. CancelledRow(order[o], actor, reason, payment).warehouse = v
      BY <1>a DEF CancelledRow, OrderRow
    <2>3. /\ res'[o] = [l \in Lines |-> ReleasedRow(res[o][l])] /\ res[o] \in [Lines -> ReservationRow]
          /\ order'[o].warehouse = v
      BY <2>1, <2>2 DEF RowsTyped
    <2>4. \A p \in Products : HeldBy(res'[o], p) = 0 /\ held[p] = HeldBy(res[o], p) /\ held[p] \in Nat
      BY <1>d, <2>3, ReleasedHeld
    <2> HIDE DEF held
    <2>5. \A w \in Warehouses, p \in Products :
            reserved'[w][p] = reserved[w][p] - Mine(o, w, p) + Mine(o, w, p)'
      <3> SUFFICES ASSUME NEW w \in Warehouses, NEW p \in Products
                   PROVE  reserved'[w][p] = reserved[w][p] - Mine(o, w, p) + Mine(o, w, p)'
        OBVIOUS
      <3>1. Mine(o, w, p)' = 0
        BY <2>4
      <3>2. Mine(o, w, p) = IF w = v THEN held[p] ELSE 0
        BY <2>4
      <3>3. reserved'[w][p] = IF w = v THEN reserved[w][p] - held[p] ELSE reserved[w][p]
        BY <2>1 DEF RowsTyped
      <3> HIDE DEF Mine, v
      <3> QED BY <1>a, <2>4, <3>1, <3>2, <3>3
    <2>6. \A x \in Orders \ {o} : order'[x] = order[x] /\ res'[x] = res[x]
      BY <2>1 DEF RowsTyped
    <2> QED BY <1>c, <2>5, <2>6
  <1>4. ASSUME NEW k \in Packages, NEW t \in ShipmentTargets, transitionShipment(k, t)
        PROVE  ReservedLedger'
    <2>1. PICK o \in Orders : o = pkg[k].order
      BY <1>4, ShipmentStep
    <2> DEFINE v == order[o].warehouse
               out == [p \in Products |-> Shipped(k, p)]
    <2>2. /\ \A x \in Orders \ {o} : order'[x] = order[x]
          /\ order'[o].warehouse = v
      <3>1. \/ order' = order
            \/ order' = [order EXCEPT ![o] = AdvancedRow(order[o], orderTarget[t])]
        BY <1>4, <2>1, ShipmentStep
      <3>2. AdvancedRow(order[o], orderTarget[t]).warehouse = v
        BY <1>a, <2>1 DEF AdvancedRow, OrderRow
      <3> QED BY <2>1, <3>1, <3>2 DEF RowsTyped
    <2>3. CASE UNCHANGED <<reserved, res>>
      BY <1>e, <2>1, <2>2, <2>3
    <2>4. CASE FulfillPackage(k)
      <3> DEFINE rows == [l \in Lines |-> IF l \in PackedLines(k)
                            THEN FulfilledRow(res[o][l], content[k][l]) ELSE res[o][l]]
      <3>1. /\ reserved' = [reserved EXCEPT ![v] = [p \in Products |-> reserved[v][p] - out[p]]]
            /\ res' = [res EXCEPT ![o] = rows]
            /\ \A l \in PackedLines(k) : /\ res[o][l].status \in Holding
                                         /\ res[o][l].fulfilled + content[k][l] <= res[o][l].qty
        BY <2>1, <2>4 DEF FulfillPackage
      <3>2. res'[o] = rows /\ \A x \in Orders \ {o} : res'[x] = res[x]
        BY <2>1, <3>1 DEF RowsTyped
      <3>3. \A l \in Lines : res'[o][l] = IF content[k][l] > 0
                                         THEN FulfilledRow(res[o][l], content[k][l]) ELSE res[o][l]
        BY <3>2 DEF PackedLines
      <3>4. \A l \in Lines : content[k][l] > 0 => /\ res[o][l].status \in Holding
                                               /\ res[o][l].fulfilled + content[k][l] <= res[o][l].qty
        BY <3>1 DEF PackedLines
      <3>5. content[k] \in [Lines -> Int]
        BY DEF RowsTyped
      <3>a. SoundRows(res[o]) /\ SoundRows(res'[o])
        BY <1>a, <2>1
      <3> HIDE DEF out, rows
      <3>6. ASSUME NEW p \in Products
            PROVE  HeldBy(res'[o], p) = HeldBy(res[o], p) - out[p] /\ out[p] \in Nat
        <4>1. HeldBy(res'[o], p) = HeldBy(res[o], p) -
                Total([l \in {m \in {n \in Lines : content[k][n] > 0} : res[o][m].product = p}
                         |-> content[k][l]])
          BY <3>a, <3>3, <3>4, <3>5, FulfilledHeld
        <4>2. out[p] = Total([l \in {m \in {n \in Lines : content[k][n] > 0} : res[o][m].product = p}
                                |-> content[k][l]])
          BY <2>1 DEF Shipped, PackedLines, out
        <4> QED BY <4>1, <4>2, ShippedType DEF out
      <3>7. \A w \in Warehouses, p \in Products :
              reserved'[w][p] = reserved[w][p] - Mine(o, w, p) + Mine(o, w, p)'
        <4> SUFFICES ASSUME NEW w \in Warehouses, NEW p \in Products
                     PROVE  reserved'[w][p] = reserved[w][p]
                              - (IF v = w THEN HeldBy(res[o], p) ELSE 0)
                              + (IF order'[o].warehouse = w THEN HeldBy(res'[o], p) ELSE 0)
          OBVIOUS
        <4>1. reserved'[w][p] = IF w = v THEN reserved[w][p] - out[p] ELSE reserved[w][p]
          BY <3>1 DEF RowsTyped
        <4>2. HeldBy(res[o], p) \in Nat /\ HeldBy(res'[o], p) \in Nat
          BY <1>d, <2>1
        <4> HIDE DEF v
        <4> QED BY <1>a, <2>2, <3>6, <4>1, <4>2
      <3> HIDE DEF v, Mine
      <3> QED BY <1>c, <2>1, <2>2, <3>2, <3>7
    <2> QED BY <1>4, <2>3, <2>4 DEF transitionShipment
  <1>5. ASSUME NEW q \in Products, NEW s \in {"ACTIVE", "INACTIVE"},
               NEW initial \in [Warehouses -> Quantity], createProduct(q, s, initial)
        PROVE  ReservedLedger'
    <2> SUFFICES ASSUME NEW w \in Warehouses, NEW p \in Products
                 PROVE  reserved'[w][p] = Sum(w, p)'
      BY <1>b
    <2>1. /\ reserved' = [x \in Warehouses |-> [reserved[x] EXCEPT ![q] = 0]]
          /\ UNCHANGED <<order, res>> /\ product[q].status = "NONE"
      BY <1>5 DEF createProduct, unchangedOrders
    <2>2. Sum(w, p)' = Sum(w, p)
      BY <2>1
    <2>3. CASE p # q
      BY <1>a, <2>1, <2>2, <2>3 DEF RowsTyped
    <2>4. CASE p = q
      <3>1. \A o \in Orders : LinesHeld(res[o], p) = {}
        BY <2>1, <2>4 DEF ArchivedProductIdle, HeldLines, LinesHeld
      <3>2. Sum(w, p) = 0
        BY <3>1, NothingBacked
      <3>3. reserved'[w][p] = 0
        BY <2>1, <2>4 DEF RowsTyped
      <3> QED BY <2>2, <3>2, <3>3
    <2> QED BY <2>3, <2>4
  <1>6. ASSUME NEW P \in SUBSET Products, NEW S \in SUBSET Orders, NEW late,
               resetShopData(P, S, late)
        PROVE  ReservedLedger'
    <2> SUFFICES ASSUME NEW w \in Warehouses, NEW p \in Products
                 PROVE  reserved'[w][p] = Sum(w, p)'
      BY <1>b
    <2>1. \A o \in Orders : LinesHeld(res'[o], p) = {}
      BY <1>6 DEF resetShopData, LinesHeld, AbsentReservation, Holding
    <2>2. Sum(w, p)' = 0
      BY <2>1, NothingBacked
    <2>3. reserved'[w][p] = 0
      BY <1>6 DEF resetShopData
    <2> QED BY <2>2, <2>3
  <1>7. CASE StockNext
    BY <1>0, <1>5, <1>6, <1>7
    DEF StockNext, createControlWarehouse, updateControlWarehouse, updateWarehouseInventory,
        updateProduct, Archive, unchangedOrders, stockVars
  <1>8. ASSUME NEW k \in Packages, NEW o \in Orders, PackageStep(o, k)
        PROVE  ReservedLedger'
    BY <1>0, <1>8 DEF PackageStep, shipExistingPackage, InsertPackage, stockVars
  <1>9. CASE Tick \/ UNCHANGED vars
    BY <1>0, <1>9 DEF Tick, vars, stockVars
  <1> QED BY <1>1, <1>2, <1>3, <1>4, <1>7, <1>8, <1>9 DEF StepKinds

LEMMA InitReservedLedger == Init => ReservedLedger
  <1> SUFFICES ASSUME Init, NEW w \in Warehouses, NEW p \in Products
               PROVE  reserved[w][p] = Backed(order, res, w, p)
    BY DEF ReservedLedger, Backed, Backing, LinesHeld, HeldLines
  <1>1. \A o \in Orders : LinesHeld(res[o], p) = {}
    BY DEF Init, LinesHeld, AbsentReservation, Holding
  <1> QED BY <1>1, NothingBacked DEF Init

(* A warehouse reserves exactly what the reservations behind its orders still
   hold, so that the drift errors of Release and FulfillPackage never fire. *)
THEOREM ReservedLedgerExact == Spec => []ReservedLedger
  <1>1. /\ RowsTyped /\ WarehouseFits /\ ReservationFollowsOrder /\ ArchivedProductIdle
        /\ ReservedLedger /\ RowsTyped' /\ ReservationFollowsOrder' /\ [Next]_vars
        => ReservedLedger'
    BY NextKinds, ReservedLedgerStep
  <1> QED BY <1>1, InitReservedLedger, RowsAreTyped, BoundsHold, ReservationsFollowOrders,
             ArchivedProductsIdle, PTL DEF Spec

(* Both ledgers at once. *)
THEOREM BooksExact == Spec => []LedgersExact
  BY StockLedgerExact, ReservedLedgerExact, PTL DEF LedgersExact

-----------------------------------------------------------------------------
(* Packages and what they hold *)

ContentFits == \A k \in Packages, l \in Lines : content[k][l] \in Quantity

Parcels(pk, o) == {k \in Packages : pk[k].order = o}
OnTheRoad(pk, o) == {k \in Parcels(pk, o) : pk[k].status \in ShipmentTargets}
Packed(ks, ct, l) == Total([k \in ks |-> ct[k][l]])

LEMMA PackedAmounts ==
  ASSUME NEW ks \in SUBSET Packages, NEW ct, NEW l, \A k \in ks : ct[k][l] \in Quantity
  PROVE  /\ [k \in ks |-> ct[k][l]] \in Amounts(ks) /\ IsFiniteSet(ks)
         /\ Packed(ks, ct, l) \in Nat
  <1>1. [k \in ks |-> ct[k][l]] \in Amounts(ks) /\ IsFiniteSet(ks)
    BY FiniteAssumption, FS_Subset DEF Amounts
  <1> QED BY <1>1, UnitsFinite DEF Packed

(* The contents ct2 add a package k to the packages ks with contents ct. *)
OneMore(ks, k, ct, ct2, l) ==
  /\ ks \in SUBSET Packages /\ k \in Packages /\ k \notin ks
  /\ \A j \in ks : ct2[j][l] = ct[j][l]
  /\ \A j \in ks \cup {k} : ct2[j][l] \in Quantity

LEMMA PackedMore ==
  ASSUME NEW ks, NEW k, NEW ct, NEW ct2, NEW l, OneMore(ks, k, ct, ct2, l)
  PROVE  Packed(ks \cup {k}, ct2, l) = Packed(ks, ct, l) + ct2[k][l]
  <1> USE DEF OneMore
  <1> DEFINE q == [j \in ks \cup {k} |-> ct2[j][l]]
  <1>1. q \in Amounts(ks \cup {k}) /\ IsFiniteSet(ks)
    BY FiniteAssumption, FS_Subset DEF Amounts
  <1>2. [j \in ks |-> q[j]] = [j \in ks |-> ct[j][l]] /\ q[k] = ct2[k][l]
    OBVIOUS
  <1>3. [j \in ks |-> q[j]] \in Amounts(ks) /\ q[k] \in Int
    BY <1>1, QuantityAssumption DEF Amounts, Quantity
  <1> HIDE DEF q
  <1>4. Total(q) = q[k] + Total([j \in ks |-> q[j]])
    BY <1>1, TotalAdded
  <1>5. Total([j \in ks |-> q[j]]) \in Nat
    BY <1>1, <1>3, UnitsFinite
  <1>6. Packed(ks, ct, l) = Total([j \in ks |-> q[j]])
    BY <1>2 DEF Packed
  <1>7. Total(q) = Packed(ks, ct, l) + ct2[k][l]
    BY <1>2, <1>3, <1>4, <1>5, <1>6
  <1> QED BY <1>7 DEF Packed, q

LEMMA PackedSame ==
  ASSUME NEW ks, NEW ct, NEW ct2, NEW l, \A k \in ks : ct2[k][l] = ct[k][l]
  PROVE  Packed(ks, ct2, l) = Packed(ks, ct, l)
  BY DEF Packed

LEMMA PackedNothing ==
  ASSUME NEW ct, NEW l
  PROVE  Packed({}, ct, l) = 0
  <1>1. [k \in {} |-> ct[k][l]] \in Amounts({})
    BY DEF Amounts
  <1> QED BY <1>1, TotalNothing DEF Packed

LEMMA ShippedStep ==
  ASSUME RowsTyped, ParcelsFollowOrder, ContentFits, FulfilledIsShipped, StepKinds
  PROVE  ContentFits' /\ FulfilledIsShipped'
  <1>a. /\ \A o \in Orders, l \in Lines :
             /\ res[o][l].qty - Packed(Parcels(pkg, o), content, l) >= 0
             /\ res[o][l].fulfilled = Packed(OnTheRoad(pkg, o), content, l)
        /\ \A o \in Orders, l \in Lines :
             /\ Remaining(o, l) = res[o][l].qty - Packed(Parcels(pkg, o), content, l)
             /\ Packed(Parcels(pkg, o), content, l) \in Nat
             /\ Packed(OnTheRoad(pkg, o), content, l) \in Nat
        /\ \A o \in Orders, l \in Lines :
             /\ res[o][l] \in ReservationRow /\ res[o][l].qty \in 0 .. MaxQuantity
             /\ MaxQuantity \in Nat
        /\ \A k \in Packages : pkg[k] \in PackageRow
    <2>1. \A o \in Orders, l \in Lines :
            /\ Packed(Parcels(pkg, o), content, l) \in Nat
            /\ Packed(OnTheRoad(pkg, o), content, l) \in Nat
      BY PackedAmounts DEF ContentFits, Parcels, OnTheRoad
    <2>2. \A o \in Orders, l \in Lines :
            /\ res[o][l] \in ReservationRow /\ res[o][l].qty \in 0 .. MaxQuantity
            /\ MaxQuantity \in Nat
      BY QuantityAssumption DEF RowsTyped, ReservationRow, Quantity
    <2>3. \A o \in Orders, l \in Lines :
             /\ res[o][l].qty - Packed(Parcels(pkg, o), content, l) >= 0
             /\ res[o][l].fulfilled = Packed(OnTheRoad(pkg, o), content, l)
             /\ Remaining(o, l) = res[o][l].qty - Packed(Parcels(pkg, o), content, l)
      BY DEF FulfilledIsShipped, Remaining, Packed, Parcels, OnTheRoad
    <2> QED BY <2>1, <2>2, <2>3 DEF RowsTyped
  <1>b. ASSUME \A o \in Orders, l \in Lines :
                 /\ res'[o][l].qty - Packed(Parcels(pkg', o), content', l) >= 0
                 /\ res'[o][l].fulfilled = Packed(OnTheRoad(pkg', o), content', l)
        PROVE  FulfilledIsShipped'
    BY <1>b DEF FulfilledIsShipped, Remaining, Packed, Parcels, OnTheRoad
  (* Steps that leave the packages and the quantities alone. *)
  <1>0. ASSUME UNCHANGED <<pkg, content>>,
               \A o \in Orders, l \in Lines :
                 res'[o][l].qty = res[o][l].qty /\ res'[o][l].fulfilled = res[o][l].fulfilled
        PROVE  ContentFits' /\ FulfilledIsShipped'
    BY <1>0, <1>a, <1>b DEF ContentFits
  <1>1. ASSUME NEW o \in Orders, NEW want \in Requests, createSimulatedOrder(o, want)
        PROVE  ContentFits' /\ FulfilledIsShipped'
    <2> DEFINE rows == [l \in Lines |-> IF l \in DOMAIN want THEN ReservedRow(want[l])
                                        ELSE AbsentReservation]
    <2>1. /\ UNCHANGED <<pkg, content>> /\ res' = [res EXCEPT ![o] = rows]
          /\ order[o].status = "NONE"
      BY <1>1 DEF createSimulatedOrder, Allocate, parcelVars
    <2>2. \A l \in Lines : rows[l].qty \in Nat /\ rows[l].fulfilled = 0
      <3>1. \A l \in DOMAIN want : want[l].qty \in Nat
        <4>1. \A l \in DOMAIN want : want[l] \in [product : Products, qty : LineQuantities]
          BY DEF Requests
        <4>2. LineQuantities \subseteq Nat
          BY QuantityAssumption
        <4> QED BY <4>1, <4>2
      <3> QED BY <3>1 DEF ReservedRow, AbsentReservation
    <2>3. Parcels(pkg, o) = {} /\ OnTheRoad(pkg, o) = {}
      <3>1. \A k \in Packages : pkg[k].order = o => ParcelFits(pkg[k], "NONE")
        BY <2>1, NullAssumption DEF RowsTyped, ParcelsFollowOrder
      <3>2. \A k \in Packages : pkg[k].order # o
        BY <3>1 DEF ParcelFits, Moving
      <3> QED BY <3>2 DEF Parcels, OnTheRoad
    <2>4. \A l \in Lines : /\ Packed(Parcels(pkg, o), content, l) = 0
                           /\ Packed(OnTheRoad(pkg, o), content, l) = 0
      BY <2>3, PackedNothing
    <2>5. /\ \A l \in Lines : res'[o][l] = rows[l]
          /\ \A x \in Orders \ {o} : res'[x] = res[x]
      BY <2>1 DEF RowsTyped
    <2> HIDE DEF rows
    <2>6. FulfilledIsShipped'
      <3> SUFFICES ASSUME NEW x \in Orders, NEW l \in Lines
                   PROVE  /\ res'[x][l].qty - Packed(Parcels(pkg', x), content', l) >= 0
                          /\ res'[x][l].fulfilled = Packed(OnTheRoad(pkg', x), content', l)
        BY <1>b
      <3>1. CASE x = o
        BY <2>1, <2>2, <2>4, <2>5, <3>1
      <3>2. CASE x # o
        BY <1>a, <2>1, <2>5, <3>2
      <3> QED BY <3>1, <3>2
    <2> QED BY <2>1, <2>6 DEF ContentFits
  <1>2. ASSUME NEW o \in Orders, NEW target \in RequestedTargets, Transition(o, target)
        PROVE  ContentFits' /\ FulfilledIsShipped'
    <2>1. \/ res' = res
          \/ res' = [res EXCEPT ![o] = [l \in Lines |-> CommittedRow(res[o][l])]]
      BY <1>2 DEF Transition, Commit
    <2>2. \A l \in Lines : /\ CommittedRow(res[o][l]).qty = res[o][l].qty
                           /\ CommittedRow(res[o][l]).fulfilled = res[o][l].fulfilled
      BY <1>a DEF CommittedRow, ReservationRow
    <2>3. \A x \in Orders, l \in Lines :
            res'[x][l].qty = res[x][l].qty /\ res'[x][l].fulfilled = res[x][l].fulfilled
      BY <2>1, <2>2 DEF RowsTyped
    <2> QED BY <1>0, <1>2, <2>3 DEF Transition, parcelVars
  <1>3. ASSUME NEW o \in Orders, NEW actor \in Actors, NEW reason \in Reasons,
               NEW payment \in PaymentStatus, CancelStep(o, actor, reason, payment)
        PROVE  ContentFits' /\ FulfilledIsShipped'
    <2>1. res' = [res EXCEPT ![o] = [l \in Lines |-> ReleasedRow(res[o][l])]]
      BY <1>3 DEF CancelStep, Cancellation, Release
    <2>2. \A l \in Lines : /\ ReleasedRow(res[o][l]).qty = res[o][l].qty
                           /\ ReleasedRow(res[o][l]).fulfilled = res[o][l].fulfilled
      BY <1>a DEF ReleasedRow, ReservationRow
    <2>3. \A x \in Orders, l \in Lines :
            res'[x][l].qty = res[x][l].qty /\ res'[x][l].fulfilled = res[x][l].fulfilled
      BY <2>1, <2>2 DEF RowsTyped
    <2> QED BY <1>0, <1>3, <2>3 DEF CancelStep, Cancellation, parcelVars
  <1>4. ASSUME NEW k \in Packages, NEW t \in ShipmentTargets, transitionShipment(k, t)
        PROVE  ContentFits' /\ FulfilledIsShipped'
    <2>1. PICK o \in Orders : o = pkg[k].order
      BY <1>4, ShipmentStep
    <2>2. /\ pkg' = [pkg EXCEPT ![k] = [pkg[k] EXCEPT !.status = t, !.shipment = t]]
          /\ UNCHANGED content /\ pkg[k].shipment = expected[t] /\ pkg[k].status # "NONE"
      BY <1>4, ShipmentStep DEF transitionShipment
    <2>3. /\ pkg'[k].order = o /\ pkg'[k].status = t
          /\ \A j \in Packages \ {k} : pkg'[j] = pkg[j]
      BY <1>a, <2>1, <2>2 DEF RowsTyped, PackageRow
    <2>4. \A x \in Orders : Parcels(pkg', x) = Parcels(pkg, x)
      BY <2>1, <2>3 DEF Parcels
    <2>5. \A x \in Orders \ {o} : OnTheRoad(pkg', x) = OnTheRoad(pkg, x)
      BY <2>1, <2>3, <2>4 DEF OnTheRoad, Parcels
    <2>6. ParcelFits(pkg[k], order[o].status)
      BY <2>1, <2>2 DEF ParcelsFollowOrder
    <2>7. CASE t # "SHIPPED"
      <3>1. pkg[k].shipment \notin {"NONE", "CREATED"}
        BY <2>2, <2>7, ExpectedOpen
      <3>2. pkg[k].status \in ShipmentTargets
        BY <1>a, <2>6, <3>1 DEF ParcelFits, PackageRow, ShipmentTargets
      <3>3. OnTheRoad(pkg', o) = OnTheRoad(pkg, o)
        BY <2>1, <2>3, <2>4, <3>2 DEF OnTheRoad, Parcels
      <3>4. UNCHANGED res
        BY <1>4, <2>7 DEF transitionShipment
      <3>5. FulfilledIsShipped'
        BY <1>a, <1>b, <2>2, <2>4, <2>5, <3>3, <3>4
      <3> QED BY <2>2, <3>5 DEF ContentFits
    <2>8. CASE t = "SHIPPED"
      <3> DEFINE rows == [l \in Lines |-> IF l \in PackedLines(k)
                            THEN FulfilledRow(res[o][l], content[k][l]) ELSE res[o][l]]
      <3>1. pkg[k].shipment = "CREATED"
        BY <2>2, <2>8 DEF expected
      <3>2. pkg[k].status = "READY_TO_SHIP"
        BY <2>6, <3>1 DEF ParcelFits
      <3>3. /\ OnTheRoad(pkg', o) = OnTheRoad(pkg, o) \cup {k} /\ k \notin OnTheRoad(pkg, o)
            /\ OnTheRoad(pkg, o) \in SUBSET Packages
        BY <2>1, <2>3, <2>4, <3>2 DEF OnTheRoad, Parcels, ShipmentTargets, ShipmentStatus
      <3>4. \A l \in Lines : Packed(OnTheRoad(pkg', o), content', l) =
                             Packed(OnTheRoad(pkg, o), content, l) + content[k][l]
        <4> SUFFICES ASSUME NEW l \in Lines
                     PROVE  Packed(OnTheRoad(pkg', o), content', l) =
                              Packed(OnTheRoad(pkg, o), content, l) + content[k][l]
          OBVIOUS
        <4>1. OneMore(OnTheRoad(pkg, o), k, content, content, l)
          BY <3>3 DEF OneMore, ContentFits
        <4>2. Packed(OnTheRoad(pkg, o) \cup {k}, content, l) =
                Packed(OnTheRoad(pkg, o), content, l) + content[k][l]
          BY <4>1, PackedMore
        <4> QED BY <2>2, <3>3, <4>2
      <3>5. res' = [res EXCEPT ![o] = rows]
        BY <1>4, <2>1, <2>8 DEF transitionShipment, FulfillPackage
      <3>6. /\ \A l \in Lines : res'[o][l] = rows[l]
            /\ \A x \in Orders \ {o} : res'[x] = res[x]
        BY <3>5 DEF RowsTyped
      <3>7. \A l \in Lines : /\ rows[l].qty = res[o][l].qty
                             /\ rows[l].fulfilled = res[o][l].fulfilled + content[k][l]
        <4> SUFFICES ASSUME NEW l \in Lines
                     PROVE  /\ rows[l].qty = res[o][l].qty
                            /\ rows[l].fulfilled = res[o][l].fulfilled + content[k][l]
          OBVIOUS
        <4>1. content[k][l] \in 0 .. MaxQuantity /\ res[o][l].fulfilled \in Nat
          BY <1>a DEF ContentFits, Quantity, ReservationRow
        <4>2. CASE l \in PackedLines(k)
          BY <1>a, <4>2 DEF FulfilledRow, ReservationRow
        <4>3. CASE l \notin PackedLines(k)
          BY <1>a, <4>1, <4>3 DEF PackedLines
        <4> QED BY <4>2, <4>3
      <3> HIDE DEF rows
      <3>8. FulfilledIsShipped'
        <4> SUFFICES ASSUME NEW x \in Orders, NEW l \in Lines
                     PROVE  /\ res'[x][l].qty - Packed(Parcels(pkg', x), content', l) >= 0
                            /\ res'[x][l].fulfilled = Packed(OnTheRoad(pkg', x), content', l)
          BY <1>b
        <4>1. CASE x = o
          BY <1>a, <2>2, <2>4, <3>4, <3>6, <3>7, <4>1
        <4>2. CASE x # o
          BY <1>a, <2>2, <2>4, <2>5, <3>6, <4>2
        <4> QED BY <4>1, <4>2
      <3> QED BY <2>2, <3>8 DEF ContentFits
    <2> QED BY <2>7, <2>8
  <1>5. ASSUME NEW k \in Packages, NEW o \in Orders, shipExistingPackage(o, k)
        PROVE  ContentFits' /\ FulfilledIsShipped'
    <2>1. pkg' = [pkg EXCEPT ![k].shipment = "CREATED"] /\ UNCHANGED <<content, res>>
      BY <1>5 DEF shipExistingPackage
    <2>2. \A j \in Packages : pkg'[j].order = pkg[j].order /\ pkg'[j].status = pkg[j].status
      BY <1>a, <2>1 DEF RowsTyped, PackageRow
    <2>3. \A x \in Orders : Parcels(pkg', x) = Parcels(pkg, x) /\ OnTheRoad(pkg', x) = OnTheRoad(pkg, x)
      BY <2>2 DEF Parcels, OnTheRoad
    <2>4. FulfilledIsShipped'
      BY <1>a, <1>b, <2>1, <2>3
    <2> QED BY <2>1, <2>4 DEF ContentFits
  <1>6. ASSUME NEW k \in Packages, NEW o \in Orders, NEW c \in [Lines -> Int],
               NEW shipment \in {"NONE", "CREATED"}, InsertPackage(o, k, c, shipment),
               \A l \in Lines : 0 <= c[l] /\ (c[l] > 0 => c[l] <= Remaining(o, l))
        PROVE  ContentFits' /\ FulfilledIsShipped'
    <2>1. /\ pkg[k].status = "NONE" /\ UNCHANGED res
          /\ pkg' = [pkg EXCEPT ![k] =
               [order |-> o, status |-> "READY_TO_SHIP", shipment |-> shipment]]
          /\ content' = [content EXCEPT ![k] = c]
      BY <1>6 DEF InsertPackage
    <2>2. /\ pkg'[k].order = o /\ pkg'[k].status = "READY_TO_SHIP" /\ pkg[k].order \notin Orders
          /\ \A j \in Packages \ {k} : pkg'[j] = pkg[j] /\ content'[j] = content[j]
          /\ content'[k] = c
      BY <2>1, NullAssumption DEF RowsTyped
    <2>3. ContentFits'
      <3>1. \A l \in Lines : c[l] \in Quantity
        BY <1>6, <1>a DEF Quantity
      <3> QED BY <2>2, <3>1 DEF ContentFits
    <2>4. /\ Parcels(pkg', o) = Parcels(pkg, o) \cup {k} /\ k \notin Parcels(pkg, o)
          /\ \A x \in Orders \ {o} : Parcels(pkg', x) = Parcels(pkg, x) /\ k \notin Parcels(pkg, x)
          /\ \A x \in Orders : /\ OnTheRoad(pkg', x) = OnTheRoad(pkg, x) /\ k \notin OnTheRoad(pkg, x)
                               /\ Parcels(pkg, x) \in SUBSET Packages
                               /\ OnTheRoad(pkg, x) \in SUBSET Packages
      BY <2>2 DEF Parcels, OnTheRoad, ShipmentTargets, ShipmentStatus
    <2>5. \A l \in Lines : Packed(Parcels(pkg', o), content', l) =
                           Packed(Parcels(pkg, o), content, l) + c[l]
      <3> SUFFICES ASSUME NEW l \in Lines
                   PROVE  Packed(Parcels(pkg', o), content', l) =
                            Packed(Parcels(pkg, o), content, l) + c[l]
        OBVIOUS
      <3>1. OneMore(Parcels(pkg, o), k, content, content', l)
        BY <2>2, <2>3, <2>4 DEF OneMore, ContentFits
      <3>2. Packed(Parcels(pkg, o) \cup {k}, content', l) =
              Packed(Parcels(pkg, o), content, l) + content'[k][l]
        BY <3>1, PackedMore
      <3> QED BY <2>2, <2>4, <3>2
    <2>6. /\ \A x \in Orders \ {o}, l \in Lines :
               Packed(Parcels(pkg', x), content', l) = Packed(Parcels(pkg, x), content, l)
          /\ \A x \in Orders, l \in Lines :
               Packed(OnTheRoad(pkg', x), content', l) = Packed(OnTheRoad(pkg, x), content, l)
      <3>1. \A ks \in SUBSET Packages, l \in Lines :
              k \notin ks => Packed(ks, content', l) = Packed(ks, content, l)
        BY <2>2, PackedSame
      <3> QED BY <2>4, <3>1
    <2>7. FulfilledIsShipped'
      <3> SUFFICES ASSUME NEW x \in Orders, NEW l \in Lines
                   PROVE  /\ res'[x][l].qty - Packed(Parcels(pkg', x), content', l) >= 0
                          /\ res'[x][l].fulfilled = Packed(OnTheRoad(pkg', x), content', l)
        BY <1>b
      <3>1. CASE x = o
        <4>1. c[l] \in Int /\ 0 <= c[l] /\ (c[l] > 0 => c[l] <= Remaining(o, l))
          BY <1>6
        <4>2. /\ Packed(Parcels(pkg', x), content', l) = Packed(Parcels(pkg, o), content, l) + c[l]
              /\ Packed(OnTheRoad(pkg', x), content', l) = Packed(OnTheRoad(pkg, o), content, l)
              /\ res'[x] = res[o]
          BY <2>1, <2>5, <2>6, <3>1
        <4>3. /\ Remaining(o, l) = res[o][l].qty - Packed(Parcels(pkg, o), content, l)
              /\ res[o][l].qty - Packed(Parcels(pkg, o), content, l) >= 0
              /\ res[o][l].fulfilled = Packed(OnTheRoad(pkg, o), content, l)
              /\ res[o][l].qty \in Int /\ Packed(Parcels(pkg, o), content, l) \in Int
          BY <1>a
        <4>4. res[o][l].qty - (Packed(Parcels(pkg, o), content, l) + c[l]) >= 0
          BY <4>1, <4>3
        <4> QED BY <4>2, <4>3, <4>4
      <3>2. CASE x # o
        BY <1>a, <2>1, <2>6, <3>2
      <3> QED BY <3>1, <3>2
    <2> QED BY <2>3, <2>7
  <1>7. ASSUME NEW P \in SUBSET Products, NEW S \in SUBSET Orders, NEW late,
               resetShopData(P, S, late)
        PROVE  ContentFits' /\ FulfilledIsShipped'
    <2>1. /\ \A o \in Orders, l \in Lines : res'[o][l].qty = 0 /\ res'[o][l].fulfilled = 0
          /\ \A k \in Packages, l \in Lines : content'[k][l] = 0
          /\ \A k \in Packages : pkg'[k].order \notin Orders
      BY <1>7, NullAssumption DEF resetShopData, AbsentReservation, AbsentPackage
    <2>2. ContentFits'
      BY <2>1, QuantityAssumption DEF ContentFits, Quantity
    <2>3. \A o \in Orders : Parcels(pkg', o) = {} /\ OnTheRoad(pkg', o) = {}
      BY <2>1 DEF Parcels, OnTheRoad
    <2>4. \A o \in Orders, l \in Lines : /\ Packed(Parcels(pkg', o), content', l) = 0
                                        /\ Packed(OnTheRoad(pkg', o), content', l) = 0
      BY <2>3, PackedNothing
    <2> QED BY <1>b, <2>1, <2>2, <2>4
  <1>8. CASE StockNext
    BY <1>0, <1>7, <1>8
    DEF StockNext, createControlWarehouse, updateControlWarehouse, updateProduct, Archive,
        updateWarehouseInventory, createProduct, unchangedOrders, parcelVars
  <1>9. CASE Tick \/ UNCHANGED vars
    BY <1>0, <1>9 DEF Tick, vars, parcelVars
  <1> QED BY <1>1, <1>2, <1>3, <1>4, <1>5, <1>6, <1>8, <1>9 DEF StepKinds, PackageStep

LEMMA InitShipped == Init => ContentFits /\ FulfilledIsShipped
  <1> SUFFICES ASSUME Init PROVE ContentFits /\ FulfilledIsShipped
    OBVIOUS
  <1>1. /\ \A o \in Orders, l \in Lines : res[o][l].qty = 0 /\ res[o][l].fulfilled = 0
        /\ \A k \in Packages, l \in Lines : content[k][l] = 0
        /\ \A k \in Packages : pkg[k].order \notin Orders
    BY NullAssumption DEF Init, AbsentReservation, AbsentPackage
  <1>2. \A o \in Orders : Parcels(pkg, o) = {} /\ OnTheRoad(pkg, o) = {}
    BY <1>1 DEF Parcels, OnTheRoad
  <1>3. \A o \in Orders, l \in Lines : /\ Packed(Parcels(pkg, o), content, l) = 0
                                      /\ Packed(OnTheRoad(pkg, o), content, l) = 0
    BY <1>2, PackedNothing
  <1>4. ContentFits
    BY <1>1, QuantityAssumption DEF ContentFits, Quantity
  <1>5. \A o \in Orders, l \in Lines :
          /\ res[o][l].qty - Packed(Parcels(pkg, o), content, l) >= 0
          /\ res[o][l].fulfilled = Packed(OnTheRoad(pkg, o), content, l)
    BY <1>1, <1>3
  <1> QED BY <1>4, <1>5 DEF FulfilledIsShipped, Remaining, Packed, Parcels, OnTheRoad

LEMMA ShippedHolds == Spec => [](ContentFits /\ FulfilledIsShipped)
  <1>1. /\ RowsTyped /\ ParcelsFollowOrder /\ ContentFits /\ FulfilledIsShipped /\ [Next]_vars
        => ContentFits' /\ FulfilledIsShipped'
    BY NextKinds, ShippedStep
  <1> QED BY <1>1, InitShipped, RowsAreTyped, ParcelsFollowOrders, PTL DEF Spec

(* The packages of an order never hold more of a line than was ordered, and its
   reservation counts as fulfilled exactly what left in packages, for any number
   of packages, partial shipments and lines. *)
THEOREM ShippedIsFulfilled == Spec => []FulfilledIsShipped
  BY ShippedHolds, PTL

-----------------------------------------------------------------------------
(* The ranges of the columns *)

(* A reservation is of something, and a package holds something. *)
RowsFilled ==
  /\ \A o \in Orders, l \in Lines : res[o][l].status # "NONE" => res[o][l].qty > 0
  /\ \A k \in Packages : pkg[k].status # "NONE" => Filled(content[k])

LEMMA FilledStep ==
  ASSUME RowsTyped, RowsFilled, StepKinds
  PROVE  RowsFilled'
  <1> DEFINE Asks(rows) == \A l \in Lines : rows[l].status # "NONE" => rows[l].qty > 0
  <1>a. /\ \A o \in Orders : res[o] \in [Lines -> ReservationRow] /\ Asks(res[o])
        /\ \A k \in Packages : pkg[k] \in PackageRow
    BY DEF RowsTyped, RowsFilled
  <1>b. ASSUME NEW o \in Orders, NEW rows, res' = [res EXCEPT ![o] = rows], Asks(rows),
               UNCHANGED <<pkg, content>>
        PROVE  RowsFilled'
    BY <1>a, <1>b DEF RowsFilled, RowsTyped
  <1>1. ASSUME NEW o \in Orders, NEW want \in Requests, createSimulatedOrder(o, want)
        PROVE  RowsFilled'
    <2> DEFINE rows == [l \in Lines |->
                 IF l \in DOMAIN want THEN ReservedRow(want[l]) ELSE AbsentReservation]
    <2>1. res' = [res EXCEPT ![o] = rows] /\ UNCHANGED <<pkg, content>>
      BY <1>1 DEF createSimulatedOrder, Allocate, parcelVars
    <2>2. \A l \in DOMAIN want : want[l].qty \in LineQuantities
      BY DEF Requests
    <2>3. \A n \in LineQuantities : n \in Int /\ n > 0
      BY QuantityAssumption
    <2>4. Asks(rows)
      BY <2>2, <2>3 DEF ReservedRow, AbsentReservation
    <2> HIDE DEF rows, Asks
    <2> QED BY <1>b, <2>1, <2>4
  <1>2. ASSUME NEW o \in Orders, NEW target \in RequestedTargets, Transition(o, target)
        PROVE  RowsFilled'
    <2>1. UNCHANGED <<pkg, content>>
      BY <1>2 DEF Transition, parcelVars
    <2>2. CASE UNCHANGED res
      BY <2>1, <2>2 DEF RowsFilled
    <2>3. CASE Commit(o)
      <3> DEFINE rows == [l \in Lines |-> CommittedRow(res[o][l])]
      <3>1. Asks(rows)
        BY <1>a DEF CommittedRow, ReservationRow
      <3>2. res' = [res EXCEPT ![o] = rows]
        BY <2>3 DEF Commit
      <3> HIDE DEF rows, Asks
      <3> QED BY <1>b, <2>1, <3>1, <3>2
    <2> QED BY <1>2, <2>2, <2>3 DEF Transition
  <1>3. ASSUME NEW o \in Orders, NEW actor \in Actors, NEW reason \in Reasons,
               NEW payment \in PaymentStatus, CancelStep(o, actor, reason, payment)
        PROVE  RowsFilled'
    <2> DEFINE rows == [l \in Lines |-> ReleasedRow(res[o][l])]
    <2>1. res' = [res EXCEPT ![o] = rows] /\ UNCHANGED <<pkg, content>>
      BY <1>3 DEF CancelStep, Cancellation, Release, parcelVars
    <2>2. Asks(rows)
      BY <1>a DEF ReleasedRow, Holding, ReservationRow
    <2> HIDE DEF rows, Asks
    <2> QED BY <1>b, <2>1, <2>2
  <1>4. ASSUME NEW k \in Packages, NEW o \in Orders, PackageStep(o, k)
        PROVE  RowsFilled'
    <2>1. CASE shipExistingPackage(o, k)
      <3>1. /\ pkg[k].status # "NONE" /\ UNCHANGED <<res, content>>
            /\ pkg' = [pkg EXCEPT ![k].shipment = "CREATED"]
        BY <2>1 DEF shipExistingPackage
      <3> QED BY <3>1 DEF RowsFilled, RowsTyped, Filled
    <2>2. ASSUME NEW c \in [Lines -> Int], NEW shipment, InsertPackage(o, k, c, shipment)
          PROVE  RowsFilled'
      <3>1. /\ Filled(c) /\ UNCHANGED res
            /\ content' = [content EXCEPT ![k] = c]
            /\ \A j \in Packages \ {k} : pkg'[j] = pkg[j]
        BY <2>2 DEF InsertPackage, RowsTyped
      <3>2. content'[k] = c /\ \A j \in Packages \ {k} : content'[j] = content[j]
        BY <3>1 DEF RowsTyped
      <3> QED BY <3>1, <3>2 DEF RowsFilled, Filled
    <2> QED BY <1>4, <2>1, <2>2 DEF PackageStep
  <1>5. ASSUME NEW k \in Packages, NEW t \in ShipmentTargets, transitionShipment(k, t)
        PROVE  RowsFilled'
    <2>1. /\ pkg[k].shipment = expected[t]
          /\ pkg' = [pkg EXCEPT ![k] = [pkg[k] EXCEPT !.status = t, !.shipment = t]]
          /\ UNCHANGED content
          /\ FulfillPackage(k) \/ UNCHANGED res
      BY <1>5 DEF transitionShipment
    <2>2. pkg[k].shipment # "NONE"
      BY <2>1 DEF expected, ShipmentTargets, ShipmentStatus
    <2>3. pkg[k].order \in Orders /\ pkg[k].status # "NONE"
      BY <2>2, ShipmentHasOrder
    <2>4. \A j \in Packages : pkg'[j].status # "NONE" => Filled(content'[j])
      BY <2>1, <2>3 DEF RowsFilled, RowsTyped, Filled
    <2> DEFINE o == pkg[k].order
               rows == [l \in Lines |->
                 IF l \in PackedLines(k) THEN FulfilledRow(res[o][l], content[k][l]) ELSE res[o][l]]
    <2>5. ASSUME FulfillPackage(k)
          PROVE  Asks(rows) /\ res' = [res EXCEPT ![o] = rows]
      <3>1. \A l \in PackedLines(k) : l \in Lines /\ res[o][l].status \in Holding
        BY <2>5 DEF FulfillPackage, PackedLines
      <3>2. \A l \in Lines : res[o][l] \in ReservationRow
        BY <1>a, <2>3
      <3>3. \A l \in PackedLines(k) : res[o][l].qty > 0
        BY <1>a, <2>3, <3>1 DEF Holding
      <3>4. \A l \in PackedLines(k) :
              FulfilledRow(res[o][l], content[k][l]).qty = res[o][l].qty
        BY <3>1, <3>2 DEF FulfilledRow, ReservationRow
      <3>5. Asks(rows)
        BY <1>a, <2>3, <3>3, <3>4
      <3> QED BY <2>5, <3>5 DEF FulfillPackage
    <2>6. o \in Orders
      BY <2>3
    <2> HIDE DEF rows, o
    <2>7. UNCHANGED res \/ (Asks(rows) /\ res' = [res EXCEPT ![o] = rows])
      BY <2>1, <2>5
    <2>8. \A x \in Orders : res'[x] = res[x] \/ (Asks(rows) /\ res'[x] = rows)
      BY <2>6, <2>7 DEF RowsTyped
    <2>9. \A x \in Orders : Asks(res'[x])
      BY <1>a, <2>8
    <2> QED BY <2>4, <2>9 DEF RowsFilled, Filled
  <1>6. CASE StockNext
    <2>1. ASSUME NEW P \in SUBSET Products, NEW S \in SUBSET Orders, NEW late,
                 resetShopData(P, S, late)
          PROVE  RowsFilled'
      <3>1. AbsentReservation.status = "NONE" /\ AbsentPackage.status = "NONE"
        BY DEF AbsentReservation, AbsentPackage
      <3> QED BY <2>1, <3>1 DEF resetShopData, RowsFilled
    <2>2. ASSUME UNCHANGED <<res, pkg, content>>
          PROVE  RowsFilled'
      BY <2>2 DEF RowsFilled, Filled
    <2> QED
      BY <1>6, <2>1, <2>2
      DEF StockNext, createControlWarehouse, updateControlWarehouse, updateProduct, Archive,
          updateWarehouseInventory, createProduct, unchangedOrders, parcelVars
  <1>7. CASE Tick \/ UNCHANGED vars
    BY <1>7 DEF Tick, vars, parcelVars, RowsFilled, Filled
  <1> QED BY <1>1, <1>2, <1>3, <1>4, <1>5, <1>6, <1>7 DEF StepKinds

LEMMA InitFilled == Init => RowsFilled
  BY DEF Init, RowsFilled, AbsentReservation, AbsentPackage

LEMMA RangesKept ==
  ASSUME RowsTyped, RowsFilled, NoOversell, StockLedger, ReservationFollowsOrder, ContentFits
  PROVE  TypeOK
  <1>1. \A p \in Products : product[p].stock >= 0
    <2> SUFFICES ASSUME NEW p \in Products PROVE product[p].stock >= 0
      OBVIOUS
    <2> DEFINE available == [w \in Warehouses |-> onHand[w][p] - reserved[w][p]]
    <2>1. Total(available) \in Nat
      BY TotalType, FiniteAssumption
    <2>2. product[p].stock = Total(available)
      BY DEF StockLedger
    <2> QED BY <2>1, <2>2
  <1>2. \A w \in Warehouses, p \in Products : onHand[w][p] >= 0 /\ reserved[w][p] >= 0
    BY DEF NoOversell, RowsTyped
  <1>3. \A o \in Orders, l \in Lines : res[o][l].fulfilled <= res[o][l].qty
    BY DEF ReservationFollowsOrder, ReservationFits
  <1>4. \A k \in Packages, l \in Lines : content[k][l] >= 0
    BY QuantityAssumption DEF ContentFits, Quantity
  <1> QED BY <1>1, <1>2, <1>3, <1>4 DEF TypeOK, RowsFilled, Filled

(* Every committed transaction leaves rows whose columns keep to the ranges the schema
   declares, whatever the sets of identifiers, the quantities and the durations: no CHECK
   and no trigger of the tables is what keeps the handlers right. *)
THEOREM TypeCorrect == Spec => []TypeOK
  <1>1. RowsTyped /\ RowsFilled /\ [Next]_vars => RowsFilled'
    BY NextKinds, FilledStep
  <1>2. /\ RowsTyped /\ RowsFilled /\ NoOversell /\ StockLedger /\ ReservationFollowsOrder
        /\ ContentFits
        => TypeOK
    BY RangesKept
  <1> QED
    BY <1>1, <1>2, InitFilled, RowsAreTyped, NeverOversold, StockLedgerExact,
       ReservationsFollowOrders, ShippedHolds, PTL DEF Spec

-----------------------------------------------------------------------------
(* The stock pool *)

LEMMA Stages ==
  /\ StageOf("NONE") = "none" /\ StageOf("CANCELLED") = "returned"
  /\ \A s \in {"UNPAID"} \cup AwaitingShipment : StageOf(s) = "promised"
  /\ \A s \in Moving : StageOf(s) = "shipped"
  BY DEF StageOf, Moving, AwaitingShipment

(* What an order holds, for the abstract pool and for the books. *)
LEMMA PromisedIsHeld ==
  /\ \A o \in Orders, p \in Products : PoolPromised[o][p] = HeldBy(res[o], p)
  /\ \A o \in Orders, p \in Products : PoolPromised'[o][p] = HeldBy(res'[o], p)
  BY DEF PoolPromised, Held, HeldBy, HeldLines, LinesHeld

(* The pool deals in numbers: nothing is promised or sold below zero. *)
PoolFits ==
  /\ \A o \in Orders : SoundRows(res[o])
  /\ PoolPromised \in [Orders -> [Products -> Nat]]
  /\ PoolSellable \in [Products -> Nat]

LEMMA PoolNumbers ==
  RowsTyped /\ NoOversell /\ OnHandFits /\ StockLedger /\ ReservationFollowsOrder => PoolFits
  <1> SUFFICES ASSUME RowsTyped, NoOversell, OnHandFits, StockLedger, ReservationFollowsOrder
      PROVE  PoolFits
    OBVIOUS
  <1>1. \A o \in Orders : SoundRows(res[o])
    BY DEF SoundRows, RowsTyped, ReservationFollowsOrder, ReservationFits
  <1>2. \A o \in Orders, p \in Products : Held(o, p) \in Nat
    BY HeldType
  <1>3. ASSUME NEW p \in Products
        PROVE  product[p].stock \in Nat
    <2>1. Sound(onHand, reserved)
      BY DEF Sound, RowsTyped, NoOversell, OnHandFits
    <2>2. product[p].stock = Total(Sellable(onHand, reserved, p))
      BY DEF StockLedger, Sellable
    <2>3. Sellable(onHand, reserved, p) \in Amounts(Warehouses)
      BY <2>1, SellableAmounts
    <2> QED BY <2>2, <2>3, UnitsFinite, FiniteAssumption
  <1>4. PoolPromised \in [Orders -> [Products -> Nat]]
    BY <1>2 DEF PoolPromised
  <1>5. PoolSellable \in [Products -> Nat]
    BY <1>3 DEF PoolSellable
  <1> QED BY <1>1, <1>4, <1>5 DEF PoolFits

LEMMA PoolInit == Init => Pool!Init
  <1> SUFFICES ASSUME Init PROVE Pool!Init
    OBVIOUS
  <1>1. \A o \in Orders : order[o].status = "NONE"
    BY DEF Init, AbsentOrder
  <1>2. PoolStage = [o \in Orders |-> "none"]
    BY <1>1, Stages DEF PoolStage
  <1>3. PoolSellable = [p \in Products |-> 0]
    BY DEF Init, PoolSellable, AbsentProduct
  <1>4. \A o \in Orders, p \in Products : HeldBy(res[o], p) = 0
    <2>1. \A o \in Orders, p \in Products : LinesHeld(res[o], p) = {}
      BY DEF Init, AbsentReservation, LinesHeld, Holding
    <2> QED BY <2>1, NothingHeld
  <1>5. PoolPromised = [o \in Orders |-> [p \in Products |-> 0]]
    <2>1. PoolPromised = [o \in Orders |-> [p \in Products |-> HeldBy(res[o], p)]]
      BY DEF PoolPromised, Held, HeldBy, HeldLines, LinesHeld
    <2> QED BY <1>4, <2>1
  <1> QED BY <1>2, <1>3, <1>5 DEF Pool!Init, Pool!Nothing

PoolSame == UNCHANGED <<PoolStage, PoolSellable, PoolPromised>>

(* A step of one order, which leaves the rows of the others. *)
OneOrderWritten(o, row) ==
  /\ order' = [order EXCEPT ![o] = row]
  /\ \A x \in Orders \ {o} : res'[x] = res[x]

LEMMA OneOrderMoves ==
  ASSUME RowsTyped, PoolFits', NEW o \in Orders, NEW row, OneOrderWritten(o, row)
  PROVE  /\ PoolStage[o] = StageOf(order[o].status)
         /\ PoolStage' = [PoolStage EXCEPT ![o] = StageOf(row.status)]
         /\ Pool!OnlyPromisesOf(o)
  <1> USE DEF OneOrderWritten
  <1>1. \A x \in Orders : order'[x] = IF x = o THEN row ELSE order[x]
    BY DEF RowsTyped
  <1>2. PoolStage' = [PoolStage EXCEPT ![o] = StageOf(row.status)] /\ PoolStage[o] = StageOf(order[o].status)
    <2>1. PoolStage' = [x \in Orders |-> IF x = o THEN StageOf(row.status) ELSE StageOf(order[x].status)]
      <3>1. PoolStage' = [x \in Orders |-> StageOf(order'[x].status)]
        BY DEF PoolStage, StageOf
      <3> QED BY <1>1, <3>1
    <2> QED BY <2>1 DEF PoolStage
  <1>3. PoolPromised' \in [Orders -> [Products -> Nat]]
    BY DEF PoolFits
  <1>4. \A x \in Orders \ {o} : PoolPromised'[x] = PoolPromised[x]
    BY DEF PoolPromised, Held, HeldLines
  <1> QED BY <1>2, <1>3, <1>4 DEF Pool!OnlyPromisesOf, Pool!Promises

(* Steps in which no order changes its stage and none what it holds. *)
LEMMA PromisesStay ==
  ASSUME \A o \in Orders : StageOf(order'[o].status) = StageOf(order[o].status),
         \A o \in Orders, p \in Products : HeldBy(res'[o], p) = HeldBy(res[o], p)
  PROVE  PoolStage' = PoolStage /\ PoolPromised' = PoolPromised
  <1>1. PoolPromised = [o \in Orders |-> [p \in Products |-> HeldBy(res[o], p)]]
    BY DEF PoolPromised, Held, HeldBy, HeldLines, LinesHeld
  <1>2. PoolPromised' = [o \in Orders |-> [p \in Products |-> HeldBy(res'[o], p)]]
    BY DEF PoolPromised, Held, HeldBy, HeldLines, LinesHeld
  <1>3. PoolPromised' = PoolPromised
    BY <1>1, <1>2
  <1>4. PoolStage' = PoolStage
    BY DEF PoolStage
  <1> QED BY <1>3, <1>4

(* The stock column alone changes, of one product. *)
LEMMA OneProductRestocked ==
  ASSUME RowsTyped, PoolFits', UNCHANGED <<order, res>>, NEW p \in Products, NEW row,
         product' = [product EXCEPT ![p] = row]
  PROVE  Pool!Restock(p)
  <1>1. PoolStage' = PoolStage /\ PoolPromised' = PoolPromised
    BY PromisesStay
  <1>2. PoolSellable' \in [Products -> Nat]
    BY DEF PoolFits
  <1>3. \A q \in Products \ {p} : PoolSellable'[q] = PoolSellable[q]
    BY DEF PoolSellable, RowsTyped
  <1> QED BY <1>1, <1>2, <1>3 DEF Pool!Restock

(* A shipment that asks its order to move from the status it expects does move it. *)
LEMMA OrderLeaves ==
  ASSUME RowsTyped, NEW k \in Packages, transitionShipment(k, "SHIPPED"), AsksOrder(k, "SHIPPED"),
         order' = order, pkg[k].order \in Orders
  PROVE  order[pkg[k].order].status # "READY_TO_SHIP"
  <1> DEFINE o == pkg[k].order
  <1> SUFFICES ASSUME order[o].status = "READY_TO_SHIP" PROVE FALSE
    OBVIOUS
  <1>1. expectedOrder["SHIPPED"] = "READY_TO_SHIP" /\ orderTarget["SHIPPED"] = "SHIPPED"
    BY DEF expectedOrder, orderTarget
  <1>2. order' = [order EXCEPT ![o] = AdvancedRow(order[o], "SHIPPED")]
    BY <1>1 DEF transitionShipment, Advance
  <1>3. order[o] \in OrderRow
    BY DEF RowsTyped
  <1>4. AdvancedRow(order[o], "SHIPPED").status = "SHIPPED"
    BY <1>3 DEF AdvancedRow, OrderRow
  <1>5. order'[o].status = "SHIPPED"
    BY <1>2, <1>4 DEF RowsTyped
  <1> QED BY <1>5

LEMMA PoolStep ==
  ASSUME RowsTyped, PoolFits, PoolFits', StepKinds
  PROVE  Pool!Next \/ PoolSame
  <1>a. /\ \A x \in Orders : SoundRows(res[x]) /\ order[x] \in OrderRow
        /\ \A p \in Products : product[p] \in ProductRow
        /\ PoolPromised \in [Orders -> [Products -> Nat]]
        /\ PoolSellable \in [Products -> Nat]
    BY DEF PoolFits, RowsTyped
  <1>0. ASSUME UNCHANGED <<order, res>>, \A p \in Products : product'[p].stock = product[p].stock
        PROVE  PoolSame
    <2>1. PoolSellable' = PoolSellable
      BY <1>0 DEF PoolSellable
    <2> QED BY <1>0, <2>1, PromisesStay DEF PoolSame
  <1>1. ASSUME NEW o \in Orders, NEW want \in Requests, createSimulatedOrder(o, want)
        PROVE  Pool!Next
    <2> DEFINE need == aggregateRequiredQuantity(want)
               rows == [l \in Lines |-> IF l \in DOMAIN want THEN ReservedRow(want[l])
                                        ELSE AbsentReservation]
    <2>1. PICK v \in Warehouses : Allocate(o, want, v) /\ order' = [order EXCEPT ![o] = NewOrder(v)]
      BY <1>1 DEF createSimulatedOrder
    <2>2. /\ res' = [res EXCEPT ![o] = rows]
          /\ product' = [p \in Products |-> [product[p] EXCEPT !.stock = product[p].stock - need[p]]]
          /\ \A p \in Products : need[p] > 0 => product[p].stock >= need[p]
          /\ NewOrder(v).status = "UNPAID" /\ order[o].status = "NONE"
      BY <1>1, <2>1 DEF Allocate, NewOrder, AbsentOrder, createSimulatedOrder
    <2>3. res'[o] = rows /\ \A x \in Orders \ {o} : res'[x] = res[x]
      BY <2>2 DEF RowsTyped
    <2>4. \A p \in Products : PoolPromised'[o][p] = need[p] /\ need[p] \in Nat
      BY <2>3, NeedType, RequestHeld, PromisedIsHeld
    <2> HIDE DEF need, rows
    <2>5. /\ PoolStage[o] = "none" /\ PoolStage' = [PoolStage EXCEPT ![o] = "promised"]
          /\ Pool!OnlyPromisesOf(o)
      <3> DEFINE row == NewOrder(v)
      <3>1. order' = [order EXCEPT ![o] = row] /\ StageOf(row.status) = "promised"
        BY <2>1, <2>2, Stages
      <3> HIDE DEF row
      <3>2. OneOrderWritten(o, row)
        BY <2>3, <3>1 DEF OneOrderWritten
      <3>3. /\ PoolStage[o] = StageOf(order[o].status)
            /\ PoolStage' = [PoolStage EXCEPT ![o] = StageOf(row.status)]
            /\ Pool!OnlyPromisesOf(o)
        BY <3>2, OneOrderMoves
      <3> QED BY <2>2, <3>1, <3>3, Stages
    <2>6. \A p \in Products : /\ PoolSellable[p] = product[p].stock
                              /\ product'[p].stock = product[p].stock - need[p]
      BY <1>a, <2>2 DEF PoolSellable, ProductRow
    <2>7. PoolSellable' = [p \in Products |-> PoolSellable[p] - PoolPromised'[o][p]]
      <3>1. PoolSellable' = [p \in Products |-> product'[p].stock]
        BY DEF PoolSellable
      <3> QED BY <2>4, <2>6, <3>1
    <2>8. \A p \in Products : PoolPromised'[o][p] <= PoolSellable[p]
      <3>1. \A p \in Products : PoolSellable[p] \in Nat
        BY <1>a
      <3> QED BY <2>2, <2>4, <2>6, <3>1
    <2>9. Pool!Promise(o)
      BY <2>5, <2>7, <2>8 DEF Pool!Promise
    <2> QED BY <2>9 DEF Pool!Next
  <1>2. ASSUME NEW o \in Orders, NEW target \in RequestedTargets, Transition(o, target)
        PROVE  PoolSame
    <2>1. /\ order' = [order EXCEPT ![o] = AdvancedRow(order[o], target)]
          /\ UNCHANGED product /\ CanTransition(order[o].status, target)
          /\ AdvancedRow(order[o], target).status = target
      BY <1>2, <1>a DEF Transition, Advance, stockVars, AdvancedRow, OrderRow
    <2>2. \/ res' = res
          \/ res' = [res EXCEPT ![o] = [l \in Lines |-> CommittedRow(res[o][l])]]
      BY <1>2 DEF Transition, Commit
    <2>3. \A x \in Orders, p \in Products : HeldBy(res'[x], p) = HeldBy(res[x], p)
      <3>1. CASE res' = res
        BY <3>1
      <3>2. CASE res' = [res EXCEPT ![o] = [l \in Lines |-> CommittedRow(res[o][l])]]
        <4>1. /\ res'[o] = [l \in Lines |-> CommittedRow(res[o][l])] /\ res[o] \in [Lines -> ReservationRow]
              /\ \A x \in Orders \ {o} : res'[x] = res[x]
          BY <3>2 DEF RowsTyped
        <4>2. \A p \in Products : HeldBy(res'[o], p) = HeldBy(res[o], p)
          BY <4>1, CommittedHeld
        <4> QED BY <4>1, <4>2
      <3> QED BY <2>2, <3>1, <3>2
    <2>4. StageOf(target) = StageOf(order[o].status)
      BY <2>1 DEF StageOf, CanTransition, transitions, RequestedTargets, Moving
    <2>5. \A x \in Orders : StageOf(order'[x].status) = StageOf(order[x].status)
      <3>1. \A x \in Orders : order'[x] = IF x = o THEN AdvancedRow(order[o], target) ELSE order[x]
        BY <2>1 DEF RowsTyped
      <3> QED BY <2>1, <2>4, <3>1
    <2>6. PoolSellable' = PoolSellable
      BY <2>1 DEF PoolSellable
    <2> QED BY <2>3, <2>5, <2>6, PromisesStay DEF PoolSame
  <1>3. ASSUME NEW o \in Orders, NEW actor \in Actors, NEW reason \in Reasons,
               NEW payment \in PaymentStatus, CancelStep(o, actor, reason, payment)
        PROVE  Pool!Next
    <2> DEFINE row == CancelledRow(order[o], actor, reason, payment)
    <2>1. /\ order' = [order EXCEPT ![o] = row]
          /\ product' = [p \in Products |-> [product[p] EXCEPT !.stock = product[p].stock + Held(o, p)]]
          /\ res' = [res EXCEPT ![o] = [l \in Lines |-> ReleasedRow(res[o][l])]]
      BY <1>3 DEF CancelStep, Cancellation, MarkCancelled, Release
    <2>2. row.status = "CANCELLED"
      BY <1>a DEF CancelledRow, OrderRow
    <2>3. /\ res'[o] = [l \in Lines |-> ReleasedRow(res[o][l])] /\ res[o] \in [Lines -> ReservationRow]
          /\ \A x \in Orders \ {o} : res'[x] = res[x]
      BY <2>1 DEF RowsTyped
    <2>4. \A p \in Products : PoolPromised'[o][p] = 0
      BY <2>3, ReleasedHeld, PromisedIsHeld
    <2> HIDE DEF row
    <2>5. /\ PoolStage[o] = "promised" /\ PoolStage' = [PoolStage EXCEPT ![o] = "returned"]
          /\ Pool!OnlyPromisesOf(o)
      <3>1. StageOf(row.status) = "returned" /\ StageOf(order[o].status) = "promised"
        BY <1>3, <2>2, CancelledFrom, Stages
      <3>2. OneOrderWritten(o, row)
        BY <2>1, <2>3 DEF OneOrderWritten
      <3>3. /\ PoolStage[o] = StageOf(order[o].status)
            /\ PoolStage' = [PoolStage EXCEPT ![o] = StageOf(row.status)]
            /\ Pool!OnlyPromisesOf(o)
        BY <3>2, OneOrderMoves
      <3> QED BY <3>1, <3>3
    <2>6. PoolPromised' = [PoolPromised EXCEPT ![o] = [p \in Products |-> 0]]
      <3>1. /\ PoolPromised' \in [Orders -> [Products -> Nat]]
            /\ \A x \in Orders \ {o} : PoolPromised'[x] = PoolPromised[x]
        BY <2>5 DEF Pool!OnlyPromisesOf, Pool!Promises
      <3>2. PoolPromised'[o] = [p \in Products |-> 0]
        BY <2>4, <3>1
      <3> QED BY <1>a, <3>1, <3>2
    <2>7. \A p \in Products : /\ PoolSellable[p] = product[p].stock
                              /\ product'[p].stock = product[p].stock + Held(o, p)
                              /\ PoolPromised[o][p] = Held(o, p)
      BY <1>a, <2>1 DEF PoolSellable, PoolPromised, ProductRow
    <2>8. PoolSellable' = [p \in Products |-> PoolSellable[p] + PoolPromised[o][p]]
      <3>1. PoolSellable' = [p \in Products |-> product'[p].stock]
        BY DEF PoolSellable
      <3> QED BY <2>7, <3>1
    <2>9. Pool!Return(o)
      BY <2>5, <2>6, <2>8 DEF Pool!Return, Pool!Nothing
    <2> QED BY <2>9 DEF Pool!Next
  <1>4. ASSUME NEW k \in Packages, NEW t \in ShipmentTargets, transitionShipment(k, t)
        PROVE  Pool!Next \/ PoolSame
    <2>1. PICK o \in Orders : o = pkg[k].order
      BY <1>4, ShipmentStep
    <2> DEFINE s == order[o].status
               u == orderTarget[t]
               row == IF order' = order THEN order[o] ELSE AdvancedRow(order[o], u)
    <2>2. /\ UNCHANGED product
          /\ IF t = "SHIPPED" THEN FulfillPackage(k) ELSE UNCHANGED <<onHand, reserved, res>>
          /\ AsksOrder(k, t) /\ s # expectedOrder[t] => orderRank(s) > orderRank(u)
      BY <1>4, <2>1 DEF transitionShipment
    <2>3. /\ order' = [order EXCEPT ![o] = row]
          /\ \/ order' = order /\ row = order[o]
             \/ /\ s = expectedOrder[t] /\ CanTransition(s, u) /\ row.status = u
                /\ u \in {"SHIPPED", "IN_DELIVERY", "DELIVERED", "RETURNED"}
      <3>1. \/ order' = order
            \/ /\ s = expectedOrder[t] /\ CanTransition(s, u)
               /\ u \in {"SHIPPED", "IN_DELIVERY", "DELIVERED", "RETURNED"}
               /\ order' = [order EXCEPT ![o] = AdvancedRow(order[o], u)]
        BY <1>4, <2>1, ShipmentStep
      <3>2. AdvancedRow(order[o], u).status = u
        BY <1>a DEF AdvancedRow, OrderRow
      <3>3. CASE order' = order
        <4>1. row = order[o] /\ order = [order EXCEPT ![o] = order[o]]
          BY <3>3 DEF RowsTyped
        <4> QED BY <3>3, <4>1
      <3>4. CASE order' # order
        <4>1. row = AdvancedRow(order[o], u)
          BY <3>4
        <4> HIDE DEF row
        <4> QED BY <3>1, <3>2, <3>4, <4>1
      <3> QED BY <3>3, <3>4
    <2> HIDE DEF row
    <2>4. PoolSellable' = PoolSellable
      BY <2>2 DEF PoolSellable
    <2>5. CASE t # "SHIPPED"
      <3>1. res' = res
        BY <2>2, <2>5
      <3>2. StageOf(row.status) = StageOf(s)
        <4>1. CASE row = order[o]
          BY <4>1
        <4>2. CASE s = expectedOrder[t] /\ row.status = u /\ u \in {"SHIPPED", "IN_DELIVERY", "DELIVERED", "RETURNED"}
          <5>1. t \in {"IN_DELIVERY", "DELIVERED", "DELIVERY_FAILED", "RETURNING", "RETURNED"}
            BY <2>5 DEF ShipmentTargets, ShipmentStatus
          <5>2. s \in Moving
            <6>1. s = expectedOrder[t] /\ orderTarget[t] # ""
              BY <4>2
            <6>2. /\ expectedOrder["IN_DELIVERY"] = "SHIPPED"
                  /\ expectedOrder["DELIVERED"] = "IN_DELIVERY"
                  /\ expectedOrder["RETURNED"] = "IN_DELIVERY"
                  /\ orderTarget["DELIVERY_FAILED"] = "" /\ orderTarget["RETURNING"] = ""
              BY DEF expectedOrder, orderTarget
            <6> HIDE DEF s
            <6>3. s \in {"SHIPPED", "IN_DELIVERY"}
              BY <5>1, <6>1, <6>2
            <6> QED BY <6>3 DEF Moving
          <5>3. row.status \in Moving
            BY <4>2 DEF Moving
          <5> QED BY <4>2, <5>2, <5>3, Stages
        <4> QED BY <2>3, <4>1, <4>2
      <3>3. \A x \in Orders : StageOf(order'[x].status) = StageOf(order[x].status)
        <4>1. \A x \in Orders : order'[x] = IF x = o THEN row ELSE order[x]
          BY <2>3 DEF RowsTyped
        <4> QED BY <3>2, <4>1
      <3>4. \A x \in Orders, p \in Products : HeldBy(res'[x], p) = HeldBy(res[x], p)
        BY <3>1
      <3> QED BY <2>4, <3>3, <3>4, PromisesStay DEF PoolSame
    <2>6. CASE t = "SHIPPED"
      <3> DEFINE rows == [l \in Lines |-> IF l \in PackedLines(k)
                            THEN FulfilledRow(res[o][l], content[k][l]) ELSE res[o][l]]
      <3>1. /\ res' = [res EXCEPT ![o] = rows]
            /\ \A l \in PackedLines(k) : /\ res[o][l].status \in Holding
                                         /\ res[o][l].fulfilled + content[k][l] <= res[o][l].qty
        BY <2>1, <2>2, <2>6 DEF FulfillPackage
      <3>2. res'[o] = rows /\ \A x \in Orders \ {o} : res'[x] = res[x]
        BY <3>1 DEF RowsTyped
      <3>3. /\ \A l \in Lines : res'[o][l] = IF content[k][l] > 0
                                         THEN FulfilledRow(res[o][l], content[k][l]) ELSE res[o][l]
            /\ \A l \in Lines : content[k][l] > 0 => /\ res[o][l].status \in Holding
                                               /\ res[o][l].fulfilled + content[k][l] <= res[o][l].qty
        BY <3>1, <3>2 DEF PackedLines
      <3>4. content[k] \in [Lines -> Int]
        BY DEF RowsTyped
      <3> HIDE DEF rows
      <3>5. ASSUME NEW p \in Products
            PROVE  PoolPromised'[o][p] <= PoolPromised[o][p]
        <4> DEFINE out == Total([l \in {m \in {n \in Lines : content[k][n] > 0} : res[o][m].product = p}
                                   |-> content[k][l]])
        <4>1. SoundRows(res[o]) /\ SoundRows(res'[o])
          BY DEF PoolFits
        <4>2. HeldBy(res'[o], p) = HeldBy(res[o], p) - out
          BY <3>3, <3>4, <4>1, FulfilledHeld
        <4>3. out \in Nat
          <5>1. IsFiniteSet({m \in {n \in Lines : content[k][n] > 0} : res[o][m].product = p})
            BY FiniteAssumption, FS_Subset
          <5> QED BY <5>1, TotalType
        <4>4. HeldBy(res[o], p) \in Nat
          BY <4>1, HeldByAmounts
        <4> HIDE DEF out
        <4>5. HeldBy(res'[o], p) <= HeldBy(res[o], p)
          BY <4>2, <4>3, <4>4
        <4> QED BY <4>5, PromisedIsHeld
      <3>6. StageOf(s) \in {"promised", "shipped"} /\ StageOf(row.status) = "shipped"
        <4>1. CASE row = order[o] /\ order' = order
          <5>1. s \in {"SHIPPED", "IN_DELIVERY", "DELIVERED"}
            <6>1. CASE AsksOrder(k, t)
              <7>1. s # "READY_TO_SHIP"
                BY <1>4, <2>1, <2>6, <4>1, <6>1, OrderLeaves
              <7>2. orderRank(s) > 2
                BY <2>2, <2>6, <6>1, <7>1 DEF expectedOrder, orderTarget, orderRank
              <7>3. s \in OrderStatus \cup {"NONE"}
                BY <1>a DEF OrderRow
              <7> QED BY <7>2, <7>3 DEF orderRank, OrderStatus
            <6>2. CASE ~AsksOrder(k, t)
              BY <2>1, <2>6, <6>2 DEF AsksOrder, orderTarget, FinalShipment
            <6> QED BY <6>1, <6>2
          <5> QED BY <4>1, <5>1, Stages DEF Moving
        <4>2. CASE s = expectedOrder[t] /\ row.status = u
          <5>1. s = "READY_TO_SHIP" /\ u = "SHIPPED"
            BY <2>6, <4>2 DEF expectedOrder, orderTarget
          <5> QED BY <4>2, <5>1, Stages DEF Moving, AwaitingShipment
        <4> QED BY <2>3, <4>1, <4>2
      <3>7. /\ PoolStage[o] \in {"promised", "shipped"} /\ PoolStage' = [PoolStage EXCEPT ![o] = "shipped"]
            /\ Pool!OnlyPromisesOf(o)
        <4>1. OneOrderWritten(o, row)
          BY <2>3, <3>2 DEF OneOrderWritten
        <4>2. /\ PoolStage[o] = StageOf(order[o].status)
              /\ PoolStage' = [PoolStage EXCEPT ![o] = StageOf(row.status)]
              /\ Pool!OnlyPromisesOf(o)
          BY <4>1, OneOrderMoves
        <4> QED BY <3>6, <4>2
      <3>8. Pool!Ship(o)
        BY <2>4, <3>5, <3>7 DEF Pool!Ship
      <3> QED BY <3>8 DEF Pool!Next
    <2> QED BY <2>5, <2>6
  <1>5. CASE StockNext
    <2>1. ASSUME NEW w \in Warehouses, NEW p \in Products, NEW n \in Quantity,
                 updateWarehouseInventory(w, p, n)
          PROVE  Pool!Next
      <3> DEFINE row == [product[p] EXCEPT !.stock = @ + (n - onHand[w][p])]
      <3>1. product' = [product EXCEPT ![p] = row] /\ UNCHANGED <<order, res>>
        BY <2>1 DEF updateWarehouseInventory, unchangedOrders
      <3> HIDE DEF row
      <3>2. Pool!Restock(p)
        BY <3>1, OneProductRestocked
      <3> QED BY <3>2 DEF Pool!Next
    <2>2. ASSUME NEW p \in Products, NEW s \in {"ACTIVE", "INACTIVE"},
                 NEW initial \in [Warehouses -> Quantity], createProduct(p, s, initial)
          PROVE  Pool!Next
      <3> DEFINE row == [status |-> s, stock |-> Total(initial)]
      <3>1. product' = [product EXCEPT ![p] = row] /\ UNCHANGED <<order, res>>
        BY <2>2 DEF createProduct, unchangedOrders
      <3> HIDE DEF row
      <3>2. Pool!Restock(p)
        BY <3>1, OneProductRestocked
      <3> QED BY <3>2 DEF Pool!Next
    <2>3. ASSUME NEW P \in SUBSET Products, NEW S \in SUBSET Orders, NEW late,
                 resetShopData(P, S, late)
          PROVE  Pool!Next
      <3>1. \A o \in Orders : StageOf(order'[o].status) \in {"none", "shipped"}
        <4>1. \A o \in Orders : order'[o].status \in {"NONE", "COMPLETED"}
          BY <2>3 DEF resetShopData, SeededOrder, AbsentOrder
        <4> QED BY <4>1, Stages DEF Moving
      <3>2. PoolStage' \in [Orders -> {"none", "shipped"}]
        BY <3>1 DEF PoolStage
      <3>3. \A o \in Orders, p \in Products : HeldBy(res'[o], p) = 0
        <4>1. \A o \in Orders, p \in Products : LinesHeld(res'[o], p) = {}
          BY <2>3 DEF resetShopData, AbsentReservation, LinesHeld, Holding
        <4> QED BY <4>1, NothingHeld
      <3>4. PoolPromised' = [o \in Orders |-> [p \in Products |-> 0]]
        <4>1. PoolPromised' = [o \in Orders |-> [p \in Products |-> HeldBy(res'[o], p)]]
          BY DEF PoolPromised, Held, HeldBy, HeldLines, LinesHeld
        <4> QED BY <3>3, <4>1
      <3>5. PoolSellable' \in [Products -> Nat]
        BY DEF PoolFits
      <3>6. Pool!Reset
        BY <3>2, <3>4, <3>5 DEF Pool!Reset, Pool!Nothing
      <3> QED BY <3>6 DEF Pool!Next
    <2>4. ASSUME NEW p \in Products, NEW s \in {"ACTIVE", "INACTIVE"}, updateProduct(p, s)
          PROVE  PoolSame
      BY <1>0, <1>a, <2>4 DEF updateProduct, unchangedOrders, RowsTyped, ProductRow
    <2>5. ASSUME NEW p \in Products, Archive(p)
          PROVE  PoolSame
      BY <1>0, <1>a, <2>5 DEF Archive, unchangedOrders, RowsTyped, ProductRow
    <2> QED
      BY <1>0, <1>5, <2>1, <2>2, <2>3, <2>4, <2>5
      DEF StockNext, createControlWarehouse, updateControlWarehouse, stockVars, unchangedOrders
  <1>6. ASSUME NEW k \in Packages, NEW o \in Orders, PackageStep(o, k)
        PROVE  PoolSame
    BY <1>0, <1>6 DEF PackageStep, shipExistingPackage, InsertPackage, stockVars
  <1>7. CASE Tick \/ UNCHANGED vars
    BY <1>0, <1>7 DEF Tick, vars, stockVars
  <1> QED BY <1>1, <1>2, <1>3, <1>4, <1>5, <1>6, <1>7 DEF StepKinds

(* Fulfillment implements the stock pool, for any number of orders, lines, products,
   packages and warehouses: all or nothing is promised, out of what nobody else was
   promised, and it goes back whole and once, or ships. *)
THEOREM StockIsOnePool == Spec => OneStockPool
  <1>1. Spec => [](RowsTyped /\ PoolFits)
    BY PoolNumbers, RowsAreTyped, NeverOversold, BoundsHold, StockLedgerExact,
       ReservationsFollowOrders, PTL
  <1>2. RowsTyped /\ PoolFits /\ PoolFits' /\ [Next]_vars => [Pool!Next]_(Pool!vars)
    <2> SUFFICES ASSUME RowsTyped, PoolFits, PoolFits', [Next]_vars
        PROVE  [Pool!Next]_(Pool!vars)
      OBVIOUS
    <2>1. Pool!Next \/ PoolSame
      BY NextKinds, PoolStep
    <2> QED BY <2>1 DEF PoolSame, Pool!vars
  <1>3. Spec => Pool!Spec
    BY <1>1, <1>2, PoolInit, PTL DEF Spec, Pool!Spec
  <1> QED BY <1>3 DEF OneStockPool

=============================================================================
