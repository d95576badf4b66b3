--------------------------- MODULE MCConnectionPool ---------------------------
(* Instances of the connection pool for TLC.  The requests are numbers, so that of   *)
(* all orders in which they can be of the same kinds one is enough.                  *)
EXTENDS ConnectionPool

CONSTANTS A, B

TwoWarehouses == {A, B}

AllActive == {<<A, B>>}

KindsInOrder ==
  <<"cancel", "failPayment", "ship", "createOrder", "createDefaultProduct", "createProduct",
    "updateProduct", "archiveProduct", "updateInventory", "adminUpdateInventory",
    "updateWarehouse", "recodeWarehouse", "retryDelivery">>

Number(k) == CHOOSE i \in DOMAIN KindsInOrder : KindsInOrder[i] = k

ASSUME {KindsInOrder[i] : i \in DOMAIN KindsInOrder} = Kinds

(* Earlier orders are served from A, which is also the default warehouse, the one an *)
(* administrator recounts and the one that moves in the ranking.                     *)
MostFromA ==
  \A r \in Requests :
    kind[r] \in PlaceKinds \ {"updateInventory"} => warehouses[r] = <<A>>

Variants == <<<<>>, <<A>>, <<B>>, <<A, B>>, <<B, A>>>>

Variant(q) == CHOOSE i \in DOMAIN Variants : Variants[i] = q

SortedByKind == \A r, s \in Requests : r < s => Number(kind[r]) <= Number(kind[s])

(* Of one kind, too, except for orders, which all arrive alike. *)
SortedByWarehouse ==
  \A r, s \in Requests :
    r < s /\ kind[r] = kind[s] /\ kind[r] # "createOrder"
      => Variant(warehouses[r]) <= Variant(warehouses[s])
=============================================================================
