------------------------------ MODULE StockPool ------------------------------
(* What a shop promises of its stock: there is one pool of every product.  An order  *)
(* is promised once, and only what nobody else was promised.  What it was promised   *)
(* either goes back, whole and once, or it ships, never both.                        *)
EXTENDS Integers

CONSTANTS Orders, Products

VARIABLES
  stage,     \* where an order is: "none", "promised", "returned" or "shipped"
  sellable,  \* what a new order can still be promised of a product
  promised   \* what is set aside of a product for an order

vars == <<stage, sellable, promised>>

Nothing == [p \in Products |-> 0]
Promises == [Orders -> [Products -> Nat]]

Init ==
  /\ stage = [o \in Orders |-> "none"]
  /\ sellable = Nothing
  /\ promised = [o \in Orders |-> Nothing]

OnlyPromisesOf(o) ==
  /\ promised' \in Promises
  /\ \A x \in Orders \ {o} : promised'[x] = promised[x]

Promise(o) ==
  /\ stage[o] = "none"
  /\ stage' = [stage EXCEPT ![o] = "promised"]
  /\ OnlyPromisesOf(o)
  /\ \A p \in Products : promised'[o][p] <= sellable[p]
  /\ sellable' = [p \in Products |-> sellable[p] - promised'[o][p]]

Return(o) ==
  /\ stage[o] = "promised"
  /\ stage' = [stage EXCEPT ![o] = "returned"]
  /\ promised' = [promised EXCEPT ![o] = Nothing]
  /\ sellable' = [p \in Products |-> sellable[p] + promised[o][p]]

(* Shipped goods leave the pool.  What is not shipped stays promised. *)
Ship(o) ==
  /\ stage[o] \in {"promised", "shipped"}
  /\ stage' = [stage EXCEPT ![o] = "shipped"]
  /\ OnlyPromisesOf(o)
  /\ \A p \in Products : promised'[o][p] <= promised[o][p]
  /\ UNCHANGED sellable

(* Goods are counted or come in: promises are not touched by it. *)
Restock(p) ==
  /\ sellable' \in [Products -> Nat]
  /\ \A q \in Products \ {p} : sellable'[q] = sellable[q]
  /\ UNCHANGED <<stage, promised>>

(* Everything goes; some orders come back as history that has shipped. *)
Reset ==
  /\ stage' \in [Orders -> {"none", "shipped"}]
  /\ sellable' \in [Products -> Nat]
  /\ promised' = [o \in Orders |-> Nothing]

Next ==
  \/ \E o \in Orders : Promise(o) \/ Return(o) \/ Ship(o)
  \/ \E p \in Products : Restock(p)
  \/ Reset

Spec == Init /\ [][Next]_vars
=============================================================================
