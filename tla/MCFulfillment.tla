---------------------------- MODULE MCFulfillment ----------------------------
(* Instances of Fulfillment for TLC. *)
EXTENDS Fulfillment, TLC, FiniteSetsExt

(* Total against the library's sum, on every function the bounds allow. *)
ASSUME TotalIsSum ==
  \A q \in [1 .. 3 -> 0 .. MaxQuantity] : Total(q) = MapThenSumSet(LAMBDA x : q[x], 1 .. 3)

Symmetry ==
  Permutations(Orders) \cup Permutations(Lines) \cup Permutations(Products)
  \cup Permutations(Packages)
=============================================================================
