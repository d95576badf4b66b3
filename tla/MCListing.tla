------------------------------ MODULE MCListing ------------------------------
(* The instance of Listing for TLC. *)
EXTENDS Listing

(* Shops with orders of every status are read in pages of every size while nothing    *)
(* changes; changes are made where three statuses are left, and pages of one or two.  *)
SmallBeforeChanges ==
  changes = 0 /\ changes' = 1 =>
    /\ query.size \in {1, 2}
    /\ \A i \in Existing : table[i].status \in ProductStatus \cup {"UNPAID", "SHIPPED", "IN_DELIVERY"}
=============================================================================
