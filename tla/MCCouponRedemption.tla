-------------------------- MODULE MCCouponRedemption --------------------------
(* Instances of CouponRedemption for TLC. *)
EXTENDS CouponRedemption, TLC

(* Ids, customers and handlers are interchangeable; no property tells them *)
(* apart and none is a liveness property.                                  *)
Symmetry ==
  Permutations(Handlers) \cup Permutations(Orders) \cup Permutations(Customers)
=============================================================================
