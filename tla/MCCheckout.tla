------------------------------ MODULE MCCheckout ------------------------------
EXTENDS Checkout, TLC

(* One owner has every restaurant, so that restaurants are interchangeable. *)
MCOwner == [r \in Restaurants |-> CHOOSE u \in Owners : TRUE]

(* Bound: two requests at a time, checkouts and requests of managers. *)
AtOnce ==
  Cardinality({h \in Handlers : stage[h] # "idle"}
              \cup {g \in Managers : managing[g] # "idle"}) <= 2

Symmetry ==
  Permutations(Restaurants) \cup Permutations(Orders) \cup Permutations(Handlers)
=============================================================================
