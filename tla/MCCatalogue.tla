------------------------------ MODULE MCCatalogue ------------------------------
EXTENDS Catalogue, TLC

(* One owner has every restaurant, so that restaurants are interchangeable. *)
MCOwner == [r \in Restaurants |-> CHOOSE u \in Owners : TRUE]

Symmetry ==
  Permutations(Restaurants) \cup Permutations(Meals)
    \cup Permutations(Orders) \cup Permutations(Handlers)
=============================================================================
