------------------------------ MODULE MCSessions ------------------------------
(* Instances of Sessions for TLC. *)
EXTENDS Sessions, TLC

(* Ids and handlers are interchangeable: no property tells them apart. *)
Symmetry == Permutations(Users) \cup Permutations(Tokens) \cup Permutations(Handlers)
=============================================================================
