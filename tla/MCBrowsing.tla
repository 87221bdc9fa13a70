------------------------------ MODULE MCBrowsing ------------------------------
(* Instances of Browsing for TLC. *)
EXTENDS Browsing

(* Rows are interchangeable: no property tells their ids apart. *)
Symmetry == Permutations(Rows)
=============================================================================
