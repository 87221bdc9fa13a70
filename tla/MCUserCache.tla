------------------------------ MODULE MCUserCache ------------------------------
(* Instances of UserCache for TLC. *)
EXTENDS UserCache

CONSTANTS customer, owner, blocked
=============================================================================
