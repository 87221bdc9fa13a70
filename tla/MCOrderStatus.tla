---------------------------- MODULE MCOrderStatus ----------------------------
(* Instances of OrderStatus for TLC. *)
EXTENDS OrderStatus

CONSTANTS o1, o2, alice, bob, olga, oskar, root

MCCustomerId == [o \in Orders |-> alice]
MCOwnerId == [o \in Orders |-> olga]

(* The two parties of the orders, a customer and an owner who are not, and *)
(* an administrator.                                                       *)
MCActors ==
  { [id |-> alice, role |-> "CUSTOMER"], [id |-> bob, role |-> "CUSTOMER"],
    [id |-> olga, role |-> "RESTAURANT_OWNER"],
    [id |-> oskar, role |-> "RESTAURANT_OWNER"],
    [id |-> root, role |-> "ADMIN"] }

(* Without the outsiders, where the log is explored deeply. *)
MCParties == {a \in MCActors : a.id \in {alice, olga, root}}
=============================================================================
