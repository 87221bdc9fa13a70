--------------------------- MODULE OrderTransitions ---------------------------
(***************************************************************************)
(* The order status machine of orders.service.ts as a table: who may move  *)
(* an order from which status to which.  Constant-level: no state here.    *)
(***************************************************************************)
EXTENDS FiniteSets

Roles == {"CUSTOMER", "RESTAURANT_OWNER", "ADMIN"}

Statuses ==
  {"PLACED", "PROCESSING", "IN_ROUTE", "DELIVERED", "RECEIVED", "CANCELED"}

Transition(from, to, allowedRoles) ==
  [from |-> from, to |-> to, allowedRoles |-> allowedRoles]

VALID_TRANSITIONS ==
  { Transition("PLACED",     "CANCELED",   {"CUSTOMER", "RESTAURANT_OWNER"}),
    Transition("PLACED",     "PROCESSING", {"RESTAURANT_OWNER"}),
    Transition("PROCESSING", "CANCELED",   {"RESTAURANT_OWNER"}),
    Transition("PROCESSING", "IN_ROUTE",   {"RESTAURANT_OWNER"}),
    Transition("IN_ROUTE",   "DELIVERED",  {"RESTAURANT_OWNER"}),
    Transition("DELIVERED",  "RECEIVED",   {"CUSTOMER"}) }

(* The statuses the request schema accepts as a target. *)
Requestable == Statuses \ {"PLACED"}

(* Mutant: the administrator is let past the table. *)
MayChange_AnythingForAdmin(from, to, role) ==
  role = "ADMIN" \/ \E t \in VALID_TRANSITIONS :
                      t.from = from /\ t.to = to /\ role \in t.allowedRoles

(* An administrator may perform any transition of the table. *)
MayChange(from, to, role) ==
  \E t \in VALID_TRANSITIONS :
    /\ t.from = from
    /\ t.to = to
    /\ role = "ADMIN" \/ role \in t.allowedRoles

Terminal == {s \in Statuses : \A t \in VALID_TRANSITIONS : t.from # s}
=============================================================================
