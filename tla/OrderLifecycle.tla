---------------------------- MODULE OrderLifecycle ----------------------------
(***************************************************************************)
(* What the service promises about an order, seen from outside: it appears *)
(* as PLACED and then moves only along the transition table.  OrderStatus  *)
(* is the detailed specification that is held against this one.            *)
(***************************************************************************)
EXTENDS OrderTransitions

CONSTANTS Orders, Unplaced

VARIABLE status

Init == status = [o \in Orders |-> Unplaced]

Place(o) ==
  /\ status[o] = Unplaced
  /\ status' = [status EXCEPT ![o] = "PLACED"]

Change(o) ==
  /\ status[o] \in Statuses
  /\ \E role \in Roles, to \in Requestable :
       /\ MayChange(status[o], to, role)
       /\ status' = [status EXCEPT ![o] = to]

Next == \E o \in Orders : Place(o) \/ Change(o)

Spec == Init /\ [][Next]_status
=============================================================================
