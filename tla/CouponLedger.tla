----------------------------- MODULE CouponLedger -----------------------------
(***************************************************************************)
(* What the service promises about coupons, seen from outside: an order    *)
(* redeems a live coupon in one step, while the coupon has been redeemed   *)
(* less often than the highest limits it carried allow, give or take the   *)
(* checkouts that overlap; and a coupon that goes is forgotten everywhere  *)
(* at once.  There is no counter, and no usage rows: the orders are all    *)
(* there is to count.  CouponRedemption is held against this.              *)
(***************************************************************************)
EXTENDS Naturals, FiniteSets

CONSTANTS
  Coupons, Customers, Orders, Limits, Unlimited, NoOrder, NoCoupon,
  Overlap   \* checkouts that may run at once

VARIABLES
  state,    \* whether each coupon is absent, live or deleted
  ceiling,  \* the highest limits it has carried
  orders    \* of each order that redeemed: whose it is, and which coupon

vars == <<state, ceiling, orders>>

Init ==
  /\ state = [c \in Coupons |-> "absent"]
  /\ ceiling = [c \in Coupons |-> [total |-> Unlimited, per |-> Unlimited]]
  /\ orders = [o \in Orders |-> NoOrder]

LimitPair == [total : Limits \cup {Unlimited}, per : Limits \cup {Unlimited}]

OrdersWith(c) == {o \in Orders : orders[o] # NoOrder /\ orders[o].coupon = c}
OrdersOf(c, k) == {o \in OrdersWith(c) : orders[o].customer = k}

(* With no overlap, Overlap being 1, this is n < limit. *)
Room(n, limit) == limit # Unlimited => n + 1 < limit + Overlap

Redeem(o, k, c) ==
  /\ state[c] = "live"
  /\ orders[o] = NoOrder
  /\ Room(Cardinality(OrdersWith(c)), ceiling[c].total)
  /\ Room(Cardinality(OrdersOf(c, k)), ceiling[c].per)
  /\ orders' = [orders EXCEPT ![o] = [customer |-> k, coupon |-> c]]
  /\ UNCHANGED <<state, ceiling>>

Issue(c, limits) ==
  /\ state[c] = "absent"
  /\ state' = [state EXCEPT ![c] = "live"]
  /\ ceiling' = [ceiling EXCEPT ![c] = limits]
  /\ UNCHANGED orders

Covers(high, limit) == high = Unlimited \/ (limit # Unlimited /\ limit <= high)

Raise(c, limits) ==
  /\ state[c] = "live"
  /\ Covers(limits.total, ceiling[c].total) /\ Covers(limits.per, ceiling[c].per)
  /\ ceiling' = [ceiling EXCEPT ![c] = limits]
  /\ UNCHANGED <<state, orders>>

Withdraw(C) ==
  /\ \A c \in C : state[c] = "live"
  /\ state' = [c \in Coupons |-> IF c \in C THEN "deleted" ELSE state[c]]
  /\ orders' = [o \in Orders |->
                  IF \E c \in C : o \in OrdersWith(c)
                  THEN [orders[o] EXCEPT !.coupon = NoCoupon] ELSE orders[o]]
  /\ UNCHANGED ceiling

Next ==
  \/ \E o \in Orders, k \in Customers, c \in Coupons : Redeem(o, k, c)
  \/ \E c \in Coupons, limits \in LimitPair : Issue(c, limits) \/ Raise(c, limits)
  \/ \E C \in SUBSET Coupons : Withdraw(C)

Spec == Init /\ [][Next]_vars
=============================================================================
