--------------------------- MODULE CouponRedemption ---------------------------
(***************************************************************************)
(* Orders that redeem a coupon (createOrder, orders.service.ts) against    *)
(* the owner's changes to the coupon (coupons.service.ts).                 *)
(*                                                                         *)
(* createOrder is one transaction at READ COMMITTED: it reads the coupon   *)
(* and counts the customer's redemptions without a lock, inserts the order *)
(* and the usage, adds one to the coupon's counter, and commits.  The      *)
(* inserts reference the coupon, so they hold it against deletion; the     *)
(* counter's UPDATE holds its row against every other update.  What a      *)
(* transaction wrote is visible to the others from its commit on.          *)
(***************************************************************************)
EXTENDS Naturals, FiniteSets

CONSTANTS
  Coupons, Customers,
  Orders,      \* order ids
  Handlers,    \* transactions that may be in flight at once
  Limits,      \* the usage limits owners set
  Unlimited,   \* a limit of null
  NoOrder, NoCoupon, NoTx

ASSUME HandlersAssumption == IsFiniteSet(Handlers)
ASSUME LimitsAssumption == Limits \subseteq Nat \ {0} /\ Unlimited \notin Nat
ASSUME MarkersAssumption ==
  /\ NoCoupon \notin Coupons
  /\ NoOrder \notin [customer : Customers, coupon : Coupons \cup {NoCoupon}]

VARIABLES
  coupons,   \* rows of coupons, committed
  orders,    \* the customer and coupon of each order row, committed
  usages,    \* rows of coupon_usages, committed
  stage, tx, \* each handler's transaction: how far it is, what it knows
  ceiling    \* ghost: the highest limits each coupon ever carried

vars == <<coupons, orders, usages, stage, tx, ceiling>>

AnyLimit == Limits \cup {Unlimited}
LimitPair == [total : AnyLimit, per : AnyLimit]

Absent == [row |-> "absent", usable |-> FALSE, used |-> 0,
           limits |-> [total |-> Unlimited, per |-> Unlimited]]

Init ==
  /\ coupons = [c \in Coupons |-> Absent]
  /\ orders = [o \in Orders |-> NoOrder]
  /\ usages = {}
  /\ stage = [h \in Handlers |-> "idle"]
  /\ tx = [h \in Handlers |-> NoTx]
  /\ ceiling = [c \in Coupons |-> [total |-> Unlimited, per |-> Unlimited]]

(* Mutant: off by one. *)
Reached_Late(n, limit) == limit # Unlimited /\ n > limit

Reached(n, limit) == limit # Unlimited /\ n >= limit

Redemptions(c) == {u \in usages : u.coupon = c}
RedemptionsBy(c, k) == {u \in usages : u.coupon = c /\ u.customer = k}

InStage(stages, c) == {h \in Handlers : stage[h] \in stages /\ tx[h].coupon = c}

(* The coupon is read and checked; usable stands for active and not        *)
(* expired.  The limit per customer is remembered for the next statement.  *)
ReadCoupon(h, o, k, c) ==
  /\ stage[h] = "idle"
  /\ orders[o] = NoOrder
  /\ \A g \in Handlers : stage[g] # "idle" => tx[g].order # o
  /\ coupons[c].row = "live" /\ coupons[c].usable
  /\ ~Reached(coupons[c].used, coupons[c].limits.total)
  /\ stage' = [stage EXCEPT ![h] = "read"]
  /\ tx' = [tx EXCEPT ![h] = [order |-> o, customer |-> k, coupon |-> c,
                              per |-> coupons[c].limits.per, newUsed |-> 0]]
  /\ UNCHANGED <<coupons, orders, usages, ceiling>>

CountUsages(h) ==
  /\ stage[h] = "read"
  /\ ~Reached(Cardinality(RedemptionsBy(tx[h].coupon, tx[h].customer)), tx[h].per)
  /\ stage' = [stage EXCEPT ![h] = "cleared"]
  /\ UNCHANGED <<coupons, orders, usages, tx, ceiling>>

(* order.create and couponUsage.create.  Their foreign keys fail when the  *)
(* coupon is gone, and from here on keep it from being deleted.            *)
InsertRows(h) ==
  /\ stage[h] = "cleared"
  /\ coupons[tx[h].coupon].row = "live"
  /\ stage' = [stage EXCEPT ![h] = "inserted"]
  /\ UNCHANGED <<coupons, orders, usages, tx, ceiling>>

RowLocked(c) == InStage({"incremented"}, c) # {}

(* Mutant: the increment is computed from a read that does not wait. *)
IncrementCounter_NoLock(h) ==
  /\ stage[h] = "inserted"
  /\ stage' = [stage EXCEPT ![h] = "incremented"]
  /\ tx' = [tx EXCEPT ![h].newUsed = coupons[tx[h].coupon].used + 1]
  /\ UNCHANGED <<coupons, orders, usages, ceiling>>

(* SET currentUsageTotal = currentUsageTotal + 1, waiting for the row and  *)
(* then reading its latest committed value.                                *)
IncrementCounter(h) ==
  /\ stage[h] = "inserted"
  /\ ~RowLocked(tx[h].coupon)
  /\ stage' = [stage EXCEPT ![h] = "incremented"]
  /\ tx' = [tx EXCEPT ![h].newUsed = coupons[tx[h].coupon].used + 1]
  /\ UNCHANGED <<coupons, orders, usages, ceiling>>

Commit(h) ==
  /\ stage[h] = "incremented"
  /\ LET t == tx[h] IN
       /\ coupons' = [coupons EXCEPT ![t.coupon].used = t.newUsed]
       /\ orders' = [orders EXCEPT ![t.order] =
                       [customer |-> t.customer, coupon |-> t.coupon]]
       /\ usages' = usages \cup
            {[order |-> t.order, customer |-> t.customer, coupon |-> t.coupon]}
  /\ stage' = [stage EXCEPT ![h] = "idle"]
  /\ tx' = [tx EXCEPT ![h] = NoTx]
  /\ UNCHANGED ceiling

(* Mutant: the handler is not released. *)
Abort_KeepsStage(h) ==
  /\ stage[h] # "idle"
  /\ tx' = [tx EXCEPT ![h] = NoTx]
  /\ UNCHANGED <<coupons, orders, usages, stage, ceiling>>

(* A failed check or foreign key, the transaction's timeout, or a crash. *)
Abort(h) ==
  /\ stage[h] # "idle"
  /\ stage' = [stage EXCEPT ![h] = "idle"]
  /\ tx' = [tx EXCEPT ![h] = NoTx]
  /\ UNCHANGED <<coupons, orders, usages, ceiling>>

Higher(l, m) ==
  IF l = Unlimited \/ m = Unlimited THEN Unlimited ELSE IF l < m THEN m ELSE l

CreateCoupon(c, limits, usable) ==
  /\ coupons[c].row = "absent"
  /\ coupons' = [coupons EXCEPT ![c] =
       [row |-> "live", usable |-> usable, used |-> 0, limits |-> limits]]
  /\ ceiling' = [ceiling EXCEPT ![c] = limits]
  /\ UNCHANGED <<orders, usages, stage, tx>>

(* Any of the limits and the switches may be in the request; the counter   *)
(* never is.  The UPDATE waits while a checkout holds the row.             *)
UpdateCoupon(c, limits, usable) ==
  /\ coupons[c].row = "live"
  /\ ~RowLocked(c)
  /\ coupons' = [coupons EXCEPT ![c].limits = limits, ![c].usable = usable]
  /\ ceiling' = [ceiling EXCEPT ![c] = [total |-> Higher(@.total, limits.total),
                                        per |-> Higher(@.per, limits.per)]]
  /\ UNCHANGED <<orders, usages, stage, tx>>

(* Time passes expiresAt. *)
Expire(c) ==
  /\ coupons[c].row = "live" /\ coupons[c].usable
  /\ coupons' = [coupons EXCEPT ![c].usable = FALSE]
  /\ UNCHANGED <<orders, usages, stage, tx, ceiling>>

Forgotten(C) ==
  [o \in Orders |->
     IF orders[o] # NoOrder /\ orders[o].coupon \in C
     THEN [orders[o] EXCEPT !.coupon = NoCoupon] ELSE orders[o]]

(* Mutant: the usages are left behind. *)
DeleteCoupons_NoCascade(C) ==
  /\ \A c \in C : coupons[c].row = "live" /\ InStage({"inserted", "incremented"}, c) = {}
  /\ coupons' = [c \in Coupons |->
                   IF c \in C THEN [Absent EXCEPT !.row = "deleted"] ELSE coupons[c]]
  /\ orders' = Forgotten(C)
  /\ UNCHANGED <<usages, stage, tx, ceiling>>

(* Mutant: the DELETE does not wait. *)
DeleteCoupons_NoWait(C) ==
  /\ \A c \in C : coupons[c].row = "live"
  /\ coupons' = [c \in Coupons |->
                   IF c \in C THEN [Absent EXCEPT !.row = "deleted"] ELSE coupons[c]]
  /\ usages' = usages \ UNION {Redemptions(c) : c \in C}
  /\ orders' = Forgotten(C)
  /\ UNCHANGED <<stage, tx, ceiling>>

(* One coupon, or those of a restaurant that is deleted.  Their usages go  *)
(* with them and their orders forget them.  The DELETE waits while an      *)
(* uncommitted order or usage references a row.                            *)
DeleteCoupons(C) ==
  /\ \A c \in C : coupons[c].row = "live" /\ InStage({"inserted", "incremented"}, c) = {}
  /\ coupons' = [c \in Coupons |->
                   IF c \in C THEN [Absent EXCEPT !.row = "deleted"] ELSE coupons[c]]
  /\ usages' = usages \ UNION {Redemptions(c) : c \in C}
  /\ orders' = Forgotten(C)
  /\ UNCHANGED <<stage, tx, ceiling>>

Checkout(h) ==
  \/ \E o \in Orders, k \in Customers, c \in Coupons : ReadCoupon(h, o, k, c)
  \/ CountUsages(h)
  \/ InsertRows(h)
  \/ IncrementCounter(h)
  \/ Commit(h)
  \/ Abort(h)

Manage(c) ==
  \/ \E limits \in LimitPair, usable \in BOOLEAN : CreateCoupon(c, limits, usable)
  \/ \E limits \in LimitPair, usable \in BOOLEAN : UpdateCoupon(c, limits, usable)
  \/ Expire(c)

Next ==
  \/ \E h \in Handlers : Checkout(h)
  \/ \E c \in Coupons : Manage(c)
  \/ \E C \in SUBSET Coupons : DeleteCoupons(C)

Spec == Init /\ [][Next]_vars

-----------------------------------------------------------------------------
CouponRow ==
  [row : {"absent", "live", "deleted"}, usable : BOOLEAN, used : Nat, limits : LimitPair]
OrderRow == [customer : Customers, coupon : Coupons \cup {NoCoupon}]
UsageRow == [order : Orders, customer : Customers, coupon : Coupons]
Tx == [order : Orders, customer : Customers, coupon : Coupons, per : AnyLimit, newUsed : Nat]
Stages == {"idle", "read", "cleared", "inserted", "incremented"}

(* Every variable has the shape the code's rows and requests have. *)
TypeOK ==
  /\ coupons \in [Coupons -> CouponRow]
  /\ orders \in [Orders -> OrderRow \cup {NoOrder}]
  /\ usages \subseteq UsageRow
  /\ stage \in [Handlers -> Stages]
  /\ tx \in [Handlers -> Tx \cup {NoTx}]
  /\ \A h \in Handlers : stage[h] # "idle" => tx[h] \in Tx
  /\ ceiling \in [Coupons -> LimitPair]

Live == {c \in Coupons : coupons[c].row = "live"}

(* A coupon's counter is the number of its usage rows, whatever checkouts, *)
(* failures and edits of the coupon overlap: no increment is ever lost.    *)
CounterExact == \A c \in Live : coupons[c].used = Cardinality(Redemptions(c))

Redeeming == {o \in Orders : orders[o] # NoOrder /\ orders[o].coupon # NoCoupon}

(* The usage rows are exactly the redemptions the orders show, and refer   *)
(* to coupons that still exist: neither an abandoned checkout nor a        *)
(* deletion in the middle of one leaves a row without its counterpart.     *)
UsagesMatchOrders ==
  /\ usages = {[order |-> o, customer |-> orders[o].customer,
                coupon |-> orders[o].coupon] : o \in Redeeming}
  /\ \A u \in usages : u.coupon \in Live

(* From its inserts to its end, a checkout's coupon cannot be deleted under *)
(* it: the increment always finds the row.                                  *)
CouponOutlivesCheckout ==
  \A c \in Coupons : InStage({"inserted", "incremented"}, c) # {} => c \in Live

Checked == {"read", "cleared", "inserted", "incremented"}
Cleared == Checked \ {"read"}
Width == Cardinality(Handlers)

(* The total limit is a check, not a lock: checkouts that passed it before *)
(* one another's commits overshoot it, by fewer than run at once.          *)
TotalOvershootBounded ==
  \A c \in Live : ceiling[c].total # Unlimited =>
    coupons[c].used + Cardinality(InStage(Checked, c)) < ceiling[c].total + Width

CustomerCleared(c, k) == {h \in InStage(Cleared, c) : tx[h].customer = k}

(* The same for the limit per customer. *)
PerCustomerOvershootBounded ==
  \A c \in Live, k \in Customers : ceiling[c].per # Unlimited =>
    Cardinality(RedemptionsBy(c, k)) + Cardinality(CustomerCleared(c, k))
      < ceiling[c].per + Width

(* Neither limit is overshot by more. *)
OvershootBounded == TotalOvershootBounded /\ PerCustomerOvershootBounded

State == [c \in Coupons |-> coupons[c].row]

Book == INSTANCE CouponLedger WITH state <- State, Overlap <- Width

(* Seen from outside, a checkout redeems its coupon in one step, although  *)
(* it checks, inserts and counts in statements of which others see the     *)
(* rows in between: at the commit the coupon is live and has room for one  *)
(* more, and a deletion leaves no order that still names it.               *)
ImplementsLedger == Book!Spec

(* No coupon is redeemed more often than the highest total limit it ever   *)
(* carried.                                                                *)
TotalLimitHolds ==
  \A c \in Live : ceiling[c].total # Unlimited => coupons[c].used <= ceiling[c].total

(* No customer redeems a coupon more often than the highest limit per      *)
(* customer it ever carried.                                               *)
PerCustomerLimitHolds ==
  \A c \in Live, k \in Customers : ceiling[c].per # Unlimited =>
    Cardinality(RedemptionsBy(c, k)) <= ceiling[c].per
=============================================================================
