------------------------------- MODULE Checkout -------------------------------
(***************************************************************************)
(* The whole of createOrder (orders.service.ts) in one transaction, with   *)
(* everything that meets it: the catalogue it buys from and the coupon it  *)
(* redeems, while both are edited and deleted.                             *)
(*                                                                         *)
(* Catalogue sees an order being placed in one step, and CouponRedemption  *)
(* sees a coupon without a restaurant.  Here they share one transaction:   *)
(* what it inserts stays invisible and holds the rows it refers to until   *)
(* it commits, and the deletion of a restaurant takes its coupons along.   *)
(* The steps of owners and administrators are those two modules' own; this *)
(* module is shown to implement both.                                      *)
(***************************************************************************)
EXTENDS Naturals, FiniteSets

CONSTANTS
  Owners, Restaurants, Meals, Owner,      \* as in Catalogue
  Coupons, Customers, Limits, Unlimited,  \* as in CouponRedemption
  Orders,
  Managers,   \* requests of owners and administrators at once
  Handlers,   \* checkouts at once
  NoRestaurant, NoOrder, NoRequest, NoCoupon, NoTx

ASSUME HandlersAssumption == Managers \cap Handlers = {} /\ IsFiniteSet(Handlers)
ASSUME LimitsAssumption == Limits \subseteq Nat \ {0} /\ Unlimited \notin Nat
ASSUME MarkersAssumption ==
  /\ Owner \in [Restaurants -> Owners]
  /\ NoRestaurant \notin Restaurants /\ NoCoupon \notin Coupons
  /\ NoOrder \notin [at : Restaurants, items : SUBSET Meals, active : BOOLEAN]
  /\ NoOrder \notin [customer : Customers, coupon : Coupons \cup {NoCoupon}]

VARIABLES
  owners, restaurant, meal, home,  \* rows, as in Catalogue
  order,                           \* orders: where, what, whether active
  orders,                          \* orders that redeemed: who, which coupon
  coupons, usages, ceiling,        \* as in CouponRedemption
  shop,                            \* coupons.restaurantId
  managing, request,               \* stage and rows of each manager's request
  stage, tx                        \* stage and locals of each checkout

catalogueRows == <<owners, restaurant, meal, home, order>>
couponRows == <<coupons, orders, usages, ceiling, shop>>
requests == <<managing, request>>
checkouts == <<stage, tx>>
vars == <<catalogueRows, couponRows, requests, checkouts>>

-----------------------------------------------------------------------------
(* The two views of a checkout. *)

CatalogueStage ==
  [h \in Managers \cup Handlers |->
     IF h \in Managers THEN managing[h]
     ELSE IF stage[h] \in {"idle", "ordering"} THEN stage[h] ELSE "priced"]

CatalogueRequest ==
  [h \in Managers \cup Handlers |->
     IF h \in Managers THEN request[h]
     ELSE IF stage[h] = "idle" THEN NoRequest
     ELSE [restaurant |-> tx[h].restaurant, items |-> tx[h].items]]

CouponStage ==
  [h \in Handlers |->
     IF stage[h] \in {"idle", "ordering", "priced"} \/ tx[h].coupon = NoCoupon THEN "idle"
     ELSE IF stage[h] \in {"ordered", "used"} THEN "inserted"
     ELSE stage[h]]

CouponTx ==
  [h \in Handlers |->
     IF CouponStage[h] = "idle" THEN NoTx
     ELSE [order |-> tx[h].order, customer |-> tx[h].customer,
           coupon |-> tx[h].coupon, per |-> tx[h].per, newUsed |-> tx[h].newUsed]]

Cat == INSTANCE Catalogue WITH
         Handlers <- Managers \cup Handlers,
         stage <- CatalogueStage, req <- CatalogueRequest

Cou == INSTANCE CouponRedemption WITH stage <- CouponStage, tx <- CouponTx

(* The requests of managers alone. *)
Desk == INSTANCE Catalogue WITH
          Handlers <- Managers, stage <- managing, req <- request

-----------------------------------------------------------------------------
Init ==
  /\ Desk!Init
  /\ stage = [h \in Handlers |-> "idle"]
  /\ tx = [h \in Handlers |-> NoTx]
  /\ shop = [c \in Coupons |-> NoRestaurant]
  /\ Cou!Init

Inserting == {"ordered", "used", "incremented"}

(* The inserted rows that refer to a restaurant, or to a meal, hold it. *)
InsertingAt(r) == {h \in Handlers : stage[h] \in Inserting /\ tx[h].restaurant = r}
InsertingWith(m) == {h \in Handlers : stage[h] \in Inserting /\ m \in tx[h].items}

Goes(h, s) == stage' = [stage EXCEPT ![h] = s]

Unclaimed(o) ==
  /\ order[o] = NoOrder
  /\ \A h \in Handlers : stage[h] # "idle" => tx[h].order # o

OnlyCheckout == UNCHANGED <<catalogueRows, couponRows, requests>>

-----------------------------------------------------------------------------
(* createOrder *)

ReadRestaurant(h, o, k, r, items) ==
  /\ stage[h] = "idle"
  /\ Unclaimed(o)
  /\ restaurant[r] = "open"
  /\ Goes(h, "ordering")
  /\ tx' = [tx EXCEPT ![h] = [order |-> o, customer |-> k, restaurant |-> r,
                              items |-> items, coupon |-> NoCoupon,
                              per |-> Unlimited, newUsed |-> 0]]
  /\ OnlyCheckout

(* Mutant: isAvailable is not looked at. *)
ReadMeals_Unavailable(h) ==
  /\ stage[h] = "ordering"
  /\ \A m \in tx[h].items : Desk!Served(m) /\ home[m] = tx[h].restaurant
  /\ Goes(h, "priced")
  /\ UNCHANGED tx
  /\ OnlyCheckout

ReadMeals(h) ==
  /\ stage[h] = "ordering"
  /\ \A m \in tx[h].items : meal[m] = "available" /\ home[m] = tx[h].restaurant
  /\ Goes(h, "priced")
  /\ UNCHANGED tx
  /\ OnlyCheckout

(* Mutants: a coupon of any restaurant, and no limit. *)
ReadCoupon_AnyRestaurant(h, c) ==
  /\ stage[h] = "priced"
  /\ coupons[c].row = "live" /\ coupons[c].usable
  /\ ~Cou!Reached(coupons[c].used, coupons[c].limits.total)
  /\ Goes(h, "read")
  /\ tx' = [tx EXCEPT ![h].coupon = c, ![h].per = coupons[c].limits.per]
  /\ OnlyCheckout

ReadCoupon_NoLimit(h, c) ==
  /\ stage[h] = "priced"
  /\ coupons[c].row = "live" /\ coupons[c].usable
  /\ shop[c] = tx[h].restaurant
  /\ Goes(h, "read")
  /\ tx' = [tx EXCEPT ![h].coupon = c, ![h].per = coupons[c].limits.per]
  /\ OnlyCheckout

ReadCoupon(h, c) ==
  /\ stage[h] = "priced"
  /\ coupons[c].row = "live" /\ coupons[c].usable
  /\ shop[c] = tx[h].restaurant
  /\ ~Cou!Reached(coupons[c].used, coupons[c].limits.total)
  /\ Goes(h, "read")
  /\ tx' = [tx EXCEPT ![h].coupon = c, ![h].per = coupons[c].limits.per]
  /\ OnlyCheckout

CountUsages(h) ==
  /\ stage[h] = "read"
  /\ LET taken == Cardinality(Cou!RedemptionsBy(tx[h].coupon, tx[h].customer))
     IN ~Cou!Reached(taken, tx[h].per)
  /\ Goes(h, "cleared")
  /\ UNCHANGED tx
  /\ OnlyCheckout

(* order.create with its items: every row they name must still be there. *)
InsertOrder(h) ==
  /\ \/ stage[h] = "priced"
     \/ stage[h] = "cleared" /\ coupons[tx[h].coupon].row = "live"
  /\ Desk!Listed(tx[h].restaurant)
  /\ \A m \in tx[h].items : Desk!Served(m)
  /\ Goes(h, "ordered")
  /\ UNCHANGED tx
  /\ OnlyCheckout

InsertUsage(h) ==
  /\ stage[h] = "ordered"
  /\ tx[h].coupon # NoCoupon
  /\ Goes(h, "used")
  /\ UNCHANGED tx
  /\ OnlyCheckout

IncrementCounter(h) ==
  /\ stage[h] = "used"
  /\ ~Cou!RowLocked(tx[h].coupon)
  /\ Goes(h, "incremented")
  /\ tx' = [tx EXCEPT ![h].newUsed = coupons[tx[h].coupon].used + 1]
  /\ OnlyCheckout

End(h) ==
  /\ Goes(h, "idle")
  /\ tx' = [tx EXCEPT ![h] = NoTx]

(* Everything the transaction wrote appears at once. *)
Place(t) ==
  order' = [order EXCEPT ![t.order] =
              [at |-> t.restaurant, items |-> t.items, active |-> TRUE]]

Redeem(t) ==
  /\ coupons' = [coupons EXCEPT ![t.coupon].used = t.newUsed]
  /\ orders' = [orders EXCEPT ![t.order] = [customer |-> t.customer, coupon |-> t.coupon]]
  /\ usages' = usages \cup
       {[order |-> t.order, customer |-> t.customer, coupon |-> t.coupon]}
  /\ UNCHANGED <<ceiling, shop>>

Commit(h) ==
  /\ \/ /\ stage[h] = "ordered" /\ tx[h].coupon = NoCoupon
        /\ UNCHANGED couponRows
     \/ stage[h] = "incremented" /\ Redeem(tx[h])
  /\ Place(tx[h])
  /\ End(h)
  /\ UNCHANGED <<owners, restaurant, meal, home, requests>>

(* Mutant: the handler is not released. *)
Abort_KeepsStage(h) ==
  /\ stage[h] # "idle"
  /\ tx' = [tx EXCEPT ![h] = NoTx]
  /\ UNCHANGED stage
  /\ OnlyCheckout

(* A failed check or statement, the transaction's timeout, or a crash. *)
Abort(h) ==
  /\ stage[h] # "idle"
  /\ End(h)
  /\ OnlyCheckout

-----------------------------------------------------------------------------
(* Owners and administrators *)

ManageCatalogue ==
  /\ UNCHANGED <<couponRows, checkouts>>
  /\ \/ \E r \in Restaurants :
          \/ Desk!CreateRestaurant(r)
          \/ \E standing \in {"open", "blocked"} : Desk!BlockRestaurant(r, standing)
     \/ \E m \in Meals, standing \in {"available", "unavailable"} :
          Desk!UpdateMeal(m, standing)
     \/ \E o \in Orders : Desk!ChangeStatus(o)
     \/ \E g \in Managers :
          \/ \E r \in Restaurants : Desk!VerifyRestaurant(g, r) \/ Desk!CountOrders(g, r)
          \/ \E m \in Meals : Desk!CreateMeal(g, m) \/ Desk!CountItems(g, m)
          \/ Desk!Refuse(g) \/ Desk!Fail(g)

DeleteMeal(g, m) ==
  /\ InsertingWith(m) = {}
  /\ Desk!DeleteMeal(g, m)
  /\ UNCHANGED <<couponRows, checkouts>>

CouponsOf(R) == {c \in Coupons : coupons[c].row = "live" /\ shop[c] \in R}

(* The coupons of deleted restaurants go with them. *)
Cascade(R) ==
  /\ \A r \in R : InsertingAt(r) = {}
  /\ UNCHANGED <<checkouts, shop>>
  /\ Cou!DeleteCoupons(CouponsOf(R))

DeleteRestaurant(g) ==
  /\ Desk!DeleteRestaurant(g)
  /\ Cascade({request[g].restaurant})

DeleteOwner(u) ==
  /\ Desk!DeleteOwner(u)
  /\ Cascade({r \in Restaurants : Owner[r] = u})

CreateCoupon(c, r, limits, usable) ==
  /\ Desk!Listed(r)
  /\ UNCHANGED <<catalogueRows, requests, checkouts>>
  /\ Cou!CreateCoupon(c, limits, usable)
  /\ shop' = [shop EXCEPT ![c] = r]

ManageCoupon(c) ==
  /\ UNCHANGED <<catalogueRows, requests, checkouts, shop>>
  /\ \/ \E limits \in Cou!LimitPair, usable \in BOOLEAN : Cou!UpdateCoupon(c, limits, usable)
     \/ Cou!Expire(c)
     \/ Cou!DeleteCoupons({c})

CreateOrder(h) ==
  \/ \E o \in Orders, k \in Customers, r \in Restaurants, items \in SUBSET Meals \ {{}} :
       ReadRestaurant(h, o, k, r, items)
  \/ ReadMeals(h)
  \/ \E c \in Coupons : ReadCoupon(h, c)
  \/ CountUsages(h) \/ InsertOrder(h) \/ InsertUsage(h) \/ IncrementCounter(h)
  \/ Commit(h) \/ Abort(h)

Next ==
  \/ \E h \in Handlers : CreateOrder(h)
  \/ ManageCatalogue
  \/ \E g \in Managers : DeleteRestaurant(g) \/ \E m \in Meals : DeleteMeal(g, m)
  \/ \E u \in Owners : DeleteOwner(u)
  \/ \E c \in Coupons :
       \/ ManageCoupon(c)
       \/ \E r \in Restaurants, limits \in Cou!LimitPair, usable \in BOOLEAN :
            CreateCoupon(c, r, limits, usable)

Spec == Init /\ [][Next]_vars

-----------------------------------------------------------------------------
(* Properties *)

Tx == [order : Orders, customer : Customers, restaurant : Restaurants,
       items : SUBSET Meals, coupon : Coupons \cup {NoCoupon},
       per : Cou!AnyLimit, newUsed : Nat]

Stages == {"idle", "ordering", "priced", "read", "cleared"} \cup Inserting

Redeeming(h) == stage[h] \in {"read", "cleared", "used", "incremented"}

(* The rows keep the types of both parts, and a checkout knows its coupon  *)
(* from the moment it has read it.                                         *)
TypeOK ==
  /\ Desk!TypeOK
  /\ coupons \in [Coupons -> Cou!CouponRow]
  /\ orders \in [Orders -> Cou!OrderRow \cup {NoOrder}]
  /\ usages \subseteq Cou!UsageRow
  /\ ceiling \in [Coupons -> Cou!LimitPair]
  /\ shop \in [Coupons -> Restaurants \cup {NoRestaurant}]
  /\ stage \in [Handlers -> Stages]
  /\ tx \in [Handlers -> Tx \cup {NoTx}]
  /\ \A h \in Handlers :
       /\ stage[h] # "idle" => tx[h] \in Tx
       /\ Redeeming(h) => tx[h].coupon # NoCoupon

(* A coupon is redeemed at its own restaurant only, and lives no longer    *)
(* than it: not when the restaurant is deleted while an order that redeems *)
(* it is being placed, nor when the coupon is created meanwhile.           *)
CouponsStayHome ==
  /\ \A c \in Coupons :
       coupons[c].row = "live" => shop[c] \in Restaurants /\ Desk!Listed(shop[c])
  /\ \A u \in usages :
       order[u.order] # NoOrder /\ order[u.order].at = shop[u.coupon]

(* createOrder, statement by statement and with everything it waits for,   *)
(* is the step of Catalogue that places an order: the restaurant and the   *)
(* meals are still there when it commits.                                  *)
ImplementsCatalogue == Cat!Spec

(* With orders that redeem nothing in between, and coupons that go with    *)
(* their restaurant, it is the checkout of CouponRedemption.               *)
ImplementsCoupons == Cou!Spec
=============================================================================
