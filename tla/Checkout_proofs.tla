---------------------------- MODULE Checkout_proofs ----------------------------
(***************************************************************************)
(* The theorems of Checkout, for any restaurants, meals, coupons, orders   *)
(* and requests: a coupon stays at its restaurant, and the joint program   *)
(* implements Catalogue and CouponRedemption.                              *)
(***************************************************************************)
EXTENDS Checkout, TLAPS

Busy(h) == stage[h] # "idle"

(* An order id that a checkout will use is free, and no other's. *)
Claims ==
  \A h \in Handlers : Busy(h) =>
    /\ order[tx[h].order] = NoOrder
    /\ \A g \in Handlers \ {h} : Busy(g) => tx[g].order # tx[h].order

Redeemed == \A o \in Orders : orders[o] # NoOrder => order[o] # NoOrder

(* What ReadMeals checked about a meal's restaurant stays true. *)
Menus ==
  \A h \in Handlers : stage[h] \notin {"idle", "ordering"} =>
    \A m \in tx[h].items : meal[m] # "none" /\ home[m] = tx[h].restaurant

(* What the foreign keys hold until the commit. *)
Held ==
  \A h \in Handlers : stage[h] \in Inserting =>
    Desk!Listed(tx[h].restaurant) /\ \A m \in tx[h].items : Desk!Served(m)

Homed == \A m \in Meals : Desk!Served(m) => home[m] \in Restaurants

Unread ==
  \A h \in Handlers : stage[h] \in {"ordering", "priced"} =>
    tx[h].coupon = NoCoupon /\ tx[h].newUsed = 0

Homes ==
  \A h \in Handlers : Busy(h) /\ tx[h].coupon # NoCoupon =>
    /\ shop[tx[h].coupon] = tx[h].restaurant
    /\ coupons[tx[h].coupon].row # "absent"

Used == \A u \in usages : coupons[u.coupon].row # "absent"

IInv ==
  /\ TypeOK /\ Homed /\ CouponsStayHome
  /\ Claims /\ Redeemed /\ Menus /\ Held /\ Unread /\ Homes /\ Used

-----------------------------------------------------------------------------
(* Types *)

Rows ==
  /\ coupons \in [Coupons -> Cou!CouponRow]
  /\ orders \in [Orders -> Cou!OrderRow \cup {NoOrder}]
  /\ usages \subseteq Cou!UsageRow
  /\ ceiling \in [Coupons -> Cou!LimitPair]
  /\ shop \in [Coupons -> Restaurants \cup {NoRestaurant}]

Checkouts ==
  /\ stage \in [Handlers -> Stages]
  /\ tx \in [Handlers -> Tx \cup {NoTx}]
  /\ \A h \in Handlers :
       /\ stage[h] # "idle" => tx[h] \in Tx
       /\ Redeeming(h) => tx[h].coupon # NoCoupon

LEMMA TypeParts == TypeOK <=> Desk!TypeOK /\ Rows /\ Checkouts
  BY DEF TypeOK, Rows, Checkouts

LEMMA InitRows == Init => Desk!TypeOK /\ Rows /\ Checkouts
<1> SUFFICES ASSUME Init PROVE Desk!TypeOK /\ Rows /\ Checkouts
  OBVIOUS
<1>1. Desk!TypeOK
  BY DEF Init, Desk!Init, Desk!TypeOK
<1>2. Rows
  BY DEF Init, Cou!Init, Rows, Cou!CouponRow, Cou!Absent, Cou!LimitPair, Cou!AnyLimit
<1>3. Checkouts
  BY DEF Init, Checkouts, Stages, Redeeming
<1> QED
  BY <1>1, <1>2, <1>3

(* What the steps of a checkout do before the commit. *)
Quiet(h) ==
  \/ \E o \in Orders, k \in Customers, r \in Restaurants, items \in SUBSET Meals \ {{}} :
       ReadRestaurant(h, o, k, r, items)
  \/ ReadMeals(h)
  \/ \E c \in Coupons : ReadCoupon(h, c)
  \/ CountUsages(h) \/ InsertOrder(h) \/ InsertUsage(h) \/ IncrementCounter(h)
  \/ Abort(h)

LEMMA QuietTypes ==
  ASSUME TypeOK, NEW h \in Handlers, Quiet(h)
  PROVE  Desk!TypeOK' /\ Rows' /\ Checkouts'
<1> USE TypeParts
<1>1. Desk!TypeOK' /\ Rows'
  <2>1. OnlyCheckout
    BY DEF Quiet, ReadRestaurant, ReadMeals, ReadCoupon, CountUsages, InsertOrder,
           InsertUsage, IncrementCounter, Abort
  <2>2. Desk!TypeOK'
    BY <2>1 DEF OnlyCheckout, Desk!TypeOK, catalogueRows, requests
  <2>3. Rows'
    BY <2>1 DEF OnlyCheckout, Rows, couponRows
  <2> QED
    BY <2>2, <2>3
<1>2. Checkouts'
  <2>0. Checkouts /\ Rows
    OBVIOUS
  <2>1. ASSUME NEW o \in Orders, NEW k \in Customers, NEW r \in Restaurants,
               NEW items \in SUBSET Meals \ {{}}, ReadRestaurant(h, o, k, r, items)
        PROVE  Checkouts'
    BY <2>0, <2>1 DEF ReadRestaurant, Goes, Checkouts, Stages, Redeeming, Tx, Inserting, Cou!AnyLimit
  <2>2. CASE ReadMeals(h)
    BY <2>0, <2>2 DEF ReadMeals, Goes, Checkouts, Stages, Redeeming
  <2>3. ASSUME NEW c \in Coupons, ReadCoupon(h, c)
        PROVE  Checkouts'
    <3>1. coupons[c].limits.per \in Cou!AnyLimit
      BY <2>0 DEF Rows, Cou!CouponRow, Cou!LimitPair
    <3>2. tx[h] \in Tx
      BY <2>0, <2>3 DEF ReadCoupon, Checkouts
    <3>3. tx'[h] \in Tx /\ tx'[h].coupon = c
      BY <2>0, <2>3, <3>1, <3>2 DEF ReadCoupon, Checkouts, Tx
    <3> QED
      BY <2>0, <2>3, <3>3, MarkersAssumption DEF ReadCoupon, Goes, Checkouts, Stages, Redeeming
  <2>4. CASE CountUsages(h)
    BY <2>0, <2>4 DEF CountUsages, Goes, Checkouts, Stages, Redeeming
  <2>5. CASE InsertOrder(h)
    BY <2>0, <2>5 DEF InsertOrder, Goes, Checkouts, Stages, Redeeming, Inserting
  <2>6. CASE InsertUsage(h)
    BY <2>0, <2>6 DEF InsertUsage, Goes, Checkouts, Stages, Redeeming, Inserting
  <2>7. CASE IncrementCounter(h)
    <3>1. tx[h] \in Tx /\ tx[h].coupon \in Coupons
      BY <2>0, <2>7 DEF IncrementCounter, Checkouts, Redeeming, Tx
    <3>2. coupons[tx[h].coupon].used + 1 \in Nat
      BY <2>0, <3>1 DEF Rows, Cou!CouponRow
    <3>3. tx'[h] \in Tx /\ tx'[h].coupon # NoCoupon
      BY <2>0, <2>7, <3>1, <3>2, MarkersAssumption DEF IncrementCounter, Checkouts, Tx
    <3> QED
      BY <2>0, <2>7, <3>3 DEF IncrementCounter, Goes, Checkouts, Stages, Redeeming, Inserting
  <2>8. CASE Abort(h)
    BY <2>0, <2>8 DEF Abort, End, Goes, Checkouts, Stages, Redeeming
  <2> QED
    BY <2>1, <2>2, <2>3, <2>4, <2>5, <2>6, <2>7, <2>8 DEF Quiet
<1> QED
  BY <1>1, <1>2

LEMMA CommitTypes ==
  ASSUME TypeOK, NEW h \in Handlers, Commit(h)
  PROVE  Desk!TypeOK' /\ Rows' /\ Checkouts'
<1>0. Desk!TypeOK /\ Rows /\ Checkouts
  BY TypeParts
<1>1. tx[h] \in Tx
  BY <1>0 DEF Commit, Checkouts
<1>2. Desk!TypeOK'
  <2>1. [at |-> tx[h].restaurant, items |-> tx[h].items, active |-> TRUE] \in Desk!Order
    BY <1>1 DEF Tx, Desk!Order
  <2>2. order' \in [Orders -> Desk!Order \cup {NoOrder}]
    BY <1>0, <1>1, <2>1 DEF Commit, Place, Desk!TypeOK, Tx
  <2> QED
    BY <1>0, <2>2 DEF Commit, Desk!TypeOK, requests
<1>3. Rows'
  <2>1. CASE stage[h] = "ordered"
    BY <1>0, <2>1 DEF Commit, Rows, couponRows
  <2>2. CASE stage[h] = "incremented"
    <3>1. tx[h].coupon \in Coupons /\ tx[h].order \in Orders /\ tx[h].newUsed \in Nat
          /\ tx[h].customer \in Customers
      BY <1>0, <1>1, <2>2 DEF Checkouts, Redeeming, Tx
    <3>2. Redeem(tx[h])
      BY <2>2 DEF Commit
    <3>3. coupons' \in [Coupons -> Cou!CouponRow]
      <4>1. [coupons[tx[h].coupon] EXCEPT !.used = tx[h].newUsed] \in Cou!CouponRow
        BY <1>0, <3>1 DEF Rows, Cou!CouponRow
      <4> QED
        BY <1>0, <3>1, <3>2, <4>1 DEF Redeem, Rows
    <3>4. orders' \in [Orders -> Cou!OrderRow \cup {NoOrder}]
      BY <1>0, <3>1, <3>2 DEF Redeem, Rows, Cou!OrderRow
    <3>5. usages' \subseteq Cou!UsageRow
      BY <1>0, <3>1, <3>2 DEF Redeem, Rows, Cou!UsageRow
    <3> QED
      BY <1>0, <3>2, <3>3, <3>4, <3>5 DEF Redeem, Rows
  <2> QED
    BY <2>1, <2>2 DEF Commit
<1>4. Checkouts'
  BY <1>0 DEF Commit, End, Goes, Checkouts, Stages, Redeeming
<1> QED
  BY <1>2, <1>3, <1>4

-----------------------------------------------------------------------------
(* The requests of managers *)

LEMMA BeginTypes ==
  ASSUME Desk!TypeOK, NEW g \in Managers, NEW r \in Restaurants, NEW items \in SUBSET Meals,
         NEW s \in {"adding", "closing", "withdrawing"}, Desk!Begin(g, s, r, items),
         UNCHANGED <<owners, restaurant, meal, home, order>>
  PROVE  Desk!TypeOK'
<1>1. [restaurant |-> r, items |-> items] \in Desk!Request
  BY DEF Desk!Request
<1>2. managing' \in [Managers -> {"idle", "adding", "closing", "withdrawing",
                                  "refused", "ordering", "priced"}]
  BY DEF Desk!TypeOK, Desk!Begin
<1>3. request' \in [Managers -> Desk!Request \cup {NoRequest}]
  BY <1>1 DEF Desk!TypeOK, Desk!Begin
<1>4. \A h \in Managers : managing'[h] # "idle" => request'[h] \in Desk!Request
  BY <1>1 DEF Desk!TypeOK, Desk!Begin
<1> QED
  BY <1>2, <1>3, <1>4 DEF Desk!TypeOK

(* A request ends, and the rows it leaves have their types. *)
LEMMA EndTypes ==
  ASSUME Desk!TypeOK, NEW g \in Managers, Desk!End(g),
         owners' \subseteq Owners,
         restaurant' \in [Restaurants -> {"none", "open", "blocked", "deleted"}],
         meal' \in [Meals -> {"none", "available", "unavailable", "deleted"}],
         home' \in [Meals -> Restaurants \cup {NoRestaurant}],
         order' = order
  PROVE  Desk!TypeOK'
  BY DEF Desk!TypeOK, Desk!End

(* What no step of a manager takes back: a meal's restaurant, an order and *)
(* where it was placed; and which restaurants R and meals M it deletes.    *)
Keeps(R, M) ==
  /\ \A r \in Restaurants \ R : Desk!Listed(r) => Desk!Listed(r)'
  /\ \A m \in Meals : meal[m] # "none" => meal'[m] # "none" /\ home'[m] = home[m]
  /\ \A m \in Meals \ M : Desk!Served(m) /\ home[m] \notin R => Desk!Served(m)'
  /\ \A o \in Orders :
       /\ order'[o] = NoOrder <=> order[o] = NoOrder
       /\ order[o] # NoOrder => order'[o].at = order[o].at

LEMMA SameRowsKeep ==
  ASSUME Homed, UNCHANGED <<restaurant, meal, home, order>>
  PROVE  Keeps({}, {}) /\ Homed'
  BY DEF Keeps, Homed, Desk!Listed, Desk!Served

LEMMA ManageCatalogueKeeps ==
  ASSUME TypeOK, Homed, ManageCatalogue
  PROVE  Desk!TypeOK' /\ Homed' /\ Keeps({}, {})
<1>0. Desk!TypeOK
  BY TypeParts
<1>1. ASSUME NEW r \in Restaurants, Desk!CreateRestaurant(r)
      PROVE  Desk!TypeOK' /\ Homed' /\ Keeps({}, {})
  BY <1>0, <1>1 DEF Desk!CreateRestaurant, Desk!TypeOK, Homed, Keeps, Desk!Listed, Desk!Served
<1>2. ASSUME NEW r \in Restaurants, NEW standing \in {"open", "blocked"},
             Desk!BlockRestaurant(r, standing)
      PROVE  Desk!TypeOK' /\ Homed' /\ Keeps({}, {})
  BY <1>0, <1>2 DEF Desk!BlockRestaurant, Desk!TypeOK, Homed, Keeps, Desk!Listed, Desk!Served
<1>3. ASSUME NEW m \in Meals, NEW standing \in {"available", "unavailable"},
             Desk!UpdateMeal(m, standing)
      PROVE  Desk!TypeOK' /\ Homed' /\ Keeps({}, {})
  BY <1>0, <1>3 DEF Desk!UpdateMeal, Desk!TypeOK, Homed, Keeps, Desk!Listed, Desk!Served
<1>4. ASSUME NEW o \in Orders, Desk!ChangeStatus(o)
      PROVE  Desk!TypeOK' /\ Homed' /\ Keeps({}, {})
  <2>1. order[o] \in Desk!Order
    BY <1>0, <1>4 DEF Desk!ChangeStatus, Desk!TypeOK
  <2>2. [order[o] EXCEPT !.active = ~@] \in Desk!Order
        /\ [order[o] EXCEPT !.active = ~@].at = order[o].at
    BY <2>1 DEF Desk!Order
  <2>3. NoOrder \notin Desk!Order
    BY MarkersAssumption DEF Desk!Order
  <2>4. order' = [order EXCEPT ![o] = [order[o] EXCEPT !.active = ~@]]
    <3> order[o].active \in BOOLEAN
      BY <2>1 DEF Desk!Order
    <3> QED
      BY <1>0, <1>4, <2>1 DEF Desk!ChangeStatus, Desk!TypeOK, Desk!Order
  <2> QED
    BY <1>0, <1>4, <2>1, <2>2, <2>3, <2>4
    DEF Desk!ChangeStatus, Desk!TypeOK, Homed, Keeps, Desk!Listed, Desk!Served
<1>5. ASSUME NEW g \in Managers, NEW r \in Restaurants, Desk!VerifyRestaurant(g, r)
      PROVE  Desk!TypeOK' /\ Homed' /\ Keeps({}, {})
  BY <1>0, <1>5, BeginTypes, SameRowsKeep DEF Desk!VerifyRestaurant, Desk!rows
<1>6. ASSUME NEW g \in Managers, NEW r \in Restaurants, Desk!CountOrders(g, r)
      PROVE  Desk!TypeOK' /\ Homed' /\ Keeps({}, {})
  BY <1>0, <1>6, BeginTypes, SameRowsKeep DEF Desk!CountOrders, Desk!rows
<1>7. ASSUME NEW g \in Managers, NEW m \in Meals, Desk!CreateMeal(g, m)
      PROVE  Desk!TypeOK' /\ Homed' /\ Keeps({}, {})
  <2>1. request[g].restaurant \in Restaurants
    BY <1>0, <1>7 DEF Desk!CreateMeal, Desk!TypeOK, Desk!Request
  <2>2. Desk!TypeOK'
    BY <1>0, <1>7, <2>1, EndTypes DEF Desk!CreateMeal, Desk!TypeOK
  <2>3. Homed' /\ Keeps({}, {})
    BY <1>0, <1>7, <2>1 DEF Desk!CreateMeal, Desk!TypeOK, Homed, Keeps, Desk!Listed, Desk!Served
  <2> QED
    BY <2>2, <2>3
<1>8. ASSUME NEW g \in Managers, NEW m \in Meals, Desk!CountItems(g, m)
      PROVE  Desk!TypeOK' /\ Homed' /\ Keeps({}, {})
  <2>1. home[m] \in Restaurants
    BY <1>8 DEF Desk!CountItems, Homed
  <2> QED
    BY <1>0, <1>8, <2>1, BeginTypes, SameRowsKeep DEF Desk!CountItems, Desk!rows
<1>9. ASSUME NEW g \in Managers, Desk!Refuse(g)
      PROVE  Desk!TypeOK' /\ Homed' /\ Keeps({}, {})
  BY <1>0, <1>9, SameRowsKeep DEF Desk!Refuse, Desk!rows, Desk!TypeOK
<1>10. ASSUME NEW g \in Managers, Desk!Fail(g)
       PROVE  Desk!TypeOK' /\ Homed' /\ Keeps({}, {})
  BY <1>0, <1>10, EndTypes, SameRowsKeep DEF Desk!Fail, Desk!rows, Desk!TypeOK
<1> QED
  BY <1>1, <1>2, <1>3, <1>4, <1>5, <1>6, <1>7, <1>8, <1>9, <1>10 DEF ManageCatalogue

LEMMA DropKeeps ==
  ASSUME Desk!TypeOK, Homed, NEW R \in SUBSET Restaurants, Desk!Drop(R), UNCHANGED <<home, order>>
  PROVE  /\ restaurant' \in [Restaurants -> {"none", "open", "blocked", "deleted"}]
         /\ meal' \in [Meals -> {"none", "available", "unavailable", "deleted"}]
         /\ Homed' /\ Keeps(R, {})
  BY DEF Desk!Drop, Desk!TypeOK, Homed, Keeps, Desk!Listed, Desk!Served

LEMMA DeleteMealKeeps ==
  ASSUME Desk!TypeOK, Homed, NEW g \in Managers, NEW m \in Meals, DeleteMeal(g, m)
  PROVE  Desk!TypeOK' /\ Homed' /\ Keeps({}, {m})
<1>1. Desk!TypeOK'
  BY EndTypes DEF DeleteMeal, Desk!DeleteMeal, Desk!TypeOK
<1>2. Homed' /\ Keeps({}, {m})
  BY DEF DeleteMeal, Desk!DeleteMeal, Desk!TypeOK, Homed, Keeps, Desk!Listed, Desk!Served
<1> QED
  BY <1>1, <1>2

LEMMA DeleteRestaurantKeeps ==
  ASSUME Desk!TypeOK, Homed, NEW g \in Managers, DeleteRestaurant(g)
  PROVE  /\ request[g].restaurant \in Restaurants
         /\ Desk!TypeOK' /\ Homed' /\ Keeps({request[g].restaurant}, {})
<1>1. request[g].restaurant \in Restaurants
  BY DEF DeleteRestaurant, Desk!DeleteRestaurant, Desk!TypeOK, Desk!Request
<1>2. Desk!Drop({request[g].restaurant}) /\ UNCHANGED <<owners, home, order>> /\ Desk!End(g)
  BY DEF DeleteRestaurant, Desk!DeleteRestaurant
<1>3. Desk!TypeOK'
  BY <1>1, <1>2, DropKeeps, EndTypes DEF Desk!TypeOK
<1> QED
  BY <1>1, <1>2, <1>3, DropKeeps

LEMMA DeleteOwnerKeeps ==
  ASSUME Desk!TypeOK, Homed, NEW u \in Owners, DeleteOwner(u)
  PROVE  /\ Desk!TypeOK' /\ Homed'
         /\ Keeps({r \in Restaurants : Owner[r] = u}, {})
<1> DEFINE R == {r \in Restaurants : Owner[r] = u}
<1>1. /\ Desk!Drop(R) /\ UNCHANGED <<home, order, managing, request>>
      /\ owners' = owners \ {u}
  BY DEF DeleteOwner, Desk!DeleteOwner
<1>2. R \in SUBSET Restaurants
  OBVIOUS
<1> HIDE DEF R
<1>3. /\ restaurant' \in [Restaurants -> {"none", "open", "blocked", "deleted"}]
      /\ meal' \in [Meals -> {"none", "available", "unavailable", "deleted"}]
      /\ Homed' /\ Keeps(R, {})
  BY <1>1, <1>2, DropKeeps
<1>4. Desk!TypeOK'
  BY <1>1, <1>3 DEF Desk!TypeOK
<1> QED
  BY <1>3, <1>4 DEF R

-----------------------------------------------------------------------------
(* The requests about coupons, and the cascade *)

(* What a step that creates no coupon leaves of the coupons of R. *)
CouponsKept(R) ==
  /\ \A c \in Coupons : coupons'[c].row = "live" => coupons[c].row = "live" /\ shop[c] \notin R
  /\ \A c \in Coupons : coupons[c].row # "absent" => coupons'[c].row # "absent"
  /\ usages' \subseteq usages
  /\ \A o \in Orders : orders'[o] # NoOrder => orders[o] # NoOrder
  /\ shop' = shop

LEMMA DeleteCouponsKeep ==
  ASSUME Rows, NEW C \in SUBSET Coupons, Cou!DeleteCoupons(C), shop' = shop
  PROVE  /\ Rows'
         /\ \A c \in Coupons : coupons'[c].row = "live" => coupons[c].row = "live" /\ c \notin C
         /\ CouponsKept({})
<1>1. [Cou!Absent EXCEPT !.row = "deleted"] \in Cou!CouponRow
      /\ [Cou!Absent EXCEPT !.row = "deleted"].row = "deleted"
  BY DEF Cou!Absent, Cou!CouponRow, Cou!LimitPair, Cou!AnyLimit
<1>2. coupons' \in [Coupons -> Cou!CouponRow]
  BY <1>1 DEF Rows, Cou!DeleteCoupons
<1>3. orders' \in [Orders -> Cou!OrderRow \cup {NoOrder}]
      /\ \A o \in Orders : orders'[o] # NoOrder => orders[o] # NoOrder
  <2>1. orders' = Cou!Forgotten(C)
    BY DEF Cou!DeleteCoupons
  <2>2. ASSUME NEW o \in Orders, orders[o] # NoOrder
        PROVE  [orders[o] EXCEPT !.coupon = NoCoupon] \in Cou!OrderRow
    BY <2>2 DEF Rows, Cou!OrderRow
  <2> QED
    BY <2>1, <2>2 DEF Cou!Forgotten, Rows
<1>4. usages' \subseteq usages /\ ceiling' = ceiling
  BY DEF Cou!DeleteCoupons
<1>5. \A c \in Coupons : coupons'[c] = IF c \in C THEN [Cou!Absent EXCEPT !.row = "deleted"]
                                                  ELSE coupons[c]
  BY DEF Cou!DeleteCoupons
<1>6. Rows'
  BY <1>2, <1>3, <1>4 DEF Rows
<1>7. \A c \in Coupons : coupons'[c].row = "live" => coupons[c].row = "live" /\ c \notin C
  BY <1>1, <1>5
<1> QED
  BY <1>1, <1>3, <1>4, <1>5, <1>6, <1>7 DEF CouponsKept

LEMMA CascadeKeeps ==
  ASSUME Rows, NEW R \in SUBSET Restaurants, Cascade(R)
  PROVE  Rows' /\ CouponsKept(R)
<1>1. CouponsOf(R) \in SUBSET Coupons /\ Cou!DeleteCoupons(CouponsOf(R)) /\ shop' = shop
  BY DEF Cascade, CouponsOf
<1>2. Rows' /\ CouponsKept({})
      /\ \A c \in Coupons : coupons'[c].row = "live"
           => coupons[c].row = "live" /\ c \notin CouponsOf(R)
  BY <1>1, DeleteCouponsKeep
<1> QED
  BY <1>2 DEF CouponsKept, CouponsOf

LEMMA ManageCouponKeeps ==
  ASSUME Rows, NEW c \in Coupons, ManageCoupon(c)
  PROVE  Rows' /\ CouponsKept({})
<1>0. shop' = shop
  BY DEF ManageCoupon
<1>1. ASSUME NEW limits \in Cou!LimitPair, NEW usable \in BOOLEAN,
             Cou!UpdateCoupon(c, limits, usable)
      PROVE  Rows' /\ CouponsKept({})
  <2>1. [coupons[c] EXCEPT !.limits = limits, !.usable = usable] \in Cou!CouponRow
    BY DEF Rows, Cou!CouponRow
  <2>2. [ceiling[c] EXCEPT !.total = Cou!Higher(ceiling[c].total, limits.total),
                           !.per = Cou!Higher(ceiling[c].per, limits.per)] \in Cou!LimitPair
    BY DEF Rows, Cou!LimitPair, Cou!Higher, Cou!AnyLimit
  <2>3. coupons' \in [Coupons -> Cou!CouponRow]
    BY <1>1, <2>1 DEF Rows, Cou!UpdateCoupon
  <2>4. ceiling' \in [Coupons -> Cou!LimitPair]
    BY <1>1, <2>2 DEF Rows, Cou!UpdateCoupon, Cou!Higher, Cou!LimitPair
  <2>5. orders' = orders /\ usages' = usages
    BY <1>1 DEF Cou!UpdateCoupon
  <2>6. Rows'
    BY <1>0, <2>3, <2>4, <2>5 DEF Rows
  <2>7. \A d \in Coupons : coupons'[d].row = coupons[d].row
    BY <1>1 DEF Rows, Cou!UpdateCoupon, Cou!CouponRow
  <2> QED
    BY <1>0, <2>5, <2>6, <2>7 DEF CouponsKept
<1>2. CASE Cou!Expire(c)
  <2>1. [coupons[c] EXCEPT !.usable = FALSE] \in Cou!CouponRow
    BY DEF Rows, Cou!CouponRow
  <2>2. Rows'
    BY <1>0, <1>2, <2>1 DEF Rows, Cou!Expire
  <2>3. \A d \in Coupons : coupons'[d].row = coupons[d].row
    BY <1>2 DEF Rows, Cou!Expire, Cou!CouponRow
  <2> QED
    BY <1>0, <1>2, <2>2, <2>3 DEF CouponsKept, Cou!Expire
<1>3. CASE Cou!DeleteCoupons({c})
  BY <1>0, <1>3, DeleteCouponsKeep
<1> QED
  BY <1>1, <1>2, <1>3 DEF ManageCoupon

-----------------------------------------------------------------------------
(* The invariant *)

LEMMA ManagersPreserve ==
  ASSUME IInv, NEW R \in SUBSET Restaurants, NEW M \in SUBSET Meals,
         Desk!TypeOK', Rows', Homed', Keeps(R, M), CouponsKept(R), UNCHANGED checkouts,
         \A h \in Handlers : stage[h] \in Inserting =>
           tx[h].restaurant \notin R /\ \A m \in tx[h].items : m \notin M
  PROVE  IInv'
<1>0. Checkouts /\ Rows /\ UNCHANGED <<stage, tx>>
  BY TypeParts DEF IInv, checkouts
<1>1. TypeOK'
  BY <1>0, TypeParts DEF Checkouts, Redeeming, TypeOK, Rows
<1>2. \A h \in Handlers : Busy(h) =>
        tx[h].restaurant \in Restaurants /\ tx[h].items \subseteq Meals
        /\ tx[h].order \in Orders /\ tx[h].coupon \in Coupons \cup {NoCoupon}
  BY <1>0 DEF Checkouts, Busy, Tx
<1>3. CouponsStayHome'
  <2>1. \A c \in Coupons : coupons'[c].row = "live" =>
          shop'[c] \in Restaurants /\ Desk!Listed(shop[c])'
    BY DEF IInv, CouponsStayHome, CouponsKept, Keeps
  <2>2. \A u \in usages' : order'[u.order] # NoOrder /\ order'[u.order].at = shop'[u.coupon]
    BY <1>0 DEF IInv, CouponsStayHome, CouponsKept, Keeps, Rows, Cou!UsageRow
  <2> QED
    BY <2>1, <2>2 DEF CouponsStayHome, CouponsKept, Desk!Listed
<1>4. Claims'
  BY <1>0, <1>2 DEF IInv, Claims, Keeps, Busy
<1>5. Redeemed'
  BY DEF IInv, Redeemed, CouponsKept, Keeps
<1>6. Menus'
  BY <1>0, <1>2 DEF IInv, Menus, Keeps, Busy
<1>7. Held'
  <2> SUFFICES ASSUME NEW h \in Handlers, stage[h] \in Inserting
               PROVE  Desk!Listed(tx[h].restaurant)' /\ \A m \in tx[h].items : Desk!Served(m)'
    BY <1>0 DEF Held, Desk!Listed, Desk!Served
  <2>1. Busy(h) /\ stage[h] \notin {"idle", "ordering"}
    BY DEF Busy, Inserting
  <2>2. /\ tx[h].restaurant \in Restaurants \ R /\ Desk!Listed(tx[h].restaurant)
        /\ \A m \in tx[h].items :
             m \in Meals \ M /\ Desk!Served(m) /\ home[m] = tx[h].restaurant
    BY <1>2, <2>1 DEF IInv, Held, Menus
  <2>3. Desk!Listed(tx[h].restaurant)'
    BY <1>0, <2>2 DEF Keeps, Desk!Listed
  <2>4. \A m \in tx[h].items : Desk!Served(m)'
    BY <2>2 DEF Keeps
  <2> QED
    BY <2>3, <2>4
<1>8. Unread' /\ Homes'
  BY <1>0, <1>2 DEF IInv, Unread, Homes, CouponsKept, Busy
<1>9. Used'
  BY <1>0 DEF IInv, Used, CouponsKept, Rows, Cou!UsageRow
<1> QED
  BY <1>1, <1>3, <1>4, <1>5, <1>6, <1>7, <1>8, <1>9 DEF IInv

LEMMA CreateCouponPreserves ==
  ASSUME IInv, NEW c \in Coupons, NEW r \in Restaurants, NEW limits \in Cou!LimitPair,
         NEW usable \in BOOLEAN, CreateCoupon(c, r, limits, usable)
  PROVE  IInv'
<1>0. /\ Checkouts /\ Rows /\ Desk!TypeOK
      /\ UNCHANGED <<stage, tx, owners, restaurant, meal, home, order, managing, request>>
      /\ orders' = orders /\ usages' = usages
      /\ Desk!Listed(r) /\ coupons[c].row = "absent"
  BY TypeParts DEF IInv, CreateCoupon, Cou!CreateCoupon, catalogueRows, requests, checkouts
<1>1. /\ coupons' = [coupons EXCEPT ![c] =
           [row |-> "live", usable |-> usable, used |-> 0, limits |-> limits]]
      /\ shop' = [shop EXCEPT ![c] = r]
      /\ ceiling' = [ceiling EXCEPT ![c] = limits]
  BY DEF CreateCoupon, Cou!CreateCoupon
<1>2. TypeOK'
  <2>1. Rows'
    BY <1>0, <1>1 DEF Rows, Cou!CouponRow
  <2>2. Desk!TypeOK' /\ Checkouts'
    BY <1>0 DEF Desk!TypeOK, Checkouts, Redeeming
  <2> QED
    BY <2>1, <2>2 DEF TypeOK, Rows, Checkouts
<1>3. \A h \in Handlers : Busy(h) => tx[h].coupon \in Coupons \cup {NoCoupon}
  BY <1>0 DEF Checkouts, Busy, Tx
<1>4. \A d \in Coupons : d # c => coupons'[d] = coupons[d] /\ shop'[d] = shop[d]
  BY <1>0, <1>1 DEF Rows
<1>5. coupons'[c].row = "live" /\ shop'[c] = r
  BY <1>0, <1>1 DEF Rows
<1>6. CouponsStayHome' /\ Used'
  BY <1>0, <1>4, <1>5 DEF IInv, CouponsStayHome, Used, Rows, Cou!UsageRow, Desk!Listed
<1>7. Homes'
  BY <1>0, <1>3, <1>4 DEF IInv, Homes, Busy
<1>8. Homed' /\ Claims' /\ Redeemed' /\ Menus' /\ Held' /\ Unread'
  BY <1>0 DEF IInv, Homed, Claims, Redeemed, Menus, Held, Unread, Busy, Desk!Listed, Desk!Served
<1> QED
  BY <1>2, <1>6, <1>7, <1>8 DEF IInv

(* What a step of one checkout must show of itself. *)
Sound(h) ==
  Busy(h) =>
    /\ order[tx[h].order] = NoOrder
    /\ \A g \in Handlers \ {h} : Busy(g) => tx[g].order # tx[h].order
    /\ stage[h] # "ordering" =>
         \A m \in tx[h].items : meal[m] # "none" /\ home[m] = tx[h].restaurant
    /\ stage[h] \in Inserting =>
         Desk!Listed(tx[h].restaurant) /\ \A m \in tx[h].items : Desk!Served(m)
    /\ stage[h] \in {"ordering", "priced"} => tx[h].coupon = NoCoupon /\ tx[h].newUsed = 0
    /\ tx[h].coupon # NoCoupon =>
         shop[tx[h].coupon] = tx[h].restaurant /\ coupons[tx[h].coupon].row # "absent"

LEMMA AllSound ==
  (\A h \in Handlers : Sound(h)) <=> Claims /\ Menus /\ Held /\ Unread /\ Homes
<1>1. ASSUME \A h \in Handlers : Sound(h)
      PROVE  Claims /\ Menus /\ Held /\ Unread /\ Homes
  BY <1>1 DEF Sound, Claims, Menus, Held, Unread, Homes, Busy, Inserting
<1>2. ASSUME Claims, Menus, Held, Unread, Homes, NEW h \in Handlers
      PROVE  Sound(h)
  BY <1>2 DEF Sound, Claims, Menus, Held, Unread, Homes, Busy
<1> QED
  BY <1>1, <1>2

LEMMA Frame ==
  ASSUME TypeOK, NEW h \in Handlers, Quiet(h) \/ Commit(h)
  PROVE  \A g \in Handlers \ {h} : stage'[g] = stage[g] /\ tx'[g] = tx[g]
<1>1. Checkouts
  BY TypeParts
<1> QED
  BY <1>1 DEF Checkouts, Quiet, Commit, ReadRestaurant, ReadMeals, ReadCoupon, CountUsages,
              InsertOrder, InsertUsage, IncrementCounter, Abort, End, Goes

LEMMA QuietSound ==
  ASSUME IInv, NEW h \in Handlers, Quiet(h)
  PROVE  Sound(h)'
<1>0. /\ Checkouts /\ Sound(h)
      /\ \A g \in Handlers \ {h} : stage'[g] = stage[g] /\ tx'[g] = tx[g]
  BY TypeParts, AllSound, Frame DEF IInv
<1>1. UNCHANGED <<catalogueRows, couponRows, requests>>
  BY DEF Quiet, ReadRestaurant, ReadMeals, ReadCoupon, CountUsages, InsertOrder,
         InsertUsage, IncrementCounter, Abort, OnlyCheckout
<1>2. UNCHANGED <<order, meal, home, restaurant, shop, coupons>>
  BY <1>1 DEF catalogueRows, couponRows
<1>3. ASSUME NEW o \in Orders, NEW k \in Customers, NEW r \in Restaurants,
             NEW items \in SUBSET Meals \ {{}}, ReadRestaurant(h, o, k, r, items)
      PROVE  Sound(h)'
  <2>1. /\ stage'[h] = "ordering" /\ tx'[h].order = o
        /\ tx'[h].coupon = NoCoupon /\ tx'[h].newUsed = 0
    BY <1>0, <1>3 DEF ReadRestaurant, Goes, Checkouts
  <2>2. Unclaimed(o)
    BY <1>3 DEF ReadRestaurant
  <2> QED
    BY <1>0, <1>2, <2>1, <2>2 DEF Sound, Busy, Unclaimed, Inserting
<1>4. CASE ReadMeals(h)
  <2>1. stage[h] = "ordering" /\ stage'[h] = "priced" /\ tx' = tx
    BY <1>0, <1>4 DEF ReadMeals, Goes, Checkouts
  <2>2. \A m \in tx[h].items : meal[m] = "available" /\ home[m] = tx[h].restaurant
    BY <1>4 DEF ReadMeals
  <2> QED
    BY <1>0, <1>2, <2>1, <2>2 DEF Sound, Busy, Inserting
<1>5. ASSUME NEW c \in Coupons, ReadCoupon(h, c)
      PROVE  Sound(h)'
  <2>1. /\ stage[h] = "priced" /\ stage'[h] = "read"
        /\ coupons[c].row = "live" /\ shop[c] = tx[h].restaurant
    BY <1>0, <1>5 DEF ReadCoupon, Goes, Checkouts
  <2>2. /\ tx'[h].order = tx[h].order /\ tx'[h].items = tx[h].items
        /\ tx'[h].restaurant = tx[h].restaurant /\ tx'[h].coupon = c
    BY <1>0, <1>5, <2>1 DEF ReadCoupon, Checkouts, Tx
  <2> QED
    BY <1>0, <1>2, <2>1, <2>2 DEF Sound, Busy, Inserting
<1>6. CASE CountUsages(h)
  BY <1>0, <1>2, <1>6 DEF CountUsages, Goes, Checkouts, Sound, Busy, Inserting
<1>7. CASE InsertOrder(h)
  <2>1. /\ stage[h] \in {"priced", "cleared"} /\ stage'[h] = "ordered" /\ tx' = tx
        /\ Desk!Listed(tx[h].restaurant) /\ \A m \in tx[h].items : Desk!Served(m)
    BY <1>0, <1>7 DEF InsertOrder, Goes, Checkouts
  <2> QED
    BY <1>0, <1>2, <2>1 DEF Sound, Busy, Desk!Listed, Desk!Served
<1>8. CASE InsertUsage(h)
  <2>1. stage[h] = "ordered" /\ stage'[h] = "used" /\ tx' = tx
    BY <1>0, <1>8 DEF InsertUsage, Goes, Checkouts
  <2> QED
    BY <1>0, <1>2, <2>1 DEF Sound, Busy, Inserting, Desk!Listed, Desk!Served
<1>9. CASE IncrementCounter(h)
  <2>1. stage[h] = "used" /\ stage'[h] = "incremented"
    BY <1>0, <1>9 DEF IncrementCounter, Goes, Checkouts
  <2>2. /\ tx'[h].order = tx[h].order /\ tx'[h].items = tx[h].items
        /\ tx'[h].restaurant = tx[h].restaurant /\ tx'[h].coupon = tx[h].coupon
    BY <1>0, <1>9, <2>1 DEF IncrementCounter, Checkouts, Tx
  <2> QED
    BY <1>0, <1>2, <2>1, <2>2 DEF Sound, Busy, Inserting, Desk!Listed, Desk!Served
<1>10. CASE Abort(h)
  BY <1>0, <1>10 DEF Abort, End, Goes, Checkouts, Sound, Busy
<1> QED
  BY <1>3, <1>4, <1>5, <1>6, <1>7, <1>8, <1>9, <1>10 DEF Quiet

LEMMA QuietPreserves ==
  ASSUME IInv, NEW h \in Handlers, Quiet(h)
  PROVE  IInv'
<1>0. /\ \A g \in Handlers : Sound(g)
      /\ \A g \in Handlers \ {h} : stage'[g] = stage[g] /\ tx'[g] = tx[g]
      /\ Sound(h)'
  BY TypeParts, AllSound, Frame, QuietSound DEF IInv
<1>1. UNCHANGED <<catalogueRows, couponRows, requests>>
  BY DEF Quiet, ReadRestaurant, ReadMeals, ReadCoupon, CountUsages, InsertOrder,
         InsertUsage, IncrementCounter, Abort, OnlyCheckout
<1>2. UNCHANGED <<owners, restaurant, meal, home, order, coupons, orders, usages, shop>>
  BY <1>1 DEF catalogueRows, couponRows
<1>3. TypeOK'
  BY QuietTypes DEF IInv, TypeOK, Rows, Checkouts
<1>4. ASSUME NEW g \in Handlers \ {h}
      PROVE  Sound(g)'
  <2> SUFFICES ASSUME Busy(g)' PROVE Sound(g)'
    BY DEF Sound
  <2>1. /\ Sound(g) /\ Busy(g) /\ tx'[g] = tx[g] /\ stage'[g] = stage[g]
        /\ g \in Handlers /\ h # g
    BY <1>0 DEF Busy
  <2>2. ASSUME NEW f \in Handlers \ {g}, Busy(f)'
        PROVE  tx'[f].order # tx'[g].order
    <3>1. CASE f = h
      BY <1>0, <2>1, <2>2, <3>1 DEF Sound, Busy
    <3>2. CASE f # h
      BY <1>0, <2>1, <2>2, <3>2 DEF Sound, Busy
    <3> QED
      BY <3>1, <3>2
  <2> QED
    BY <1>2, <2>1, <2>2 DEF Sound, Busy, Desk!Listed, Desk!Served
<1>5. Claims' /\ Menus' /\ Held' /\ Unread' /\ Homes'
  <2>1. (\A g \in Handlers : Sound(g))'
    BY <1>0, <1>4
  <2> QED
    BY <2>1 DEF Sound, Claims, Menus, Held, Unread, Homes, Busy, Inserting
<1>6. Homed' /\ CouponsStayHome' /\ Redeemed' /\ Used'
  BY <1>2 DEF IInv, Homed, CouponsStayHome, Redeemed, Used, Desk!Listed, Desk!Served
<1> QED
  BY <1>3, <1>5, <1>6 DEF IInv

LEMMA CommitPreserves ==
  ASSUME IInv, NEW h \in Handlers, Commit(h)
  PROVE  IInv'
<1>0. /\ \A g \in Handlers : Sound(g)
      /\ \A g \in Handlers \ {h} : stage'[g] = stage[g] /\ tx'[g] = tx[g]
      /\ Checkouts /\ Rows /\ Desk!TypeOK
  BY TypeParts, AllSound, Frame DEF IInv
<1>1. TypeOK'
  BY CommitTypes DEF IInv, TypeOK, Rows, Checkouts
<1> DEFINE t == tx[h]
           new == [at |-> t.restaurant, items |-> t.items, active |-> TRUE]
<1>2. /\ tx[h] \in Tx /\ Busy(h) /\ stage[h] \in Inserting
      /\ UNCHANGED <<owners, restaurant, meal, home, shop>>
      /\ order' = [order EXCEPT ![t.order] = new]
      /\ stage'[h] = "idle"
  BY <1>0 DEF Commit, Place, Redeem, End, Goes, Checkouts, Busy, Inserting, couponRows
<1>3. /\ t.order \in Orders /\ order'[t.order] = new
      /\ \A o \in Orders \ {t.order} : order'[o] = order[o]
  BY <1>0, <1>2 DEF Tx, Desk!TypeOK
<1>4. new # NoOrder /\ new.at = t.restaurant
  <2>1. new \in [at : Restaurants, items : SUBSET Meals, active : BOOLEAN]
    BY <1>2 DEF Tx
  <2> QED
    BY <2>1, MarkersAssumption
<1>5. \A c \in Coupons : coupons'[c].row = coupons[c].row
  <2>1. CASE stage[h] = "ordered"
    BY <2>1 DEF Commit, couponRows
  <2>2. CASE stage[h] = "incremented"
    <3>1. coupons' = [coupons EXCEPT ![t.coupon].used = t.newUsed]
      BY <2>2 DEF Commit, Redeem
    <3> QED
      BY <1>0, <3>1 DEF Rows, Cou!CouponRow
  <2> QED
    BY <2>1, <2>2 DEF Commit
<1>6. Claims' /\ Menus' /\ Held' /\ Unread' /\ Homes'
  <2> SUFFICES ASSUME NEW g \in Handlers PROVE Sound(g)'
    BY DEF Sound, Claims, Menus, Held, Unread, Homes, Busy, Inserting
  <2> SUFFICES ASSUME Busy(g)' PROVE Sound(g)'
    BY DEF Sound
  <2>1. /\ g # h /\ Sound(g) /\ Busy(g) /\ tx'[g] = tx[g] /\ stage'[g] = stage[g]
        /\ tx[g] \in Tx
    BY <1>0, <1>2 DEF Busy, Checkouts
  <2>2. tx[g].order # t.order /\ tx[g].order \in Orders
    BY <1>0, <1>2, <2>1 DEF Sound, Tx
  <2>3. \A f \in Handlers \ {g} : Busy(f)' => tx'[f].order # tx'[g].order
    BY <1>0, <1>2, <2>1 DEF Sound, Busy
  <2>4. order'[tx'[g].order] = NoOrder
    BY <1>3, <2>1, <2>2 DEF Sound
  <2>5. tx[g].coupon # NoCoupon => coupons'[tx[g].coupon].row # "absent"
    BY <1>5, <2>1 DEF Sound, Tx
  <2> QED
    BY <1>2, <2>1, <2>3, <2>4, <2>5 DEF Sound, Busy, Desk!Listed, Desk!Served
<1>7. Redeemed' /\ Used' /\ CouponsStayHome'
  <2>1. CASE stage[h] = "ordered"
    <3>1. orders' = orders /\ usages' = usages
      BY <2>1 DEF Commit, couponRows
    <3>2. Redeemed' /\ Used'
      BY <1>0, <1>3, <1>4, <1>5, <3>1 DEF IInv, Redeemed, Used, Rows, Cou!UsageRow
    <3>3. \A u \in usages : u.order # t.order /\ u.order \in Orders
      BY <1>0, <1>2 DEF IInv, CouponsStayHome, Sound, Rows, Cou!UsageRow
    <3>4. CouponsStayHome'
      BY <1>2, <1>3, <1>5, <3>1, <3>3 DEF IInv, CouponsStayHome, Desk!Listed
    <3> QED
      BY <3>2, <3>4
  <2>2. CASE stage[h] = "incremented"
    <3> DEFINE use == [order |-> t.order, customer |-> t.customer, coupon |-> t.coupon]
    <3>1. /\ orders' = [orders EXCEPT ![t.order] =
                          [customer |-> t.customer, coupon |-> t.coupon]]
          /\ usages' = usages \cup {use}
      BY <2>2 DEF Commit, Redeem
    <3>2. /\ t.coupon \in Coupons /\ shop[t.coupon] = t.restaurant
          /\ coupons[t.coupon].row # "absent"
      BY <1>0, <1>2, <2>2, MarkersAssumption DEF Sound, Checkouts, Redeeming, Tx
    <3>3. Redeemed'
      BY <1>0, <1>3, <1>4, <3>1 DEF IInv, Redeemed, Rows
    <3>4. Used'
      BY <1>0, <1>5, <3>1, <3>2 DEF IInv, Used, Rows, Cou!UsageRow
    <3>5. \A u \in usages : u.order # t.order /\ u.order \in Orders
      BY <1>0, <1>2 DEF IInv, CouponsStayHome, Sound, Rows, Cou!UsageRow
    <3>6. \A u \in usages : order'[u.order] # NoOrder /\ order'[u.order].at = shop[u.coupon]
      BY <1>3, <3>5 DEF IInv, CouponsStayHome
    <3>7. order'[use.order] # NoOrder /\ order'[use.order].at = shop[use.coupon]
      BY <1>3, <1>4, <3>2
    <3>8. CouponsStayHome'
      BY <1>2, <1>5, <3>1, <3>6, <3>7 DEF IInv, CouponsStayHome, Desk!Listed
    <3> QED
      BY <3>3, <3>4, <3>8
  <2> QED
    BY <2>1, <2>2 DEF Commit
<1>8. Homed'
  BY <1>2 DEF IInv, Homed, Desk!Served
<1> QED
  BY <1>1, <1>6, <1>7, <1>8 DEF IInv

LEMMA InitIInv == Init => IInv
<1> SUFFICES ASSUME Init PROVE IInv
  OBVIOUS
<1>1. TypeOK
  BY InitRows, TypeParts
<1>2. CouponsStayHome /\ Redeemed /\ Used /\ Homed
  BY DEF Init, Desk!Init, Cou!Init, Cou!Absent, CouponsStayHome, Redeemed, Used, Homed, Desk!Served
<1>3. Claims /\ Menus /\ Held /\ Unread /\ Homes
  BY DEF Init, Claims, Menus, Held, Unread, Homes, Busy, Inserting
<1> QED
  BY <1>1, <1>2, <1>3 DEF IInv

LEMMA NextIInv == IInv /\ [Next]_vars => IInv'
<1> SUFFICES ASSUME IInv, [Next]_vars PROVE IInv'
  OBVIOUS
<1>0. Desk!TypeOK /\ Rows /\ Checkouts /\ Homed /\ TypeOK
  BY TypeParts DEF IInv
<1>1. ASSUME NEW h \in Handlers, CreateOrder(h) PROVE IInv'
  <2>1. Quiet(h) \/ Commit(h)
    BY <1>1 DEF CreateOrder, Quiet
  <2> QED
    BY <2>1, QuietPreserves, CommitPreserves
<1>2. ASSUME UNCHANGED couponRows, UNCHANGED checkouts
      PROVE  Rows' /\ CouponsKept({})
  BY <1>0, <1>2 DEF couponRows, Rows, CouponsKept
<1>3. CASE ManageCatalogue
  <2>1. UNCHANGED couponRows /\ UNCHANGED checkouts
    BY <1>3 DEF ManageCatalogue
  <2> QED
    BY <1>0, <1>2, <1>3, <2>1, ManageCatalogueKeeps, ManagersPreserve
<1>4. ASSUME NEW g \in Managers, NEW m \in Meals, DeleteMeal(g, m) PROVE IInv'
  <2>1. UNCHANGED couponRows /\ UNCHANGED checkouts /\ InsertingWith(m) = {}
    BY <1>4 DEF DeleteMeal
  <2>2. \A h \in Handlers : stage[h] \in Inserting =>
          tx[h].restaurant \notin {} /\ \A n \in tx[h].items : n \notin {m}
    BY <2>1 DEF InsertingWith
  <2>3. Desk!TypeOK' /\ Homed' /\ Keeps({}, {m})
    BY <1>0, <1>4, DeleteMealKeeps
  <2> QED
    BY <1>2, <2>1, <2>2, <2>3, ManagersPreserve
<1>5. ASSUME NEW R \in SUBSET Restaurants, Cascade(R), Desk!TypeOK', Homed', Keeps(R, {})
      PROVE  IInv'
  <2>1. Rows' /\ CouponsKept(R) /\ UNCHANGED checkouts
    BY <1>0, <1>5, CascadeKeeps DEF Cascade
  <2>2. \A h \in Handlers : stage[h] \in Inserting =>
          tx[h].restaurant \notin R /\ \A m \in tx[h].items : m \notin {}
    BY <1>5 DEF Cascade, InsertingAt
  <2> QED
    BY <1>5, <2>1, <2>2, ManagersPreserve
<1>6. ASSUME NEW g \in Managers, DeleteRestaurant(g) PROVE IInv'
  <2>1. /\ request[g].restaurant \in Restaurants
        /\ Desk!TypeOK' /\ Homed' /\ Keeps({request[g].restaurant}, {})
    BY <1>0, <1>6, DeleteRestaurantKeeps
  <2>2. Cascade({request[g].restaurant})
    BY <1>6 DEF DeleteRestaurant
  <2> QED
    BY <1>5, <2>1, <2>2
<1>7. ASSUME NEW u \in Owners, DeleteOwner(u) PROVE IInv'
  <2>1. /\ Desk!TypeOK' /\ Homed'
        /\ Keeps({r \in Restaurants : Owner[r] = u}, {})
    BY <1>0, <1>7, DeleteOwnerKeeps
  <2>2. Cascade({r \in Restaurants : Owner[r] = u})
    BY <1>7 DEF DeleteOwner
  <2> QED
    BY <1>5, <2>1, <2>2
<1>8. ASSUME NEW c \in Coupons, ManageCoupon(c) PROVE IInv'
  <2>1. UNCHANGED checkouts /\ UNCHANGED <<owners, restaurant, meal, home, order>>
        /\ UNCHANGED <<managing, request>>
    BY <1>8 DEF ManageCoupon, catalogueRows, requests
  <2>2. Desk!TypeOK' /\ Homed' /\ Keeps({}, {})
    BY <1>0, <2>1, SameRowsKeep DEF Desk!TypeOK
  <2> QED
    BY <1>0, <1>8, <2>1, <2>2, ManageCouponKeeps, ManagersPreserve
<1>9. ASSUME NEW c \in Coupons, NEW r \in Restaurants, NEW limits \in Cou!LimitPair,
             NEW usable \in BOOLEAN, CreateCoupon(c, r, limits, usable)
      PROVE  IInv'
  BY <1>9, CreateCouponPreserves
<1>10. CASE UNCHANGED vars
  <2>1. UNCHANGED couponRows /\ UNCHANGED checkouts
        /\ UNCHANGED <<owners, restaurant, meal, home, order>>
        /\ UNCHANGED <<managing, request>>
    BY <1>10 DEF vars, catalogueRows, requests
  <2>2. Desk!TypeOK' /\ Homed' /\ Keeps({}, {})
    BY <1>0, <2>1, SameRowsKeep DEF Desk!TypeOK
  <2> QED
    BY <1>2, <2>1, <2>2, ManagersPreserve
<1> QED
  BY <1>1, <1>3, <1>4, <1>6, <1>7, <1>8, <1>9, <1>10 DEF Next

LEMMA Invariance == Spec => []IInv
  BY InitIInv, NextIInv, PTL DEF Spec

(* Rows, requests and checkouts keep their types, through createOrder and  *)
(* the edits and deletions of restaurants, meals and coupons.              *)
THEOREM TypeCorrect == Spec => []TypeOK
<1>1. IInv => TypeOK
  BY DEF IInv
<1> QED
  BY <1>1, Invariance, PTL

(* createOrder redeems a coupon at its own restaurant only, and a coupon   *)
(* never outlives its restaurant.                                          *)
THEOREM CouponsAreLocal == Spec => []CouponsStayHome
<1>1. IInv => CouponsStayHome
  BY DEF IInv
<1> QED
  BY <1>1, Invariance, PTL

-----------------------------------------------------------------------------
(* Refinement of CouponRedemption *)

LEMMA CouponView ==
  ASSUME NEW h \in Handlers
  PROVE  /\ stage[h] \in {"idle", "ordering", "priced"} \/ tx[h].coupon = NoCoupon =>
              CouponStage[h] = "idle" /\ CouponTx[h] = NoTx
         /\ (Redeeming(h) \/ stage[h] = "ordered") /\ tx[h].coupon # NoCoupon =>
                /\ CouponStage[h] = IF stage[h] \in {"ordered", "used"} THEN "inserted" ELSE stage[h]
                /\ CouponTx[h] = [order |-> tx[h].order, customer |-> tx[h].customer,
                                  coupon |-> tx[h].coupon, per |-> tx[h].per,
                                  newUsed |-> tx[h].newUsed]
  BY DEF CouponStage, CouponTx, Redeeming

LEMMA CouponFrame ==
  ASSUME NEW h \in Handlers,
         \A g \in Handlers \ {h} : stage'[g] = stage[g] /\ tx'[g] = tx[g]
  PROVE  /\ CouponStage' = [CouponStage EXCEPT ![h] = CouponStage'[h]]
         /\ CouponTx' = [CouponTx EXCEPT ![h] = CouponTx'[h]]
<1>1. \A g \in Handlers \ {h} : CouponStage'[g] = CouponStage[g] /\ CouponTx'[g] = CouponTx[g]
  BY DEF CouponStage, CouponTx
<1>2. /\ CouponStage = [g \in Handlers |-> CouponStage[g]]
      /\ CouponStage' = [g \in Handlers |-> CouponStage'[g]]
  BY DEF CouponStage
<1>3. /\ CouponTx = [g \in Handlers |-> CouponTx[g]]
      /\ CouponTx' = [g \in Handlers |-> CouponTx'[g]]
  BY DEF CouponTx
<1> QED
  BY <1>1, <1>2, <1>3

LEMMA CouponStutter ==
  ASSUME NEW h \in Handlers,
         \A g \in Handlers \ {h} : stage'[g] = stage[g] /\ tx'[g] = tx[g],
         CouponStage'[h] = CouponStage[h], CouponTx'[h] = CouponTx[h],
         UNCHANGED <<coupons, orders, usages, ceiling>>
  PROVE  UNCHANGED Cou!vars
<1>1. CouponStage' = CouponStage /\ CouponTx' = CouponTx
  <2>1. /\ CouponStage = [g \in Handlers |-> CouponStage[g]]
        /\ CouponTx = [g \in Handlers |-> CouponTx[g]]
    BY DEF CouponStage, CouponTx
  <2> QED
    BY <2>1, CouponFrame
<1> QED
  BY <1>1 DEF Cou!vars

LEMMA SameCardinality == \A S : Cou!Cardinality(S) = Cardinality(S)
  BY DEF Cou!Cardinality, Cardinality

LEMMA QuietRefinesCoupons ==
  ASSUME IInv, NEW h \in Handlers, Quiet(h)
  PROVE  [Cou!Next]_(Cou!vars)
<1>0. /\ Checkouts /\ Rows /\ Sound(h)
      /\ \A g \in Handlers \ {h} : stage'[g] = stage[g] /\ tx'[g] = tx[g]
      /\ UNCHANGED <<coupons, orders, usages, ceiling>>
  <2>1. OnlyCheckout
    BY DEF Quiet, ReadRestaurant, ReadMeals, ReadCoupon, CountUsages, InsertOrder,
           InsertUsage, IncrementCounter, Abort
  <2> QED
    BY <2>1, TypeParts, AllSound, Frame DEF IInv, OnlyCheckout, couponRows
<1>1. /\ CouponStage' = [CouponStage EXCEPT ![h] = CouponStage'[h]]
      /\ CouponTx' = [CouponTx EXCEPT ![h] = CouponTx'[h]]
  BY <1>0, CouponFrame
<1>2. ASSUME stage[h] \in {"idle", "ordering", "priced"} \/ tx[h].coupon = NoCoupon,
             stage'[h] \in {"idle", "ordering", "priced"} \/ tx'[h].coupon = NoCoupon
      PROVE  UNCHANGED Cou!vars
  <2>1. CouponStage[h] = "idle" /\ CouponTx[h] = NoTx
    BY <1>2 DEF CouponStage, CouponTx
  <2>2. CouponStage'[h] = "idle" /\ CouponTx'[h] = NoTx
    BY <1>2 DEF CouponStage, CouponTx
  <2> QED
    BY <1>0, <2>1, <2>2, CouponStutter
<1>3. ASSUME NEW o \in Orders, NEW k \in Customers, NEW r \in Restaurants,
             NEW items \in SUBSET Meals \ {{}}, ReadRestaurant(h, o, k, r, items)
      PROVE  UNCHANGED Cou!vars
  BY <1>0, <1>2, <1>3 DEF ReadRestaurant, Goes, Checkouts
<1>4. ASSUME ReadMeals(h)
      PROVE  UNCHANGED Cou!vars
  BY <1>0, <1>2, <1>4 DEF ReadMeals, Goes, Checkouts
<1>5. ASSUME NEW c \in Coupons, ReadCoupon(h, c)
      PROVE  Cou!ReadCoupon(h, tx[h].order, tx[h].customer, c)
  <2>1. stage[h] = "priced" /\ stage'[h] = "read" /\ tx[h] \in Tx
    BY <1>0, <1>5 DEF ReadCoupon, Goes, Checkouts
  <2>2. /\ tx'[h].coupon = c /\ tx'[h].per = coupons[c].limits.per
        /\ tx'[h].order = tx[h].order /\ tx'[h].customer = tx[h].customer
        /\ tx'[h].newUsed = 0
    BY <1>0, <1>5, <2>1 DEF ReadCoupon, Checkouts, Tx, Sound, Busy
  <2>3. /\ CouponStage[h] = "idle" /\ CouponStage'[h] = "read"
        /\ CouponTx'[h] = [order |-> tx[h].order, customer |-> tx[h].customer, coupon |-> c,
                           per |-> coupons[c].limits.per, newUsed |-> 0]
    BY <2>1, <2>2, MarkersAssumption DEF CouponStage, CouponTx
  <2>4. orders[tx[h].order] = NoOrder
    BY <1>0, <2>1 DEF IInv, Redeemed, Sound, Busy, Tx
  <2>5. \A g \in Handlers : CouponStage[g] # "idle" => CouponTx[g].order # tx[h].order
    <3> SUFFICES ASSUME NEW g \in Handlers, CouponStage[g] # "idle"
                 PROVE  CouponTx[g].order # tx[h].order
      OBVIOUS
    <3>1. g # h /\ Busy(g) /\ CouponTx[g].order = tx[g].order
      BY <2>3 DEF CouponStage, CouponTx, Busy
    <3> QED
      BY <1>0, <2>1, <3>1 DEF Sound, Busy
  <2>6. coupons[c].row = "live" /\ coupons[c].usable
        /\ ~Cou!Reached(coupons[c].used, coupons[c].limits.total)
    BY <1>5 DEF ReadCoupon
  <2> QED
    BY <1>0, <1>1, <2>3, <2>4, <2>5, <2>6 DEF Cou!ReadCoupon
<1>6. ASSUME CountUsages(h)
      PROVE  Cou!CountUsages(h)
  <2>1. /\ stage[h] = "read" /\ stage'[h] = "cleared" /\ tx' = tx
        /\ tx[h] \in Tx /\ tx[h].coupon # NoCoupon
    BY <1>0, <1>6 DEF CountUsages, Goes, Checkouts, Redeeming
  <2>2. /\ CouponStage[h] = "read" /\ CouponStage'[h] = "cleared"
        /\ CouponTx'[h] = CouponTx[h]
        /\ CouponTx[h].coupon = tx[h].coupon /\ CouponTx[h].customer = tx[h].customer
        /\ CouponTx[h].per = tx[h].per
    BY <2>1 DEF CouponStage, CouponTx
  <2>3. CouponTx' = CouponTx
    BY <1>1, <2>2 DEF CouponTx
  <2>4. ~Cou!Reached(Cardinality(Cou!RedemptionsBy(tx[h].coupon, tx[h].customer)), tx[h].per)
    BY <1>6 DEF CountUsages
  <2>5. Cou!RedemptionsBy(CouponTx[h].coupon, CouponTx[h].customer)
          = Cou!RedemptionsBy(tx[h].coupon, tx[h].customer)
    BY <2>2
  <2>6. ~Cou!Reached(Cardinality(Cou!RedemptionsBy(CouponTx[h].coupon, CouponTx[h].customer)),
                     CouponTx[h].per)
    BY <2>2, <2>4, <2>5
  <2>7. CouponStage' = [CouponStage EXCEPT ![h] = "cleared"]
    BY <1>1, <2>2
  <2> QED
    BY <1>0, <2>2, <2>3, <2>6, <2>7, SameCardinality DEF Cou!CountUsages
<1>7. ASSUME InsertOrder(h)
      PROVE  Cou!InsertRows(h) \/ UNCHANGED Cou!vars
  <2>1. stage'[h] = "ordered" /\ tx' = tx
    BY <1>0, <1>7 DEF InsertOrder, Goes, Checkouts
  <2>2. CASE stage[h] = "priced"
    BY <1>0, <1>2, <2>1, <2>2 DEF Sound, Busy
  <2>3. CASE stage[h] = "cleared" /\ coupons[tx[h].coupon].row = "live"
    <3>1. tx[h].coupon # NoCoupon
      BY <1>0, <2>3 DEF Checkouts, Redeeming
    <3>2. /\ CouponStage[h] = "cleared" /\ CouponStage'[h] = "inserted"
          /\ CouponTx'[h] = CouponTx[h] /\ CouponTx[h].coupon = tx[h].coupon
      BY <2>1, <2>3, <3>1 DEF CouponStage, CouponTx
    <3>3. CouponTx' = CouponTx
      BY <1>1, <3>2 DEF CouponTx
    <3> QED
      BY <1>0, <1>1, <2>3, <3>2, <3>3 DEF Cou!InsertRows
  <2> QED
    BY <1>7, <2>2, <2>3 DEF InsertOrder
<1>8. ASSUME InsertUsage(h)
      PROVE  UNCHANGED Cou!vars
  <2>1. stage[h] = "ordered" /\ stage'[h] = "used" /\ tx' = tx /\ tx[h].coupon # NoCoupon
    BY <1>0, <1>8 DEF InsertUsage, Goes, Checkouts
  <2>2. CouponStage'[h] = CouponStage[h] /\ CouponTx'[h] = CouponTx[h]
    BY <2>1 DEF CouponStage, CouponTx
  <2> QED
    BY <1>0, <2>2, CouponStutter
<1>9. ASSUME IncrementCounter(h)
      PROVE  Cou!IncrementCounter(h)
  <2>1. /\ stage[h] = "used" /\ stage'[h] = "incremented"
        /\ tx[h] \in Tx /\ tx[h].coupon # NoCoupon
        /\ ~Cou!RowLocked(tx[h].coupon)
    BY <1>0, <1>9 DEF IncrementCounter, Goes, Checkouts, Redeeming
  <2>2. /\ tx'[h].newUsed = coupons[tx[h].coupon].used + 1
        /\ tx'[h].order = tx[h].order /\ tx'[h].customer = tx[h].customer
        /\ tx'[h].coupon = tx[h].coupon /\ tx'[h].per = tx[h].per
    BY <1>0, <1>9, <2>1 DEF IncrementCounter, Checkouts, Tx
  <2>3. /\ CouponStage[h] = "inserted" /\ CouponStage'[h] = "incremented"
        /\ CouponTx[h].coupon = tx[h].coupon
        /\ CouponTx'[h] = [CouponTx[h] EXCEPT !.newUsed = coupons[tx[h].coupon].used + 1]
    BY <2>1, <2>2 DEF CouponStage, CouponTx
  <2> QED
    BY <1>0, <1>1, <2>1, <2>3 DEF Cou!IncrementCounter
<1>10. ASSUME Abort(h)
       PROVE  Cou!Abort(h) \/ UNCHANGED Cou!vars
  <2>1. stage'[h] = "idle" /\ tx'[h] = NoTx
    BY <1>0, <1>10 DEF Abort, End, Goes, Checkouts
  <2>2. CouponStage'[h] = "idle" /\ CouponTx'[h] = NoTx
    BY <2>1 DEF CouponStage, CouponTx
  <2>3. CASE CouponStage[h] = "idle"
    <3>1. CouponTx[h] = NoTx
      BY <2>3 DEF CouponTx
    <3> QED
      BY <1>0, <2>2, <2>3, <3>1, CouponStutter
  <2>4. CASE CouponStage[h] # "idle"
    BY <1>0, <1>1, <2>2, <2>4 DEF Cou!Abort
  <2> QED
    BY <2>3, <2>4
<1>11. \/ tx[h].order \in Orders /\ tx[h].customer \in Customers
       \/ \A c \in Coupons : ~ReadCoupon(h, c)
  BY <1>0 DEF ReadCoupon, Checkouts, Tx
<1>12. Cou!Checkout(h) \/ UNCHANGED Cou!vars
  BY <1>3, <1>4, <1>5, <1>6, <1>7, <1>8, <1>9, <1>10, <1>11 DEF Quiet, Cou!Checkout
<1> QED
  BY <1>12 DEF Cou!Next

LEMMA CommitRefinesCoupons ==
  ASSUME IInv, NEW h \in Handlers, Commit(h)
  PROVE  [Cou!Next]_(Cou!vars)
<1>0. /\ Checkouts
      /\ \A g \in Handlers \ {h} : stage'[g] = stage[g] /\ tx'[g] = tx[g]
      /\ stage'[h] = "idle" /\ tx'[h] = NoTx
  BY TypeParts, Frame DEF IInv, Commit, End, Goes, Checkouts
<1>1. CouponStage'[h] = "idle" /\ CouponTx'[h] = NoTx
  BY <1>0 DEF CouponStage, CouponTx
<1>2. CASE stage[h] = "ordered" /\ tx[h].coupon = NoCoupon /\ UNCHANGED couponRows
  <2>1. CouponStage[h] = "idle" /\ CouponTx[h] = NoTx
    BY <1>2 DEF CouponStage, CouponTx
  <2> QED
    BY <1>0, <1>1, <1>2, <2>1, CouponStutter DEF couponRows
<1>3. CASE stage[h] = "incremented" /\ Redeem(tx[h])
  <2>1. tx[h].coupon # NoCoupon
    BY <1>0, <1>3 DEF Checkouts, Redeeming
  <2>2. /\ CouponStage[h] = "incremented"
        /\ CouponTx[h].coupon = tx[h].coupon /\ CouponTx[h].order = tx[h].order
        /\ CouponTx[h].customer = tx[h].customer /\ CouponTx[h].newUsed = tx[h].newUsed
    BY <1>3, <2>1 DEF CouponStage, CouponTx
  <2>3. Cou!Commit(h)
    BY <1>0, <1>1, <1>3, <2>2, CouponFrame DEF Redeem, Cou!Commit
  <2> QED
    BY <2>3 DEF Cou!Next, Cou!Checkout
<1> QED
  BY <1>2, <1>3 DEF Commit

LEMMA StepRefinesCoupons == IInv /\ [Next]_vars => [Cou!Next]_(Cou!vars)
<1> SUFFICES ASSUME IInv, [Next]_vars PROVE [Cou!Next]_(Cou!vars)
  OBVIOUS
<1>1. ASSUME NEW h \in Handlers, CreateOrder(h) PROVE [Cou!Next]_(Cou!vars)
  <2>1. Quiet(h) \/ Commit(h)
    BY <1>1 DEF CreateOrder, Quiet
  <2> QED
    BY <2>1, QuietRefinesCoupons, CommitRefinesCoupons
<1>2. ASSUME UNCHANGED couponRows, UNCHANGED checkouts
      PROVE  UNCHANGED Cou!vars
  BY <1>2 DEF couponRows, checkouts, Cou!vars, CouponStage, CouponTx
<1>3. ASSUME NEW R, Cascade(R) PROVE Cou!Next
  <2>1. CouponsOf(R) \in SUBSET Coupons /\ Cou!DeleteCoupons(CouponsOf(R))
    BY <1>3 DEF Cascade, CouponsOf
  <2> QED
    BY <2>1 DEF Cou!Next
<1>4. ASSUME NEW c \in Coupons, ManageCoupon(c) PROVE Cou!Next
  BY <1>4 DEF ManageCoupon, Cou!Next, Cou!Manage
<1>5. ASSUME NEW c \in Coupons, NEW r \in Restaurants, NEW limits \in Cou!LimitPair,
             NEW usable \in BOOLEAN, CreateCoupon(c, r, limits, usable)
      PROVE  Cou!Next
  BY <1>5 DEF CreateCoupon, Cou!Next, Cou!Manage
<1> QED
  BY <1>1, <1>2, <1>3, <1>4, <1>5
  DEF Next, vars, ManageCatalogue, DeleteMeal, DeleteRestaurant, DeleteOwner

(* The joint program, with orders that redeem nothing and with coupons     *)
(* that go with their restaurant, is a checkout of CouponRedemption: what  *)
(* holds of that module's behaviours holds here.                           *)
THEOREM RefinesCoupons == Spec => ImplementsCoupons
<1>1. Init => Cou!Init
  BY DEF Init
<1>2. IInv /\ [Next]_vars => [Cou!Next]_(Cou!vars)
  BY StepRefinesCoupons
<1> QED
  BY <1>1, <1>2, Invariance, PTL DEF Spec, ImplementsCoupons, Cou!Spec

-----------------------------------------------------------------------------
(* Refinement of Catalogue *)

LEMMA CatalogueFrame ==
  ASSUME NEW h \in Handlers, UNCHANGED requests,
         \A g \in Handlers \ {h} : stage'[g] = stage[g] /\ tx'[g] = tx[g]
  PROVE  /\ CatalogueStage' = [CatalogueStage EXCEPT ![h] = CatalogueStage'[h]]
         /\ CatalogueRequest' = [CatalogueRequest EXCEPT ![h] = CatalogueRequest'[h]]
<1>1. \A g \in (Managers \cup Handlers) \ {h} :
        CatalogueStage'[g] = CatalogueStage[g] /\ CatalogueRequest'[g] = CatalogueRequest[g]
  BY DEF CatalogueStage, CatalogueRequest, requests
<1>2. /\ CatalogueStage = [g \in Managers \cup Handlers |-> CatalogueStage[g]]
      /\ CatalogueStage' = [g \in Managers \cup Handlers |-> CatalogueStage'[g]]
  BY DEF CatalogueStage
<1>3. /\ CatalogueRequest = [g \in Managers \cup Handlers |-> CatalogueRequest[g]]
      /\ CatalogueRequest' = [g \in Managers \cup Handlers |-> CatalogueRequest'[g]]
  BY DEF CatalogueRequest
<1> QED
  BY <1>1, <1>2, <1>3

LEMMA SameView ==
  ASSUME UNCHANGED requests, UNCHANGED checkouts
  PROVE  UNCHANGED <<CatalogueStage, CatalogueRequest>>
  BY DEF requests, checkouts, CatalogueStage, CatalogueRequest

(* A manager's request goes from one stage to another. *)
LEMMA ManagerView ==
  ASSUME NEW g \in Managers, NEW s, NEW q, UNCHANGED checkouts,
         DOMAIN managing = Managers, DOMAIN request = Managers,
         managing' = [managing EXCEPT ![g] = s], request' = [request EXCEPT ![g] = q]
  PROVE  /\ CatalogueStage[g] = managing[g] /\ CatalogueRequest[g] = request[g]
         /\ CatalogueStage' = [CatalogueStage EXCEPT ![g] = s]
         /\ CatalogueRequest' = [CatalogueRequest EXCEPT ![g] = q]
<1>1. CatalogueStage[g] = managing[g] /\ CatalogueRequest[g] = request[g]
  BY DEF CatalogueStage, CatalogueRequest
<1>2. /\ managing'[g] = s /\ request'[g] = q
      /\ \A f \in Managers \ {g} : managing'[f] = managing[f] /\ request'[f] = request[f]
  OBVIOUS
<1>3. CatalogueStage' = [CatalogueStage EXCEPT ![g] = s]
  BY <1>2 DEF CatalogueStage, checkouts
<1>4. CatalogueRequest' = [CatalogueRequest EXCEPT ![g] = q]
  BY <1>2 DEF CatalogueRequest, checkouts
<1> QED
  BY <1>1, <1>3, <1>4

LEMMA SameRows ==
  /\ \A r : Cat!Listed(r) <=> Desk!Listed(r)
  /\ \A m : Cat!Served(m) <=> Desk!Served(m)
  /\ \A r : Cat!OrdersAt(r) = Desk!OrdersAt(r)
  /\ \A m : Cat!OrdersWith(m) = Desk!OrdersWith(m)
  /\ \A S : Cat!Active(S) = Desk!Active(S)
  /\ \A r : Cat!Unordered(r) <=> Desk!Unordered(r)
  BY DEF Cat!Listed, Desk!Listed, Cat!Served, Desk!Served, Cat!OrdersAt, Desk!OrdersAt,
         Cat!OrdersWith, Desk!OrdersWith, Cat!Active, Desk!Active, Cat!Unordered,
         Desk!Unordered, Cat!Placed, Desk!Placed, Cat!MenuOf, Desk!MenuOf

LEMMA ManagersRefineCatalogue ==
  ASSUME Desk!TypeOK, UNCHANGED checkouts
  PROVE  /\ \A g \in Managers : \A s, r, items : Desk!Begin(g, s, r, items) => Cat!Begin(g, s, r, items)
         /\ \A g \in Managers : Desk!End(g) => Cat!End(g)
         /\ \A g \in Managers : /\ CatalogueStage[g] = managing[g]
                                /\ CatalogueRequest[g] = request[g]
<1>0. DOMAIN managing = Managers /\ DOMAIN request = Managers
  BY DEF Desk!TypeOK
<1>1. ASSUME NEW g \in Managers, NEW s, NEW r, NEW items, Desk!Begin(g, s, r, items)
      PROVE  Cat!Begin(g, s, r, items)
  <2> DEFINE q == [restaurant |-> r, items |-> items]
  <2>1. /\ managing[g] = "idle"
        /\ managing' = [managing EXCEPT ![g] = s] /\ request' = [request EXCEPT ![g] = q]
    BY <1>1 DEF Desk!Begin
  <2> HIDE DEF q
  <2>2. /\ CatalogueStage[g] = managing[g]
        /\ CatalogueStage' = [CatalogueStage EXCEPT ![g] = s]
        /\ CatalogueRequest' = [CatalogueRequest EXCEPT ![g] = q]
    BY <1>0, <2>1, ManagerView
  <2> QED
    BY <2>1, <2>2 DEF Cat!Begin, q
<1>2. ASSUME NEW g \in Managers, Desk!End(g)
      PROVE  Cat!End(g)
  BY <1>0, <1>2, ManagerView DEF Desk!End, Cat!End
<1>3. ASSUME NEW g \in Managers
      PROVE  CatalogueStage[g] = managing[g] /\ CatalogueRequest[g] = request[g]
  BY <1>3 DEF CatalogueStage, CatalogueRequest
<1> QED
  BY <1>1, <1>2, <1>3

LEMMA DeletionsRefineCatalogue ==
  ASSUME Desk!TypeOK, UNCHANGED checkouts
  PROVE  /\ \A g \in Managers, m \in Meals : Desk!DeleteMeal(g, m) => Cat!Next
         /\ \A g \in Managers : Desk!DeleteRestaurant(g) => Cat!Next
         /\ \A u \in Owners : Desk!DeleteOwner(u) => Cat!Next
<1>1. ASSUME NEW g \in Managers, NEW m \in Meals, Desk!DeleteMeal(g, m)
      PROVE  Cat!Next
  <2>1. Cat!DeleteMeal(g, m)
    BY <1>1, ManagersRefineCatalogue, SameRows DEF Desk!DeleteMeal, Cat!DeleteMeal
  <2> QED
    BY <2>1 DEF Cat!Next, Cat!Handle
<1>2. ASSUME NEW g \in Managers, Desk!DeleteRestaurant(g)
      PROVE  Cat!Next
  <2>1. Cat!DeleteRestaurant(g)
    BY <1>2, ManagersRefineCatalogue, SameRows
    DEF Desk!DeleteRestaurant, Cat!DeleteRestaurant, Desk!Drop, Cat!Drop
  <2> QED
    BY <2>1 DEF Cat!Next, Cat!Handle
<1>3. ASSUME NEW u \in Owners, Desk!DeleteOwner(u)
      PROVE  Cat!Next
  <2>1. Cat!DeleteOwner(u)
    BY <1>3, SameView, SameRows
    DEF Desk!DeleteOwner, Cat!DeleteOwner, Desk!Drop, Cat!Drop, requests
  <2> QED
    BY <2>1 DEF Cat!Next
<1> QED
  BY <1>1, <1>2, <1>3

LEMMA ManageCatalogueRefinesCatalogue ==
  ASSUME Desk!TypeOK, ManageCatalogue
  PROVE  Cat!Next
<1>0. /\ UNCHANGED checkouts
      /\ \A g \in Managers : \A s, r, items : Desk!Begin(g, s, r, items) => Cat!Begin(g, s, r, items)
      /\ \A g \in Managers : Desk!End(g) => Cat!End(g)
      /\ \A g \in Managers : /\ CatalogueStage[g] = managing[g]
                             /\ CatalogueRequest[g] = request[g]
  BY ManagersRefineCatalogue DEF ManageCatalogue
<1>1. ASSUME NEW r \in Restaurants, Desk!CreateRestaurant(r) PROVE Cat!CreateRestaurant(r)
  BY <1>0, <1>1, SameView DEF Desk!CreateRestaurant, Cat!CreateRestaurant, requests
<1>2. ASSUME NEW r \in Restaurants, NEW standing, Desk!BlockRestaurant(r, standing)
      PROVE  Cat!BlockRestaurant(r, standing)
  BY <1>0, <1>2, SameView, SameRows DEF Desk!BlockRestaurant, Cat!BlockRestaurant, requests
<1>3. ASSUME NEW m \in Meals, NEW standing, Desk!UpdateMeal(m, standing)
      PROVE  Cat!UpdateMeal(m, standing)
  BY <1>0, <1>3, SameView, SameRows DEF Desk!UpdateMeal, Cat!UpdateMeal, requests
<1>4. ASSUME NEW o \in Orders, Desk!ChangeStatus(o) PROVE Cat!ChangeStatus(o)
  BY <1>0, <1>4, SameView DEF Desk!ChangeStatus, Cat!ChangeStatus, requests
<1>5. ASSUME NEW g \in Managers, NEW r \in Restaurants, Desk!VerifyRestaurant(g, r)
      PROVE  Cat!VerifyRestaurant(g, r)
  BY <1>0, <1>5, SameRows DEF Desk!VerifyRestaurant, Cat!VerifyRestaurant, Desk!rows, Cat!rows
<1>6. ASSUME NEW g \in Managers, NEW r \in Restaurants, Desk!CountOrders(g, r)
      PROVE  Cat!CountOrders(g, r)
  BY <1>0, <1>6, SameRows DEF Desk!CountOrders, Cat!CountOrders, Desk!rows, Cat!rows
<1>7. ASSUME NEW g \in Managers, NEW m \in Meals, Desk!CreateMeal(g, m)
      PROVE  Cat!CreateMeal(g, m)
  BY <1>0, <1>7, SameRows DEF Desk!CreateMeal, Cat!CreateMeal
<1>8. ASSUME NEW g \in Managers, NEW m \in Meals, Desk!CountItems(g, m)
      PROVE  Cat!CountItems(g, m)
  BY <1>0, <1>8, SameRows DEF Desk!CountItems, Cat!CountItems, Desk!rows, Cat!rows
<1>9. ASSUME NEW g \in Managers, Desk!Refuse(g) PROVE Cat!Refuse(g)
  <2>1. /\ CatalogueStage' = [CatalogueStage EXCEPT ![g] = "refused"]
        /\ CatalogueRequest' = CatalogueRequest
    <3>1. managing' = [managing EXCEPT ![g] = "refused"] /\ request' = request
      BY <1>9 DEF Desk!Refuse
    <3>2. managing'[g] = "refused" /\ \A f \in Managers \ {g} : managing'[f] = managing[f]
      BY <3>1 DEF Desk!TypeOK
    <3> QED
      BY <1>0, <3>1, <3>2 DEF CatalogueStage, CatalogueRequest, checkouts
  <2> QED
    BY <1>0, <1>9, <2>1, SameRows DEF Desk!Refuse, Cat!Refuse, Desk!rows, Cat!rows
<1>10. ASSUME NEW g \in Managers, Desk!Fail(g) PROVE Cat!Fail(g)
  BY <1>0, <1>10 DEF Desk!Fail, Cat!Fail, Desk!rows, Cat!rows
<1> QED
  BY <1>1, <1>2, <1>3, <1>4, <1>5, <1>6, <1>7, <1>8, <1>9, <1>10
  DEF ManageCatalogue, Cat!Next, Cat!Handle

LEMMA CheckoutView ==
  ASSUME NEW h \in Handlers
  PROVE  /\ CatalogueStage[h] = IF stage[h] \in {"idle", "ordering"} THEN stage[h] ELSE "priced"
         /\ CatalogueRequest[h] =
              IF stage[h] = "idle" THEN NoRequest
              ELSE [restaurant |-> tx[h].restaurant, items |-> tx[h].items]
  BY HandlersAssumption DEF CatalogueStage, CatalogueRequest

LEMMA CheckoutViewNext ==
  ASSUME NEW h \in Handlers
  PROVE  /\ CatalogueStage'[h] = IF stage'[h] \in {"idle", "ordering"} THEN stage'[h] ELSE "priced"
         /\ CatalogueRequest'[h] =
              IF stage'[h] = "idle" THEN NoRequest
              ELSE [restaurant |-> tx'[h].restaurant, items |-> tx'[h].items]
  BY HandlersAssumption DEF CatalogueStage, CatalogueRequest

LEMMA QuietRefinesCatalogue ==
  ASSUME IInv, NEW h \in Handlers, Quiet(h)
  PROVE  [Cat!Next]_(Cat!vars)
<1>0. /\ Checkouts
      /\ \A g \in Handlers \ {h} : stage'[g] = stage[g] /\ tx'[g] = tx[g]
      /\ UNCHANGED Cat!rows /\ UNCHANGED requests
  <2>1. OnlyCheckout
    BY DEF Quiet, ReadRestaurant, ReadMeals, ReadCoupon, CountUsages, InsertOrder,
           InsertUsage, IncrementCounter, Abort
  <2> QED
    BY <2>1, TypeParts, Frame DEF IInv, OnlyCheckout, catalogueRows, Cat!rows
<1>1. /\ CatalogueStage' = [CatalogueStage EXCEPT ![h] = CatalogueStage'[h]]
      /\ CatalogueRequest' = [CatalogueRequest EXCEPT ![h] = CatalogueRequest'[h]]
  BY <1>0, CatalogueFrame
<1>2. h \in Managers \cup Handlers
  OBVIOUS
<1>3. ASSUME NEW o \in Orders, NEW k \in Customers, NEW r \in Restaurants,
             NEW items \in SUBSET Meals \ {{}}, ReadRestaurant(h, o, k, r, items)
      PROVE  Cat!Next
  <2>1. /\ stage[h] = "idle" /\ stage'[h] = "ordering" /\ restaurant[r] = "open"
        /\ tx'[h].restaurant = r /\ tx'[h].items = items
    BY <1>0, <1>3 DEF ReadRestaurant, Goes, Checkouts
  <2>2. /\ CatalogueStage[h] = "idle" /\ CatalogueStage'[h] = "ordering"
        /\ CatalogueRequest'[h] = [restaurant |-> r, items |-> items]
    BY <2>1, CheckoutView, CheckoutViewNext
  <2>3. Cat!ReadRestaurant(h, r, items)
    BY <1>0, <1>1, <2>1, <2>2 DEF Cat!ReadRestaurant, Cat!Begin
  <2> QED
    BY <1>2, <2>3 DEF Cat!Next, Cat!Handle
<1>4. ASSUME ReadMeals(h)
      PROVE  Cat!Next
  <2>1. /\ stage[h] = "ordering" /\ stage'[h] = "priced" /\ tx'[h] = tx[h]
        /\ \A m \in tx[h].items : meal[m] = "available" /\ home[m] = tx[h].restaurant
    BY <1>0, <1>4 DEF ReadMeals, Goes, Checkouts
  <2>2. /\ CatalogueStage[h] = "ordering" /\ CatalogueStage'[h] = "priced"
        /\ CatalogueRequest'[h] = CatalogueRequest[h]
        /\ CatalogueRequest[h] = [restaurant |-> tx[h].restaurant, items |-> tx[h].items]
    BY <2>1, CheckoutView, CheckoutViewNext
  <2>3. CatalogueRequest' = CatalogueRequest
    BY <1>1, <2>2 DEF CatalogueRequest
  <2>4. Cat!ReadMeals(h)
    BY <1>0, <1>1, <2>1, <2>2, <2>3 DEF Cat!ReadMeals
  <2> QED
    BY <1>2, <2>4 DEF Cat!Next, Cat!Handle
<1>5. ASSUME stage[h] \notin {"idle", "ordering"}, stage'[h] \notin {"idle", "ordering"},
             tx'[h].restaurant = tx[h].restaurant, tx'[h].items = tx[h].items
      PROVE  UNCHANGED Cat!vars
  <2>1. CatalogueStage'[h] = CatalogueStage[h] /\ CatalogueRequest'[h] = CatalogueRequest[h]
    BY <1>5, CheckoutView, CheckoutViewNext
  <2>2. CatalogueStage' = CatalogueStage /\ CatalogueRequest' = CatalogueRequest
    BY <1>1, <2>1 DEF CatalogueStage, CatalogueRequest
  <2> QED
    BY <1>0, <2>2 DEF Cat!vars, Cat!rows
<1>6. ASSUME NEW c \in Coupons, ReadCoupon(h, c)
      PROVE  UNCHANGED Cat!vars
  <2>1. /\ stage[h] = "priced" /\ stage'[h] = "read"
        /\ tx'[h].restaurant = tx[h].restaurant /\ tx'[h].items = tx[h].items
    BY <1>0, <1>6 DEF ReadCoupon, Goes, Checkouts, Tx
  <2> QED
    BY <1>5, <2>1
<1>7. ASSUME CountUsages(h) \/ InsertOrder(h) \/ InsertUsage(h)
      PROVE  UNCHANGED Cat!vars
  <2>1. /\ stage[h] \in {"read", "priced", "cleared", "ordered"}
        /\ stage'[h] \in {"cleared", "ordered", "used"} /\ tx' = tx
    BY <1>0, <1>7 DEF CountUsages, InsertOrder, InsertUsage, Goes, Checkouts
  <2> QED
    BY <1>5, <2>1
<1>8. ASSUME IncrementCounter(h)
      PROVE  UNCHANGED Cat!vars
  <2>1. /\ stage[h] = "used" /\ stage'[h] = "incremented"
        /\ tx'[h].restaurant = tx[h].restaurant /\ tx'[h].items = tx[h].items
    BY <1>0, <1>8 DEF IncrementCounter, Goes, Checkouts, Tx
  <2> QED
    BY <1>5, <2>1
<1>9. ASSUME Abort(h)
      PROVE  Cat!Next
  <2>1. stage[h] # "idle" /\ stage'[h] = "idle"
    BY <1>0, <1>9 DEF Abort, End, Goes, Checkouts
  <2>2. /\ CatalogueStage[h] # "idle" /\ CatalogueStage'[h] = "idle"
        /\ CatalogueRequest'[h] = NoRequest
    BY <2>1, CheckoutView, CheckoutViewNext
  <2>3. Cat!Fail(h)
    BY <1>0, <1>1, <2>2 DEF Cat!Fail, Cat!End
  <2> QED
    BY <1>2, <2>3 DEF Cat!Next, Cat!Handle
<1> QED
  BY <1>3, <1>4, <1>6, <1>7, <1>8, <1>9 DEF Quiet

LEMMA CommitRefinesCatalogue ==
  ASSUME IInv, NEW h \in Handlers, Commit(h)
  PROVE  Cat!Next
<1>0. /\ Checkouts /\ Sound(h)
      /\ \A g \in Handlers \ {h} : stage'[g] = stage[g] /\ tx'[g] = tx[g]
      /\ UNCHANGED <<owners, restaurant, meal, home>> /\ UNCHANGED requests
  BY TypeParts, AllSound, Frame DEF IInv, Commit
<1>1. stage[h] \in Inserting /\ Busy(h) /\ tx[h] \in Tx /\ stage'[h] = "idle"
      /\ stage[h] \notin {"idle", "ordering"}
  BY <1>0 DEF Commit, End, Goes, Checkouts, Inserting, Busy
<1>2. /\ CatalogueStage[h] = "priced" /\ CatalogueStage'[h] = "idle"
      /\ CatalogueRequest[h] = [restaurant |-> tx[h].restaurant, items |-> tx[h].items]
      /\ CatalogueRequest'[h] = NoRequest
  BY <1>1, CheckoutView, CheckoutViewNext
<1>3. Cat!End(h)
  BY <1>0, <1>2, CatalogueFrame DEF Cat!End
<1>4. /\ order[tx[h].order] = NoOrder /\ tx[h].order \in Orders
      /\ Cat!Listed(tx[h].restaurant) /\ \A m \in tx[h].items : Cat!Served(m)
  BY <1>0, <1>1, SameRows DEF Sound, Tx
<1>5. order' = [order EXCEPT ![tx[h].order] =
                  [at |-> tx[h].restaurant, items |-> tx[h].items, active |-> TRUE]]
  BY DEF Commit, Place
<1>6. Cat!PlaceOrder(h, tx[h].order)
  BY <1>0, <1>2, <1>3, <1>4, <1>5 DEF Cat!PlaceOrder
<1> QED
  BY <1>4, <1>6 DEF Cat!Next, Cat!Handle

LEMMA StepRefinesCatalogue == IInv /\ [Next]_vars => [Cat!Next]_(Cat!vars)
<1> SUFFICES ASSUME IInv, [Next]_vars PROVE [Cat!Next]_(Cat!vars)
  OBVIOUS
<1>0. Desk!TypeOK
  BY TypeParts DEF IInv
<1>1. ASSUME NEW h \in Handlers, CreateOrder(h) PROVE [Cat!Next]_(Cat!vars)
  <2>1. Quiet(h) \/ Commit(h)
    BY <1>1 DEF CreateOrder, Quiet
  <2> QED
    BY <2>1, QuietRefinesCatalogue, CommitRefinesCatalogue
<1>2. ASSUME ManageCatalogue PROVE Cat!Next
  BY <1>0, <1>2, ManageCatalogueRefinesCatalogue
<1>3. ASSUME NEW g \in Managers, NEW m \in Meals, DeleteMeal(g, m) PROVE Cat!Next
  BY <1>0, <1>3, DeletionsRefineCatalogue DEF DeleteMeal
<1>4. ASSUME NEW g \in Managers, DeleteRestaurant(g) PROVE Cat!Next
  BY <1>0, <1>4, DeletionsRefineCatalogue DEF DeleteRestaurant, Cascade
<1>5. ASSUME NEW u \in Owners, DeleteOwner(u) PROVE Cat!Next
  BY <1>0, <1>5, DeletionsRefineCatalogue DEF DeleteOwner, Cascade
<1>6. ASSUME UNCHANGED catalogueRows, UNCHANGED requests, UNCHANGED checkouts
      PROVE  UNCHANGED Cat!vars
  BY <1>6, SameView DEF Cat!vars, catalogueRows
<1>7. ASSUME NEW c \in Coupons,
             ManageCoupon(c) \/ \E r \in Restaurants, limits \in Cou!LimitPair,
                                   usable \in BOOLEAN : CreateCoupon(c, r, limits, usable)
      PROVE  UNCHANGED Cat!vars
  BY <1>6, <1>7 DEF ManageCoupon, CreateCoupon
<1>8. CASE UNCHANGED vars
  BY <1>6, <1>8 DEF vars
<1> QED
  BY <1>1, <1>2, <1>3, <1>4, <1>5, <1>7, <1>8 DEF Next

(* createOrder with all its statements, coupons included, places an order  *)
(* as Catalogue does in one step: what it read of the restaurant and the   *)
(* meals is still there when it commits.                                   *)
THEOREM RefinesCatalogue == Spec => ImplementsCatalogue
<1>1. Init => Cat!Init
  BY HandlersAssumption DEF Init, Desk!Init, Cat!Init, CatalogueStage, CatalogueRequest
<1>2. IInv /\ [Next]_vars => [Cat!Next]_(Cat!vars)
  BY StepRefinesCatalogue
<1> QED
  BY <1>1, <1>2, Invariance, PTL DEF Spec, ImplementsCatalogue, Cat!Spec

-----------------------------------------------------------------------------
(* What is proved of the two modules, of the transaction seen through the  *)
(* mappings.  CatTheorems and CouTheorems are Cat and Cou once more, with  *)
(* the theorems about them; their definitions agree when expanded.         *)

CatTheorems == INSTANCE Catalogue_proofs WITH
                 Handlers <- Managers \cup Handlers,
                 stage <- CatalogueStage, req <- CatalogueRequest

CouTheorems == INSTANCE CouponRedemption_proofs WITH stage <- CouponStage, tx <- CouponTx

LEMMA SameCatalogue == ImplementsCatalogue => CatTheorems!Spec
<1>1. Cat!Init => CatTheorems!Init
  BY Zenon DEF Cat!Init, CatTheorems!Init
<1>2. Cat!Next => CatTheorems!Next
  BY Zenon DEF Cat!Next, Cat!Handle, Cat!VerifyRestaurant, Cat!CountOrders, Cat!ReadRestaurant,
    Cat!CreateMeal, Cat!CountItems, Cat!DeleteMeal, Cat!PlaceOrder, Cat!DeleteRestaurant,
    Cat!Refuse, Cat!ReadMeals, Cat!Fail, Cat!CreateRestaurant, Cat!BlockRestaurant,
    Cat!UpdateMeal, Cat!DeleteOwner, Cat!ChangeStatus, Cat!Begin, Cat!End, Cat!Drop,
    Cat!Unordered, Cat!Active, Cat!OrdersAt, Cat!OrdersWith, Cat!MenuOf, Cat!Placed,
    Cat!Listed, Cat!Served, Cat!rows,
    CatTheorems!Next, CatTheorems!Handle, CatTheorems!VerifyRestaurant,
    CatTheorems!CountOrders, CatTheorems!ReadRestaurant, CatTheorems!CreateMeal,
    CatTheorems!CountItems, CatTheorems!DeleteMeal, CatTheorems!PlaceOrder,
    CatTheorems!DeleteRestaurant, CatTheorems!Refuse, CatTheorems!ReadMeals,
    CatTheorems!Fail, CatTheorems!CreateRestaurant, CatTheorems!BlockRestaurant,
    CatTheorems!UpdateMeal, CatTheorems!DeleteOwner, CatTheorems!ChangeStatus,
    CatTheorems!Begin, CatTheorems!End, CatTheorems!Drop, CatTheorems!Unordered,
    CatTheorems!Active, CatTheorems!OrdersAt, CatTheorems!OrdersWith, CatTheorems!MenuOf,
    CatTheorems!Placed, CatTheorems!Listed, CatTheorems!Served, CatTheorems!rows
<1>3. [Cat!Next]_(Cat!vars) => [CatTheorems!Next]_(CatTheorems!vars)
  BY <1>2, Zenon DEF Cat!vars, CatTheorems!vars
<1> QED
  BY <1>1, <1>3, PTL DEF ImplementsCatalogue, Cat!Spec, CatTheorems!Spec

LEMMA SameCoupons == ImplementsCoupons => CouTheorems!Spec
<1>1. Cou!Init => CouTheorems!Init
  BY Zenon DEF Cou!Init, Cou!Absent, CouTheorems!Init, CouTheorems!Absent
<1>2. Cou!Next => CouTheorems!Next
  BY Zenon DEF Cou!Next, Cou!Checkout, Cou!Manage, Cou!ReadCoupon, Cou!CountUsages,
    Cou!InsertRows, Cou!IncrementCounter, Cou!Commit, Cou!Abort, Cou!CreateCoupon,
    Cou!UpdateCoupon, Cou!Expire, Cou!DeleteCoupons, Cou!Forgotten, Cou!Redemptions,
    Cou!RedemptionsBy, Cou!InStage, Cou!RowLocked, Cou!Reached, Cou!Higher, Cou!Absent,
    Cou!LimitPair, Cou!AnyLimit, Cou!Cardinality,
    CouTheorems!Next, CouTheorems!Checkout, CouTheorems!Manage, CouTheorems!ReadCoupon,
    CouTheorems!CountUsages, CouTheorems!InsertRows, CouTheorems!IncrementCounter,
    CouTheorems!Commit, CouTheorems!Abort, CouTheorems!CreateCoupon,
    CouTheorems!UpdateCoupon, CouTheorems!Expire, CouTheorems!DeleteCoupons,
    CouTheorems!Forgotten, CouTheorems!Redemptions, CouTheorems!RedemptionsBy,
    CouTheorems!InStage, CouTheorems!RowLocked, CouTheorems!Reached, CouTheorems!Higher,
    CouTheorems!Absent, CouTheorems!LimitPair, CouTheorems!AnyLimit, CouTheorems!Cardinality
<1>3. [Cou!Next]_(Cou!vars) => [CouTheorems!Next]_(CouTheorems!vars)
  BY <1>2, Zenon DEF Cou!vars, CouTheorems!vars
<1> QED
  BY <1>1, <1>3, PTL DEF ImplementsCoupons, Cou!Spec, CouTheorems!Spec

(* The assumptions that the two modules make. *)
LEMMA PartsAssumptions ==
  /\ CouTheorems!IsFiniteSet(Handlers)
  /\ Owner \in [Restaurants -> Owners]
  /\ NoRestaurant \notin Restaurants
  /\ NoOrder \notin [at : Restaurants, items : SUBSET Meals, active : BOOLEAN]
<1>1. CouTheorems!IsFiniteSet(Handlers)
  BY HandlersAssumption, Zenon DEF CouTheorems!IsFiniteSet, IsFiniteSet
<1> QED
  BY <1>1, MarkersAssumption

(* No row of the catalogue outlives one that it names, and no order buys   *)
(* from two restaurants, while createOrder runs as the transaction that it *)
(* is and coupons come and go beside it.                                   *)
THEOREM CatalogueStaysWhole == Spec => [](Cat!ReferencesResolve /\ Cat!OneKitchen)
<1>1. CatTheorems!Spec => []CatTheorems!ReferencesResolve
  BY PartsAssumptions, CatTheorems!NoDanglingReference, PTL
<1>2. CatTheorems!Spec => []CatTheorems!OneKitchen
  BY PartsAssumptions, CatTheorems!SingleKitchen, PTL
<1>3. CatTheorems!ReferencesResolve => Cat!ReferencesResolve
  BY Zenon DEF CatTheorems!ReferencesResolve, CatTheorems!Placed, CatTheorems!Listed,
    CatTheorems!Served, Cat!ReferencesResolve, Cat!Placed, Cat!Listed, Cat!Served
<1>4. CatTheorems!OneKitchen => Cat!OneKitchen
  BY Zenon DEF CatTheorems!OneKitchen, CatTheorems!Placed, Cat!OneKitchen, Cat!Placed
<1> QED
  BY <1>1, <1>2, <1>3, <1>4, RefinesCatalogue, SameCatalogue, PTL

(* A blocked restaurant takes no order, and a meal off the menu is in none, *)
(* but those of the transactions that had read it before.                  *)
THEOREM NothingIsSoldAfterwards == Spec => Cat!BlockedTakesNoOrders /\ Cat!UnavailableIsNotSold
<1>1. CatTheorems!Spec => CatTheorems!BlockedTakesNoOrders
  BY PartsAssumptions, CatTheorems!BlockedRestaurantIsShut, PTL
<1>2. CatTheorems!Spec => CatTheorems!UnavailableIsNotSold
  BY PartsAssumptions, CatTheorems!OffTheMenuIsNotSold, PTL
<1>3. CatTheorems!BlockedTakesNoOrders => Cat!BlockedTakesNoOrders
  BY Zenon DEF CatTheorems!BlockedTakesNoOrders, CatTheorems!OrderingAt,
    CatTheorems!OrdersAt, CatTheorems!Placed, CatTheorems!vars,
    Cat!BlockedTakesNoOrders, Cat!OrderingAt, Cat!OrdersAt, Cat!Placed, Cat!vars
<1>4. CatTheorems!UnavailableIsNotSold => Cat!UnavailableIsNotSold
  BY Zenon DEF CatTheorems!UnavailableIsNotSold, CatTheorems!Ordering,
    CatTheorems!OrdersWith, CatTheorems!Placed, CatTheorems!vars,
    Cat!UnavailableIsNotSold, Cat!Ordering, Cat!OrdersWith, Cat!Placed, Cat!vars
<1> QED
  BY <1>1, <1>2, <1>3, <1>4, RefinesCatalogue, SameCatalogue, PTL

(* The ledger of coupons is exact, whatever becomes of restaurants, meals  *)
(* and other checkouts: a counter is the number of its usages, these are   *)
(* the redemptions that the orders show, and a checkout that has inserted  *)
(* its usage finds the coupon whose counter it moves.                      *)
THEOREM LedgerStaysExact ==
  Spec => [](Cou!CounterExact /\ Cou!UsagesMatchOrders /\ Cou!CouponOutlivesCheckout)
<1> USE PartsAssumptions, LimitsAssumption, MarkersAssumption
<1>1. CouTheorems!Spec => []CouTheorems!CounterExact
  BY CouTheorems!CounterIsExact, PTL
<1>2. CouTheorems!Spec => []CouTheorems!UsagesMatchOrders
  BY CouTheorems!LedgerIsConsistent, PTL
<1>3. CouTheorems!Spec => []CouTheorems!CouponOutlivesCheckout
  BY CouTheorems!NoDeletionUnderCheckout, PTL
<1>4. CouTheorems!CounterExact => Cou!CounterExact
  BY Zenon DEF CouTheorems!CounterExact, CouTheorems!Live, CouTheorems!Redemptions,
    CouTheorems!Cardinality, Cou!CounterExact, Cou!Live, Cou!Redemptions, Cou!Cardinality
<1>5. CouTheorems!UsagesMatchOrders => Cou!UsagesMatchOrders
  BY Zenon DEF CouTheorems!UsagesMatchOrders, CouTheorems!Redeeming, CouTheorems!Live,
    Cou!UsagesMatchOrders, Cou!Redeeming, Cou!Live
<1>6. CouTheorems!CouponOutlivesCheckout => Cou!CouponOutlivesCheckout
  BY Zenon DEF CouTheorems!CouponOutlivesCheckout, CouTheorems!InStage, CouTheorems!Live,
    Cou!CouponOutlivesCheckout, Cou!InStage, Cou!Live
<1> QED
  BY <1>1, <1>2, <1>3, <1>4, <1>5, <1>6, RefinesCoupons, SameCoupons, PTL

(* Checkouts that overlap take a coupon past its limits by fewer than run  *)
(* at once, counting those that have passed the check and not committed.   *)
THEOREM LimitsAreNearlyKept == Spec => []Cou!OvershootBounded
<1>1. CouTheorems!Spec => []CouTheorems!OvershootBounded
  BY PartsAssumptions, LimitsAssumption, MarkersAssumption,
     CouTheorems!LimitsAreNearlyKept, PTL
<1>2. CouTheorems!OvershootBounded => Cou!OvershootBounded
  BY Zenon DEF CouTheorems!OvershootBounded, CouTheorems!TotalOvershootBounded,
    CouTheorems!PerCustomerOvershootBounded, CouTheorems!Live, CouTheorems!RedemptionsBy,
    CouTheorems!CustomerCleared, CouTheorems!InStage, CouTheorems!Cleared,
    CouTheorems!Checked, CouTheorems!Width, CouTheorems!Cardinality,
    Cou!OvershootBounded, Cou!TotalOvershootBounded, Cou!PerCustomerOvershootBounded,
    Cou!Live, Cou!RedemptionsBy, Cou!CustomerCleared, Cou!InStage, Cou!Cleared,
    Cou!Checked, Cou!Width, Cou!Cardinality
<1> QED
  BY <1>1, <1>2, RefinesCoupons, SameCoupons, PTL

(* When checkouts do not overlap, no coupon is redeemed past its limits,   *)
(* whatever its owner does to it between their statements.                 *)
THEOREM LimitsAreKeptInTurn ==
  ASSUME Cou!Width = 1
  PROVE  Spec => [](Cou!TotalLimitHolds /\ Cou!PerCustomerLimitHolds)
<1>1. CouTheorems!Width = 1
  BY Zenon DEF CouTheorems!Width, CouTheorems!Cardinality, Cou!Width, Cou!Cardinality
<1>2. CouTheorems!Spec => [](CouTheorems!TotalLimitHolds /\ CouTheorems!PerCustomerLimitHolds)
  BY <1>1, PartsAssumptions, LimitsAssumption, MarkersAssumption, CouTheorems!SerialLimits, PTL
<1>3. CouTheorems!TotalLimitHolds => Cou!TotalLimitHolds
  BY Zenon DEF CouTheorems!TotalLimitHolds, CouTheorems!Live, Cou!TotalLimitHolds, Cou!Live
<1>4. CouTheorems!PerCustomerLimitHolds => Cou!PerCustomerLimitHolds
  BY Zenon DEF CouTheorems!PerCustomerLimitHolds, CouTheorems!Live, CouTheorems!RedemptionsBy,
    CouTheorems!Cardinality, Cou!PerCustomerLimitHolds, Cou!Live, Cou!RedemptionsBy,
    Cou!Cardinality
<1> QED
  BY <1>2, <1>3, <1>4, RefinesCoupons, SameCoupons, PTL

LEMMA SameBook == CouTheorems!ImplementsLedger => Cou!ImplementsLedger
<1>1. CouTheorems!Book!Init => Cou!Book!Init
  BY Zenon DEF CouTheorems!Book!Init, Cou!Book!Init, CouTheorems!State, Cou!State
<1>2. CouTheorems!Book!Next => Cou!Book!Next
  BY Zenon DEF CouTheorems!Book!Next, CouTheorems!Book!Redeem, CouTheorems!Book!Issue,
    CouTheorems!Book!Raise, CouTheorems!Book!Withdraw, CouTheorems!Book!OrdersWith,
    CouTheorems!Book!OrdersOf, CouTheorems!Book!Room, CouTheorems!Book!Covers,
    CouTheorems!Book!LimitPair, CouTheorems!Book!Cardinality, CouTheorems!State,
    CouTheorems!Width, CouTheorems!Cardinality,
    Cou!Book!Next, Cou!Book!Redeem, Cou!Book!Issue, Cou!Book!Raise, Cou!Book!Withdraw,
    Cou!Book!OrdersWith, Cou!Book!OrdersOf, Cou!Book!Room, Cou!Book!Covers,
    Cou!Book!LimitPair, Cou!Book!Cardinality, Cou!State, Cou!Width, Cou!Cardinality
<1>3. [CouTheorems!Book!Next]_(CouTheorems!Book!vars) => [Cou!Book!Next]_(Cou!Book!vars)
  BY <1>2, Zenon DEF CouTheorems!Book!vars, CouTheorems!State, Cou!Book!vars, Cou!State
<1> QED
  BY <1>1, <1>3, PTL DEF CouTheorems!ImplementsLedger, Cou!ImplementsLedger,
    CouTheorems!Book!Spec, Cou!Book!Spec

(* A customer who checks out redeems the coupon in one step, or not at all, *)
(* with all that the transaction reads and inserts besides: it implements  *)
(* the ledger.                                                             *)
THEOREM KeepsTheLedger == Spec => Cou!ImplementsLedger
<1>1. CouTheorems!Spec => CouTheorems!ImplementsLedger
  BY PartsAssumptions, LimitsAssumption, MarkersAssumption, CouTheorems!RefinesLedger, PTL
<1> QED
  BY <1>1, RefinesCoupons, SameCoupons, SameBook, PTL
(* What an order that redeemed a coupon refers to is there and belongs     *)
(* together: the order, a live coupon of the restaurant it was placed at,  *)
(* that restaurant, and meals that it serves.                              *)
RedemptionsResolve ==
  \A o \in Cou!Redeeming :
    /\ order[o] # NoOrder
    /\ coupons[orders[o].coupon].row = "live"
    /\ shop[orders[o].coupon] = order[o].at
    /\ Desk!Listed(order[o].at)
    /\ \A m \in order[o].items : Desk!Served(m) /\ home[m] = order[o].at

(* It takes all three modules: the ledger names the coupon, CouponsStayHome *)
(* its restaurant, and the catalogue has that restaurant and the meals.    *)
THEOREM RedeemedOrdersAreWhole == Spec => []RedemptionsResolve
<1>1. ASSUME CouponsStayHome, Cou!UsagesMatchOrders, Cat!ReferencesResolve, Cat!OneKitchen
      PROVE  RedemptionsResolve
  <2> SUFFICES ASSUME NEW o \in Cou!Redeeming
               PROVE  /\ order[o] # NoOrder
                      /\ coupons[orders[o].coupon].row = "live"
                      /\ shop[orders[o].coupon] = order[o].at
                      /\ Desk!Listed(order[o].at)
                      /\ \A m \in order[o].items : Desk!Served(m) /\ home[m] = order[o].at
    BY DEF RedemptionsResolve
  <2> DEFINE u == [order |-> o, customer |-> orders[o].customer, coupon |-> orders[o].coupon]
  <2>1. u \in usages
    BY <1>1 DEF Cou!UsagesMatchOrders
  <2>2. o \in Orders /\ u.order = o /\ u.coupon = orders[o].coupon
    BY DEF Cou!Redeeming
  <2>3. coupons[orders[o].coupon].row = "live"
    BY <1>1, <2>1, <2>2 DEF Cou!UsagesMatchOrders, Cou!Live
  <2>4. order[o] # NoOrder /\ shop[orders[o].coupon] = order[o].at
    BY <1>1, <2>1, <2>2 DEF CouponsStayHome
  <2>5. /\ Desk!Listed(order[o].at)
        /\ \A m \in order[o].items : Desk!Served(m) /\ home[m] = order[o].at
    BY <1>1, <2>2, <2>4 DEF Cat!ReferencesResolve, Cat!OneKitchen, Cat!Placed, Cat!Listed,
      Cat!Served, Desk!Listed, Desk!Served
  <2> QED
    BY <2>3, <2>4, <2>5
<1>2. IInv => CouponsStayHome
  BY DEF IInv
<1> QED
  BY <1>1, <1>2, Invariance, CatalogueStaysWhole, LedgerStaysExact, PTL
=============================================================================
