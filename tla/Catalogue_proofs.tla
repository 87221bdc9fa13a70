--------------------------- MODULE Catalogue_proofs ---------------------------
(***************************************************************************)
(* Theorems of Catalogue, for any number of owners, restaurants, meals,    *)
(* orders and requests.                                                    *)
(***************************************************************************)
EXTENDS Catalogue, TLAPS

(* A meal has its restaurant from the moment it exists, and the meals that *)
(* createOrder has read are its restaurant's.                              *)
MealsKnowTheirHome ==
  /\ \A m \in Meals : meal[m] = "none" => home[m] = NoRestaurant
  /\ \A h \in Handlers : stage[h] = "priced" =>
       \A m \in req[h].items : home[m] = req[h].restaurant

IInv ==
  /\ TypeOK
  /\ ReferencesResolve
  /\ OneKitchen
  /\ MealsKnowTheirHome

(* The invariant holds initially. *)
LEMMA InitIInv == Init => IInv
<1> SUFFICES ASSUME Init PROVE IInv
    OBVIOUS
<1>1. TypeOK
    BY DEF Init, TypeOK
<1>2. ReferencesResolve /\ OneKitchen
    BY DEF Init, ReferencesResolve, OneKitchen, Placed, Listed, Served
<1>3. MealsKnowTheirHome
    BY DEF Init, MealsKnowTheirHome
<1> QED BY <1>1, <1>2, <1>3 DEF IInv

(* Requests that only check leave the rows alone. *)
LEMMA ChecksKeepIInv ==
  ASSUME IInv, NEW h \in Handlers,
         \/ \E r \in Restaurants : VerifyRestaurant(h, r) \/ CountOrders(h, r)
         \/ \E r \in Restaurants, items \in SUBSET Meals \ {{}} : ReadRestaurant(h, r, items)
         \/ \E m \in Meals : CountItems(h, m)
         \/ Refuse(h) \/ ReadMeals(h) \/ Fail(h)
  PROVE  IInv'
<1>0. IInv /\ UNCHANGED rows
    BY DEF VerifyRestaurant, CountOrders, ReadRestaurant, CountItems, Refuse, ReadMeals, Fail
<1>1. ReferencesResolve' /\ OneKitchen'
    BY <1>0 DEF IInv, rows, ReferencesResolve, OneKitchen, Placed, Listed, Served
<1>2. ASSUME NEW r \in Restaurants, NEW items \in SUBSET Meals,
             NEW s \in {"adding", "closing", "withdrawing", "ordering"}, Begin(h, s, r, items)
      PROVE  TypeOK' /\ MealsKnowTheirHome'
    BY <1>0, <1>2 DEF IInv, rows, Begin, TypeOK, Request, MealsKnowTheirHome
<1>3. CASE \E r \in Restaurants : VerifyRestaurant(h, r) \/ CountOrders(h, r)
    BY <1>0, <1>1, <1>2, <1>3 DEF IInv, VerifyRestaurant, CountOrders
<1>4. CASE \E r \in Restaurants, items \in SUBSET Meals \ {{}} : ReadRestaurant(h, r, items)
    BY <1>0, <1>1, <1>2, <1>4 DEF IInv, ReadRestaurant
<1>5. CASE \E m \in Meals : CountItems(h, m)
  <2>1. PICK m \in Meals : CountItems(h, m)
      BY <1>5
  <2>2. home[m] \in Restaurants
      BY <1>0, <2>1 DEF IInv, ReferencesResolve, CountItems
  <2> QED BY <1>0, <1>1, <1>2, <2>1, <2>2 DEF IInv, CountItems
<1>6. CASE Refuse(h) \/ ReadMeals(h)
    BY <1>0, <1>1, <1>6 DEF IInv, rows, Refuse, ReadMeals, TypeOK, Request, MealsKnowTheirHome
<1>7. CASE Fail(h)
    BY <1>0, <1>1, <1>7 DEF IInv, rows, Fail, End, TypeOK, Request, MealsKnowTheirHome
<1> QED BY <1>3, <1>4, <1>5, <1>6, <1>7

(* A new meal finds its restaurant, a new order its restaurant and meals.  *)
LEMMA InsertsKeepIInv ==
  ASSUME IInv, NEW h \in Handlers,
         \/ \E m \in Meals : CreateMeal(h, m)
         \/ \E o \in Orders : PlaceOrder(h, o)
  PROVE  IInv'
<1>0. IInv
    OBVIOUS
<1>1. ASSUME NEW m \in Meals, CreateMeal(h, m) PROVE IInv'
  <2>1. TypeOK'
      BY <1>0, <1>1 DEF IInv, TypeOK, CreateMeal, End, Request
  <2>2. req[h].restaurant \in Restaurants
      BY <1>0, <1>1 DEF IInv, TypeOK, CreateMeal, Request
  <2>3. \A o \in Placed : m \notin order[o].items
      BY <1>0, <1>1 DEF IInv, ReferencesResolve, Served, CreateMeal
  <2>4. ReferencesResolve' /\ OneKitchen'
      BY <1>0, <1>1, <2>2, <2>3 DEF IInv, TypeOK, Order, ReferencesResolve, OneKitchen, Placed,
                Listed, Served, CreateMeal
  <2>5. ASSUME NEW g \in Handlers, stage[g] = "priced" PROVE m \notin req[g].items
      BY <1>0, <1>1, <2>5, MarkerAssumption DEF IInv, TypeOK, Request, MealsKnowTheirHome, CreateMeal
  <2>6. MealsKnowTheirHome'
      BY <1>0, <1>1, <2>5 DEF IInv, TypeOK, Request, MealsKnowTheirHome, CreateMeal, End
  <2> QED BY <2>1, <2>4, <2>6 DEF IInv
<1>2. ASSUME NEW o \in Orders, PlaceOrder(h, o) PROVE IInv'
  <2>1. req[h] \in Request
      BY <1>0, <1>2 DEF IInv, TypeOK, PlaceOrder
  <2>2. TypeOK'
      BY <1>0, <1>2, <2>1 DEF IInv, TypeOK, PlaceOrder, End, Request, Order
  <2>3. ReferencesResolve' /\ OneKitchen'
      BY <1>0, <1>2, <2>1 DEF IInv, TypeOK, Order, Request, ReferencesResolve, OneKitchen, Placed,
                Listed, Served, MealsKnowTheirHome, PlaceOrder
  <2>4. MealsKnowTheirHome'
      BY <1>0, <1>2 DEF IInv, TypeOK, MealsKnowTheirHome, PlaceOrder, End
  <2> QED BY <2>2, <2>3, <2>4 DEF IInv
<1> QED BY <1>1, <1>2

(* A deletion takes nothing that is still named. *)
LEMMA DeletionsKeepIInv ==
  ASSUME IInv,
         \/ \E h \in Handlers : DeleteRestaurant(h)
         \/ \E h \in Handlers, m \in Meals : DeleteMeal(h, m)
         \/ \E u \in Owners : DeleteOwner(u)
  PROVE  IInv'
<1>0. IInv
    OBVIOUS
<1>1. ASSUME NEW R \in SUBSET Restaurants, Drop(R), UNCHANGED <<home, order>>,
             owners' \in SUBSET owners,
             \A r \in Restaurants : Owner[r] \in owners => Owner[r] \in owners' \/ r \in R
      PROVE  /\ ReferencesResolve' /\ OneKitchen'
             /\ restaurant' \in [Restaurants -> {"none", "open", "blocked", "deleted"}]
             /\ meal' \in [Meals -> {"none", "available", "unavailable", "deleted"}]
             /\ \A m \in Meals : meal'[m] = "none" => meal[m] = "none"
  <2>1. /\ restaurant' \in [Restaurants -> {"none", "open", "blocked", "deleted"}]
        /\ meal' \in [Meals -> {"none", "available", "unavailable", "deleted"}]
      BY <1>0, <1>1 DEF IInv, TypeOK, Drop
  <2>2. ASSUME NEW o \in Placed
        PROVE  order[o].at \notin R /\ \A m \in order[o].items : home[m] \notin R
      BY <1>0, <1>1, <2>2 DEF IInv, TypeOK, Order, Drop, Unordered, OrdersAt, OrdersWith, MenuOf, Placed
  <2>3. \A r \in Restaurants : Listed(r)' <=> Listed(r) /\ r \notin R
      BY <1>1 DEF Drop, Listed
  <2>4. \A m \in Meals : Served(m)' <=> Served(m) /\ home[m] \notin R
      BY <1>1 DEF Drop, Served
  <2>5. Placed' = Placed
      BY <1>1 DEF Placed
  <2>6. \A o \in Placed : order[o] \in Order
      BY <1>0 DEF IInv, TypeOK, Placed
  <2>7. ReferencesResolve'
      BY <1>0, <1>1, <2>2, <2>3, <2>4, <2>5, <2>6 DEF IInv, ReferencesResolve, Order
  <2>8. OneKitchen'
      BY <1>0, <1>1, <2>5 DEF IInv, OneKitchen
  <2>9. \A m \in Meals : meal'[m] = "none" => meal[m] = "none"
      BY <1>1 DEF Drop
  <2> QED BY <2>1, <2>7, <2>8, <2>9
<1>2. ASSUME NEW h \in Handlers, DeleteRestaurant(h) PROVE IInv'
  <2>1. req[h].restaurant \in Restaurants
      BY <1>0, <1>2 DEF IInv, TypeOK, DeleteRestaurant, Request
  <2>2. /\ ReferencesResolve' /\ OneKitchen'
        /\ restaurant' \in [Restaurants -> {"none", "open", "blocked", "deleted"}]
        /\ meal' \in [Meals -> {"none", "available", "unavailable", "deleted"}]
        /\ \A m \in Meals : meal'[m] = "none" => meal[m] = "none"
      BY <1>1, <1>2, <2>1 DEF DeleteRestaurant
  <2>3. TypeOK'
      BY <1>0, <1>2, <2>2 DEF IInv, TypeOK, DeleteRestaurant, End
  <2>4. MealsKnowTheirHome'
      BY <1>0, <1>2, <2>2 DEF IInv, TypeOK, MealsKnowTheirHome, DeleteRestaurant, End
  <2> QED BY <2>2, <2>3, <2>4 DEF IInv
<1>3. ASSUME NEW h \in Handlers, NEW m \in Meals, DeleteMeal(h, m) PROVE IInv'
  <2>1. TypeOK'
      BY <1>0, <1>3 DEF IInv, TypeOK, DeleteMeal, End
  <2>2. MealsKnowTheirHome'
      BY <1>0, <1>3 DEF IInv, TypeOK, MealsKnowTheirHome, DeleteMeal, End
  <2>3. \A n \in Meals : Served(n)' <=> Served(n) /\ n # m
      BY <1>0, <1>3 DEF IInv, TypeOK, Served, DeleteMeal
  <2>4. \A o \in Placed : order[o] \in Order /\ m \notin order[o].items
      BY <1>0, <1>3 DEF IInv, TypeOK, DeleteMeal, OrdersWith, Placed
  <2>5. Placed' = Placed /\ \A r \in Restaurants : Listed(r)' <=> Listed(r)
      BY <1>3 DEF DeleteMeal, Placed, Listed
  <2>6. ReferencesResolve'
      BY <1>0, <1>3, <2>3, <2>4, <2>5 DEF IInv, ReferencesResolve, DeleteMeal, Order
  <2>7. OneKitchen'
      BY <1>0, <1>3, <2>5 DEF IInv, OneKitchen, DeleteMeal
  <2> QED BY <2>1, <2>2, <2>6, <2>7 DEF IInv
<1>4. ASSUME NEW u \in Owners, DeleteOwner(u) PROVE IInv'
  <2>1. /\ ReferencesResolve' /\ OneKitchen'
        /\ restaurant' \in [Restaurants -> {"none", "open", "blocked", "deleted"}]
        /\ meal' \in [Meals -> {"none", "available", "unavailable", "deleted"}]
        /\ \A m \in Meals : meal'[m] = "none" => meal[m] = "none"
      BY <1>1, <1>4 DEF DeleteOwner
  <2>2. TypeOK'
      BY <1>0, <1>4, <2>1 DEF IInv, TypeOK, DeleteOwner
  <2>3. MealsKnowTheirHome'
      BY <1>0, <1>4, <2>1 DEF IInv, TypeOK, MealsKnowTheirHome, DeleteOwner
  <2> QED BY <2>1, <2>2, <2>3 DEF IInv
<1> QED BY <1>2, <1>3, <1>4

(* A status change is to an order, which stays where and what it is. *)
LEMMA ChangeKeepsItems ==
  ASSUME TypeOK, NEW o \in Orders, ChangeStatus(o)
  PROVE  /\ order' \in [Orders -> Order \cup {NoOrder}]
         /\ Placed' = Placed
         /\ \A p \in Placed : order[p] \in Order
                              /\ order'[p].at = order[p].at /\ order'[p].items = order[p].items
<1>1. order \in [Orders -> Order \cup {NoOrder}] /\ order[o] \in Order
    BY DEF TypeOK, ChangeStatus
<1>2. order' = [order EXCEPT ![o] = [order[o] EXCEPT !.active = ~order[o].active]]
    BY DEF ChangeStatus
<1>3. /\ [order[o] EXCEPT !.active = ~order[o].active] \in Order
      /\ [order[o] EXCEPT !.active = ~order[o].active].at = order[o].at
      /\ [order[o] EXCEPT !.active = ~order[o].active].items = order[o].items
    BY <1>1 DEF Order
<1>4. order' \in [Orders -> Order \cup {NoOrder}]
    BY <1>1, <1>2, <1>3
<1>5. Placed' = Placed
    BY <1>1, <1>2, <1>3, MarkerAssumption DEF Placed, Order
<1>6. \A p \in Placed : /\ order[p] \in Order
                        /\ order'[p].at = order[p].at /\ order'[p].items = order[p].items
    BY <1>1, <1>2, <1>3 DEF Placed
<1> QED BY <1>4, <1>5, <1>6

(* The single-statement updates keep every row and what it names. *)
LEMMA UpdatesKeepIInv ==
  ASSUME IInv,
         \/ \E r \in Restaurants : CreateRestaurant(r)
         \/ \E r \in Restaurants, standing \in {"open", "blocked"} : BlockRestaurant(r, standing)
         \/ \E m \in Meals, standing \in {"available", "unavailable"} : UpdateMeal(m, standing)
         \/ \E o \in Orders : ChangeStatus(o)
         \/ UNCHANGED vars
  PROVE  IInv'
<1>0. IInv
    OBVIOUS
<1>1. ASSUME NEW r \in Restaurants, CreateRestaurant(r) PROVE IInv'
    BY <1>0, <1>1 DEF CreateRestaurant, IInv, TypeOK, Order, ReferencesResolve, OneKitchen,
                MealsKnowTheirHome, Placed, Listed, Served
<1>2. ASSUME NEW r \in Restaurants, NEW s \in {"open", "blocked"}, BlockRestaurant(r, s)
      PROVE  IInv'
    BY <1>0, <1>2 DEF BlockRestaurant, IInv, TypeOK, Order, ReferencesResolve, OneKitchen,
                MealsKnowTheirHome, Placed, Listed, Served
<1>3. ASSUME NEW m \in Meals, NEW s \in {"available", "unavailable"}, UpdateMeal(m, s)
      PROVE  IInv'
    BY <1>0, <1>3 DEF UpdateMeal, IInv, TypeOK, Order, ReferencesResolve, OneKitchen,
                MealsKnowTheirHome, Placed, Listed, Served
<1>4. ASSUME NEW o \in Orders, ChangeStatus(o) PROVE IInv'
  <2>1. /\ order' \in [Orders -> Order \cup {NoOrder}]
        /\ Placed' = Placed
        /\ \A p \in Placed : /\ order[p] \in Order
                             /\ order'[p].at = order[p].at /\ order'[p].items = order[p].items
      BY <1>0, <1>4, ChangeKeepsItems DEF IInv
  <2>2. UNCHANGED <<owners, restaurant, meal, home, stage, req>>
      BY <1>4 DEF ChangeStatus
  <2>3. TypeOK' /\ MealsKnowTheirHome'
      BY <1>0, <2>1, <2>2 DEF IInv, TypeOK, MealsKnowTheirHome
  <2>4. ReferencesResolve' /\ OneKitchen'
      BY <1>0, <2>1, <2>2 DEF IInv, ReferencesResolve, OneKitchen, Listed, Served
  <2> QED BY <2>3, <2>4 DEF IInv
<1>5. CASE UNCHANGED vars
    BY <1>0, <1>5 DEF vars, IInv, TypeOK, ReferencesResolve, OneKitchen,
                MealsKnowTheirHome, Placed, Listed, Served
<1> QED BY <1>1, <1>2, <1>3, <1>4, <1>5

(* Every step preserves the invariant. *)
LEMMA NextIInv == IInv /\ [Next]_vars => IInv'
<1> SUFFICES ASSUME IInv, [Next]_vars PROVE IInv'
    OBVIOUS
<1>1. ASSUME NEW h \in Handlers, Handle(h) PROVE IInv'
    BY <1>1, ChecksKeepIInv, InsertsKeepIInv, DeletionsKeepIInv DEF Handle
<1> QED BY <1>1, DeletionsKeepIInv, UpdatesKeepIInv DEF Next

(* The invariant holds in every reachable state. *)
THEOREM Invariance == Spec => []IInv
<1> QED BY InitIInv, NextIInv, PTL DEF Spec

(* Rows and requests keep their shape. *)
THEOREM TypeCorrect == Spec => []TypeOK
<1>1. IInv => TypeOK
    BY DEF IInv
<1> QED BY <1>1, Invariance, PTL

(* Whatever the deletions counted, no row outlives one that it names. *)
THEOREM NoDanglingReference == Spec => []ReferencesResolve
<1>1. IInv => ReferencesResolve
    BY DEF IInv
<1> QED BY <1>1, Invariance, PTL

(* Every order buys from one restaurant. *)
THEOREM SingleKitchen == Spec => []OneKitchen
<1>1. IInv => OneKitchen
    BY DEF IInv
<1> QED BY <1>1, Invariance, PTL

(* A step that neither places an order nor reads a restaurant for one      *)
(* leaves the orders of every restaurant and of every meal as they are.    *)
LEMMA OnlyPlacingAdds ==
  ASSUME IInv, [Next]_vars, \A h \in Handlers, o \in Orders : ~PlaceOrder(h, o)
  PROVE  /\ \A r \in Restaurants : OrdersAt(r)' = OrdersAt(r)
         /\ \A m \in Meals : OrdersWith(m)' = OrdersWith(m)
<1>1. CASE order' = order
    BY <1>1 DEF OrdersAt, OrdersWith, Placed
<1>2. CASE \E o \in Orders : ChangeStatus(o)
  <2>1. PICK o \in Orders : ChangeStatus(o)
      BY <1>2
  <2>2. /\ Placed' = Placed
        /\ \A p \in Placed : order'[p].at = order[p].at /\ order'[p].items = order[p].items
      BY <2>1, ChangeKeepsItems DEF IInv
  <2> QED BY <2>2 DEF OrdersAt, OrdersWith
<1> QED BY <1>1, <1>2 DEF Next, vars, Handle, rows, CreateRestaurant, BlockRestaurant,
            VerifyRestaurant, CreateMeal, UpdateMeal, CountOrders, DeleteRestaurant, CountItems,
            DeleteMeal, Refuse, DeleteOwner, ReadRestaurant, ReadMeals, Fail

Starts(h) ==
  \E s \in {"adding", "closing", "withdrawing"} : \E r, items : Begin(h, s, r, items)

(* What createOrder is working on grows only by reading a restaurant that  *)
(* is open, and a meal that is available.                                  *)
LEMMA OrderingGrows ==
  ASSUME IInv, [Next]_vars
  PROVE  /\ \A r \in Restaurants : restaurant[r] # "open" => OrderingAt(r)' \subseteq OrderingAt(r)
         /\ \A m \in Meals : meal[m] # "available" => Ordering(m)' \subseteq Ordering(m)
<1>1. ASSUME NEW h \in Handlers, NEW r \in Restaurants, NEW items \in SUBSET Meals,
             ReadRestaurant(h, r, items)
      PROVE  /\ \A q \in Restaurants : restaurant[q] # "open" => OrderingAt(q)' \subseteq OrderingAt(q)
             /\ \A m \in Meals : Ordering(m)' \subseteq Ordering(m)
    BY <1>1 DEF ReadRestaurant, Begin, OrderingAt, Ordering, IInv, TypeOK
<1>2. ASSUME NEW h \in Handlers, ReadMeals(h)
      PROVE  /\ \A r \in Restaurants : OrderingAt(r)' \subseteq OrderingAt(r)
             /\ \A m \in Meals : meal[m] # "available" => Ordering(m)' \subseteq Ordering(m)
    BY <1>2 DEF ReadMeals, OrderingAt, Ordering, IInv, TypeOK
<1>3. ASSUME NEW h \in Handlers,
             NEW s \in {"idle", "adding", "closing", "withdrawing", "refused"},
             stage' = [stage EXCEPT ![h] = s],
             \A g \in Handlers : g # h => req'[g] = req[g]
      PROVE  /\ \A r \in Restaurants : OrderingAt(r)' \subseteq OrderingAt(r)
             /\ \A m \in Meals : Ordering(m)' \subseteq Ordering(m)
    BY <1>3 DEF OrderingAt, Ordering, IInv, TypeOK
<1>4. CASE UNCHANGED <<stage, req>>
    BY <1>4 DEF OrderingAt, Ordering
<1>5. ASSUME NEW h \in Handlers, End(h) PROVE \A g \in Handlers : g # h => req'[g] = req[g]
    BY <1>5 DEF End, IInv, TypeOK
<1>6. ASSUME NEW h \in Handlers, NEW s, NEW r, NEW items, Begin(h, s, r, items)
      PROVE  \A g \in Handlers : g # h => req'[g] = req[g]
    BY <1>6 DEF Begin, IInv, TypeOK
<1>7. ASSUME NEW h \in Handlers, Handle(h)
      PROVE  /\ \A r \in Restaurants : restaurant[r] # "open" => OrderingAt(r)' \subseteq OrderingAt(r)
             /\ \A m \in Meals : meal[m] # "available" => Ordering(m)' \subseteq Ordering(m)
  <2>1. CASE End(h)
      BY <1>3, <1>5, <2>1 DEF End
  <2>2. CASE Starts(h)
    <3>1. PICK s \in {"adding", "closing", "withdrawing"} : \E r, items : Begin(h, s, r, items)
        BY <2>2 DEF Starts
    <3>2. stage' = [stage EXCEPT ![h] = s]
        BY <3>1 DEF Begin
    <3>3. \A g \in Handlers : g # h => req'[g] = req[g]
        BY <1>6, <3>1
    <3> QED BY <1>3, <3>2, <3>3
  <2>3. CASE Refuse(h)
      BY <1>3, <2>3 DEF Refuse
  <2>4. CASE \E r \in Restaurants, items \in SUBSET Meals \ {{}} : ReadRestaurant(h, r, items)
      BY <1>1, <2>4
  <2>5. CASE ReadMeals(h)
      BY <1>2, <2>5
  <2>6. \/ End(h)
        \/ Starts(h)
        \/ Refuse(h) \/ ReadMeals(h)
        \/ \E r \in Restaurants, items \in SUBSET Meals \ {{}} : ReadRestaurant(h, r, items)
      BY <1>7 DEF Handle, VerifyRestaurant, CountOrders, CreateMeal, CountItems, DeleteMeal,
                PlaceOrder, DeleteRestaurant, Fail, Starts
  <2> QED BY <2>1, <2>2, <2>3, <2>4, <2>5, <2>6
<1>8. CASE ~\E h \in Handlers : Handle(h)
    BY <1>4, <1>8 DEF Next, vars, CreateRestaurant, BlockRestaurant, UpdateMeal, DeleteOwner,
              ChangeStatus
<1> QED BY <1>7, <1>8

(* The insertion of an order ends the request that made it. *)
LEMMA PlacingEnds ==
  ASSUME IInv, NEW h \in Handlers, NEW o \in Orders, PlaceOrder(h, o)
  PROVE  /\ stage[h] = "priced"
         /\ \A g \in Handlers :
              IF g = h THEN stage'[g] = "idle" ELSE stage'[g] = stage[g] /\ req'[g] = req[g]
         /\ order[o] = NoOrder /\ order'[o] # NoOrder
         /\ order'[o].at = req[h].restaurant /\ order'[o].items = req[h].items
         /\ \A p \in Orders \ {o} : order'[p] = order[p]
<1>1. [at |-> req[h].restaurant, items |-> req[h].items, active |-> TRUE] \in Order
    BY DEF IInv, TypeOK, PlaceOrder, Request, Order
<1>2. [at |-> req[h].restaurant, items |-> req[h].items, active |-> TRUE] # NoOrder
    BY <1>1, MarkerAssumption DEF Order
<1> QED BY <1>2 DEF IInv, TypeOK, PlaceOrder, End

(* A blocked restaurant takes no order that was not already being placed.  *)
THEOREM BlockedRestaurantIsShut == Spec => BlockedTakesNoOrders
<1> DEFINE Step(r) == restaurant[r] = "blocked" =>
             /\ OrderingAt(r)' \subseteq OrderingAt(r)
             /\ \/ OrdersAt(r)' = OrdersAt(r)
                \/ \E h \in OrderingAt(r), o \in Orders :
                     /\ OrdersAt(r)' = OrdersAt(r) \cup {o}
                     /\ OrderingAt(r)' = OrderingAt(r) \ {h}
<1>1. ASSUME IInv, [Next]_vars, NEW r \in Restaurants PROVE Step(r)
  <2> SUFFICES ASSUME restaurant[r] = "blocked" PROVE Step(r)
      OBVIOUS
  <2>1. OrderingAt(r)' \subseteq OrderingAt(r)
      BY <1>1, OrderingGrows
  <2>2. CASE \E h \in Handlers, o \in Orders : PlaceOrder(h, o)
    <3>1. PICK h \in Handlers, o \in Orders : PlaceOrder(h, o)
        BY <2>2
    <3>2. CASE req[h].restaurant = r
      <4>1. h \in OrderingAt(r) /\ OrderingAt(r)' = OrderingAt(r) \ {h}
          BY <1>1, <3>1, <3>2, PlacingEnds DEF OrderingAt
      <4>2. OrdersAt(r)' = OrdersAt(r) \cup {o}
          BY <1>1, <3>1, <3>2, PlacingEnds DEF OrdersAt, Placed
      <4> QED BY <2>1, <4>1, <4>2
    <3>3. CASE req[h].restaurant # r
      <4>1. OrdersAt(r)' = OrdersAt(r)
          BY <1>1, <3>1, <3>3, PlacingEnds DEF OrdersAt, Placed
      <4> QED BY <2>1, <4>1
    <3> QED BY <3>2, <3>3
  <2>3. CASE \A h \in Handlers, o \in Orders : ~PlaceOrder(h, o)
      BY <1>1, <2>1, <2>3, OnlyPlacingAdds
  <2> QED BY <2>2, <2>3
<1>2. IInv /\ [Next]_vars => [\A r \in Restaurants : Step(r)]_vars
    BY <1>1
<1> QED BY <1>2, Invariance, PTL DEF Spec, BlockedTakesNoOrders

(* A meal off the menu is in no order that was not already being placed.   *)
THEOREM OffTheMenuIsNotSold == Spec => UnavailableIsNotSold
<1> DEFINE Step(m) == meal[m] = "unavailable" =>
             /\ Ordering(m)' \subseteq Ordering(m)
             /\ \/ OrdersWith(m)' = OrdersWith(m)
                \/ \E h \in Ordering(m), o \in Orders :
                     /\ OrdersWith(m)' = OrdersWith(m) \cup {o}
                     /\ Ordering(m)' = Ordering(m) \ {h}
<1>1. ASSUME IInv, [Next]_vars, NEW m \in Meals PROVE Step(m)
  <2> SUFFICES ASSUME meal[m] = "unavailable" PROVE Step(m)
      OBVIOUS
  <2>1. Ordering(m)' \subseteq Ordering(m)
      BY <1>1, OrderingGrows
  <2>2. CASE \E h \in Handlers, o \in Orders : PlaceOrder(h, o)
    <3>1. PICK h \in Handlers, o \in Orders : PlaceOrder(h, o)
        BY <2>2
    <3>2. CASE m \in req[h].items
      <4>1. h \in Ordering(m) /\ Ordering(m)' = Ordering(m) \ {h}
          BY <1>1, <3>1, <3>2, PlacingEnds DEF Ordering
      <4>2. OrdersWith(m)' = OrdersWith(m) \cup {o}
          BY <1>1, <3>1, <3>2, PlacingEnds DEF OrdersWith, Placed
      <4> QED BY <2>1, <4>1, <4>2
    <3>3. CASE m \notin req[h].items
      <4>1. OrdersWith(m)' = OrdersWith(m)
          BY <1>1, <3>1, <3>3, PlacingEnds DEF OrdersWith, Placed
      <4> QED BY <2>1, <4>1
    <3> QED BY <3>2, <3>3
  <2>3. CASE \A h \in Handlers, o \in Orders : ~PlaceOrder(h, o)
      BY <1>1, <2>1, <2>3, OnlyPlacingAdds
  <2> QED BY <2>2, <2>3
<1>2. IInv /\ [Next]_vars => [\A m \in Meals : Step(m)]_vars
    BY <1>1
<1> QED BY <1>2, Invariance, PTL DEF Spec, UnavailableIsNotSold
=============================================================================
