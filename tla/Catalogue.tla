------------------------------- MODULE Catalogue -------------------------------
(***************************************************************************)
(* Restaurants and their meals, and the orders that refer to them:         *)
(* restaurants.service.ts, meals.service.ts, the half of createOrder that  *)
(* reads the catalogue and the deletion of an owner (users.service.ts).    *)
(*                                                                         *)
(* Both deletions count the active orders first and delete in a statement  *)
(* of their own; createOrder reads the restaurant and the meals without    *)
(* locking them.  What holds the rows together are the foreign keys of     *)
(* schema.prisma, which wait for a transaction that is inserting.          *)
(***************************************************************************)
EXTENDS Naturals, FiniteSets

CONSTANTS
  Owners, Restaurants, Meals, Orders,
  Handlers,      \* requests that may be in flight at once
  Owner,         \* restaurants.ownerId, which no operation changes
  NoRestaurant, NoOrder, NoRequest

ASSUME OwnerAssumption == Owner \in [Restaurants -> Owners]
ASSUME MarkerAssumption ==
  /\ NoRestaurant \notin Restaurants
  /\ NoOrder \notin [at : Restaurants, items : SUBSET Meals, active : BOOLEAN]

VARIABLES
  owners,      \* the owners that exist
  restaurant,  \* rows of restaurants, with isBlocked
  meal,        \* rows of meals, with isAvailable; nothing sets a meal's isBlocked
  home,        \* meals.restaurantId
  order,       \* orders with their items; is the status in ACTIVE_ORDER_STATUSES?
  stage,       \* what each handler has checked
  req          \* the rows it checked it for

vars == <<owners, restaurant, meal, home, order, stage, req>>
rows == <<owners, restaurant, meal, home, order>>

Init ==
  /\ owners = Owners
  /\ restaurant = [r \in Restaurants |-> "none"]
  /\ meal = [m \in Meals |-> "none"]
  /\ home = [m \in Meals |-> NoRestaurant]
  /\ order = [o \in Orders |-> NoOrder]
  /\ stage = [h \in Handlers |-> "idle"]
  /\ req = [h \in Handlers |-> NoRequest]

Listed(r) == restaurant[r] \in {"open", "blocked"}
Served(m) == meal[m] \in {"available", "unavailable"}
Placed == {o \in Orders : order[o] # NoOrder}
OrdersAt(r) == {o \in Placed : order[o].at = r}
OrdersWith(m) == {o \in Placed : m \in order[o].items}
Active(S) == {o \in S : order[o].active}
MenuOf(r) == {m \in Meals : home[m] = r}

Begin(h, s, r, items) ==
  /\ stage[h] = "idle"
  /\ stage' = [stage EXCEPT ![h] = s]
  /\ req' = [req EXCEPT ![h] = [restaurant |-> r, items |-> items]]

End(h) ==
  /\ stage' = [stage EXCEPT ![h] = "idle"]
  /\ req' = [req EXCEPT ![h] = NoRequest]

CreateRestaurant(r) ==
  /\ restaurant[r] = "none"
  /\ Owner[r] \in owners
  /\ restaurant' = [restaurant EXCEPT ![r] = "open"]
  /\ UNCHANGED <<owners, meal, home, order, stage, req>>

BlockRestaurant(r, standing) ==
  /\ Listed(r)
  /\ restaurant' = [restaurant EXCEPT ![r] = standing]
  /\ UNCHANGED <<owners, meal, home, order, stage, req>>

(* createMeal: verifyRestaurantOwnership, then the insert, whose foreign   *)
(* key fails when the restaurant has gone.                                 *)
VerifyRestaurant(h, r) ==
  /\ Listed(r)
  /\ Begin(h, "adding", r, {})
  /\ UNCHANGED rows

(* Mutant: a meal without a foreign key. *)
CreateMeal_Orphan(h, m) ==
  /\ stage[h] = "adding"
  /\ meal[m] = "none"
  /\ meal' = [meal EXCEPT ![m] = "available"]
  /\ home' = [home EXCEPT ![m] = req[h].restaurant]
  /\ End(h)
  /\ UNCHANGED <<owners, restaurant, order>>

CreateMeal(h, m) ==
  /\ stage[h] = "adding"
  /\ Listed(req[h].restaurant)
  /\ meal[m] = "none"
  /\ meal' = [meal EXCEPT ![m] = "available"]
  /\ home' = [home EXCEPT ![m] = req[h].restaurant]
  /\ End(h)
  /\ UNCHANGED <<owners, restaurant, order>>

UpdateMeal(m, standing) ==
  /\ Served(m)
  /\ meal' = [meal EXCEPT ![m] = standing]
  /\ UNCHANGED <<owners, restaurant, home, order, stage, req>>

(* What a foreign key on a restaurant or a meal lets go of. *)
Unordered(r) == OrdersAt(r) = {} /\ \A m \in MenuOf(r) : OrdersWith(m) = {}

CountOrders(h, r) ==
  /\ Listed(r)
  /\ Active(OrdersAt(r)) = {}
  /\ Begin(h, "closing", r, {})
  /\ UNCHANGED rows

(* The delete of a set of restaurants cascades to their meals. *)
Drop(R) ==
  /\ \A r \in R : Unordered(r)
  /\ restaurant' = [r \in Restaurants |->
                      IF r \in R /\ Listed(r) THEN "deleted" ELSE restaurant[r]]
  /\ meal' = [m \in Meals |->
                IF home[m] \in R /\ Served(m) THEN "deleted" ELSE meal[m]]

DeleteRestaurant(h) ==
  /\ stage[h] = "closing"
  /\ Listed(req[h].restaurant)
  /\ Drop({req[h].restaurant})
  /\ End(h)
  /\ UNCHANGED <<owners, home, order>>

CountItems(h, m) ==
  /\ Served(m)
  /\ Active(OrdersWith(m)) = {}
  /\ Begin(h, "withdrawing", home[m], {m})
  /\ UNCHANGED rows

DeleteMeal(h, m) ==
  /\ stage[h] = "withdrawing" /\ req[h].items = {m}
  /\ Served(m)
  /\ OrdersWith(m) = {}
  /\ meal' = [meal EXCEPT ![m] = "deleted"]
  /\ End(h)
  /\ UNCHANGED <<owners, restaurant, home, order>>

(* The foreign key of an order or of an item refuses the deletion, and the *)
(* error handler answers 400.                                              *)
Refuse(h) ==
  /\ \/ stage[h] = "closing" /\ ~Unordered(req[h].restaurant)
     \/ stage[h] = "withdrawing" /\ \E m \in req[h].items : OrdersWith(m) # {}
  /\ stage' = [stage EXCEPT ![h] = "refused"]
  /\ UNCHANGED <<rows, req>>

(* deleteUser: the rows of an owner cascade to restaurants and meals. *)
DeleteOwner(u) ==
  /\ u \in owners
  /\ owners' = owners \ {u}
  /\ Drop({r \in Restaurants : Owner[r] = u})
  /\ UNCHANGED <<home, order, stage, req>>

(* Mutant: isBlocked is not looked at. *)
ReadRestaurant_Blocked(h, r, items) ==
  /\ Listed(r)
  /\ Begin(h, "ordering", r, items)
  /\ UNCHANGED rows

(* createOrder reads the restaurant, *)
ReadRestaurant(h, r, items) ==
  /\ restaurant[r] = "open"
  /\ Begin(h, "ordering", r, items)
  /\ UNCHANGED rows

(* Mutant: isAvailable is not looked at. *)
ReadMeals_Unavailable(h) ==
  /\ stage[h] = "ordering"
  /\ \A m \in req[h].items : Served(m) /\ home[m] = req[h].restaurant
  /\ stage' = [stage EXCEPT ![h] = "priced"]
  /\ UNCHANGED <<rows, req>>

(* then the meals, *)
ReadMeals(h) ==
  /\ stage[h] = "ordering"
  /\ \A m \in req[h].items :
       meal[m] = "available" /\ home[m] = req[h].restaurant
  /\ stage' = [stage EXCEPT ![h] = "priced"]
  /\ UNCHANGED <<rows, req>>

(* and inserts the order and its items, whose foreign keys lock the rows   *)
(* they name until the commit.                                             *)
PlaceOrder(h, o) ==
  /\ stage[h] = "priced"
  /\ order[o] = NoOrder
  /\ Listed(req[h].restaurant)
  /\ \A m \in req[h].items : Served(m)
  /\ order' = [order EXCEPT ![o] = [at |-> req[h].restaurant,
                                    items |-> req[h].items, active |-> TRUE]]
  /\ End(h)
  /\ UNCHANGED <<owners, restaurant, meal, home>>

(* A status change that enters or leaves ACTIVE_ORDER_STATUSES; overlapping *)
(* changes may bring an order back (OnlyARaceReopens of OrderStatus).       *)
ChangeStatus(o) ==
  /\ order[o] # NoOrder
  /\ order' = [order EXCEPT ![o].active = ~@]
  /\ UNCHANGED <<owners, restaurant, meal, home, stage, req>>

(* Mutant: the handler is not released. *)
Fail_KeepsStage(h) ==
  /\ stage[h] # "idle"
  /\ req' = [req EXCEPT ![h] = NoRequest]
  /\ UNCHANGED <<rows, stage>>

(* The answer is sent, a check or a statement fails, or the process dies. *)
Fail(h) ==
  /\ stage[h] # "idle"
  /\ End(h)
  /\ UNCHANGED rows

Handle(h) ==
  \/ \E r \in Restaurants : VerifyRestaurant(h, r) \/ CountOrders(h, r)
  \/ \E r \in Restaurants, items \in SUBSET Meals \ {{}} : ReadRestaurant(h, r, items)
  \/ \E m \in Meals : CreateMeal(h, m) \/ CountItems(h, m) \/ DeleteMeal(h, m)
  \/ \E o \in Orders : PlaceOrder(h, o)
  \/ DeleteRestaurant(h) \/ Refuse(h) \/ ReadMeals(h) \/ Fail(h)

Next ==
  \/ \E h \in Handlers : Handle(h)
  \/ \E r \in Restaurants : CreateRestaurant(r)
  \/ \E r \in Restaurants, standing \in {"open", "blocked"} : BlockRestaurant(r, standing)
  \/ \E m \in Meals, standing \in {"available", "unavailable"} : UpdateMeal(m, standing)
  \/ \E u \in Owners : DeleteOwner(u)
  \/ \E o \in Orders : ChangeStatus(o)

Spec == Init /\ [][Next]_vars

-----------------------------------------------------------------------------
Order == [at : Restaurants, items : SUBSET Meals, active : BOOLEAN]
Request == [restaurant : Restaurants, items : SUBSET Meals]

(* Every variable has the shape of the code's rows and requests. *)
TypeOK ==
  /\ owners \subseteq Owners
  /\ restaurant \in [Restaurants -> {"none", "open", "blocked", "deleted"}]
  /\ meal \in [Meals -> {"none", "available", "unavailable", "deleted"}]
  /\ home \in [Meals -> Restaurants \cup {NoRestaurant}]
  /\ order \in [Orders -> Order \cup {NoOrder}]
  /\ stage \in [Handlers -> {"idle", "adding", "closing", "withdrawing",
                             "refused", "ordering", "priced"}]
  /\ req \in [Handlers -> Request \cup {NoRequest}]
  /\ \A h \in Handlers : stage[h] # "idle" => req[h] \in Request

(* No row outlives the row it names, whatever was counted or checked       *)
(* before: not an order that is placed while its restaurant or a meal is   *)
(* being deleted, nor a meal that is added while its restaurant or the     *)
(* restaurant's owner is.                                                  *)
ReferencesResolve ==
  /\ \A o \in Placed : Listed(order[o].at) /\ \A m \in order[o].items : Served(m)
  /\ \A m \in Meals : Served(m) => home[m] \in Restaurants /\ Listed(home[m])
  /\ \A r \in Restaurants : Listed(r) => Owner[r] \in owners

(* An order buys from one restaurant only, so that the cascade from a      *)
(* restaurant nobody ordered at meets no ordered meal.                     *)
OneKitchen == \A o \in Placed : \A m \in order[o].items : home[m] = order[o].at

OrderingAt(r) ==
  {h \in Handlers : stage[h] \in {"ordering", "priced"} /\ req[h].restaurant = r}

(* createOrder reads a restaurant without a lock.  The orders it was       *)
(* working on when the block committed are all that a blocked restaurant   *)
(* may still take, each of them once: no other begins while the block      *)
(* lasts.                                                                  *)
BlockedTakesNoOrders ==
  [][\A r \in Restaurants : restaurant[r] = "blocked" =>
       /\ OrderingAt(r)' \subseteq OrderingAt(r)
       /\ \/ OrdersAt(r)' = OrdersAt(r)
          \/ \E h \in OrderingAt(r), o \in Orders :
               /\ OrdersAt(r)' = OrdersAt(r) \cup {o}
               /\ OrderingAt(r)' = OrderingAt(r) \ {h}]_vars

Ordering(m) == {h \in Handlers : stage[h] = "priced" /\ m \in req[h].items}

(* The same of a meal that is taken off the menu: it is sold only by the   *)
(* orders that had read it, each of them once.                             *)
UnavailableIsNotSold ==
  [][\A m \in Meals : meal[m] = "unavailable" =>
       /\ Ordering(m)' \subseteq Ordering(m)
       /\ \/ OrdersWith(m)' = OrdersWith(m)
          \/ \E h \in Ordering(m), o \in Orders :
               /\ OrdersWith(m)' = OrdersWith(m) \cup {o}
               /\ Ordering(m)' = Ordering(m) \ {h}]_vars
=============================================================================
