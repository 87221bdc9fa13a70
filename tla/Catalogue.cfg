\* Orders on two restaurants of one owner, while these are edited and deleted.
SPECIFICATION Spec
CONSTANTS
  Owners = {u1}
  Restaurants = {r1, r2}
  Meals = {m1, m2}
  Orders = {o1, o2}
  Handlers = {h1, h2}
  Owner <- MCOwner
  NoRestaurant = NoRestaurant
  NoOrder = NoOrder
  NoRequest = NoRequest
SYMMETRY Symmetry
CHECK_DEADLOCK FALSE
INVARIANTS
  TypeOK
  ReferencesResolve
PROPERTIES
  BlockedTakesNoOrders
  UnavailableIsNotSold
