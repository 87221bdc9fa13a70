\* Two orders and a coupon, two requests at a time.
SPECIFICATION Spec
CONSTANTS
  Owners = {u1}
  Restaurants = {r1, r2}
  Meals = {m1}
  Owner <- MCOwner
  Coupons = {c1}
  Customers = {alice}
  Limits = {1}
  Unlimited = Unlimited
  Orders = {o1, o2}
  Managers = {g1}
  Handlers = {h1, h2}
  NoRestaurant = NoRestaurant
  NoOrder = NoOrder
  NoRequest = NoRequest
  NoCoupon = NoCoupon
  NoTx = NoTx
SYMMETRY Symmetry
CONSTRAINT AtOnce
CHECK_DEADLOCK FALSE
INVARIANTS
  TypeOK
  CouponsStayHome
PROPERTIES
  ImplementsCatalogue
  ImplementsCoupons
