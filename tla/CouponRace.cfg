\* Three checkouts at a time, of four, while the owner edits the coupon.
SPECIFICATION Spec
CONSTANTS
  Coupons = {c1}
  Customers = {alice, bob}
  Orders = {o1, o2, o3, o4}
  Handlers = {h1, h2, h3}
  Limits = {1, 2}
  Unlimited = Unlimited
  NoOrder = NoOrder
  NoCoupon = NoCoupon
  NoTx = NoTx
SYMMETRY Symmetry
CHECK_DEADLOCK FALSE
INVARIANTS
  TypeOK
  CounterExact
  UsagesMatchOrders
  OvershootBounded
PROPERTIES
  ImplementsLedger
