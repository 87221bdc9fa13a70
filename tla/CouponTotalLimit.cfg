\* Two checkouts of one coupon pass the total limit together.
SPECIFICATION Spec
CONSTANTS
  Coupons = {c1}
  Customers = {alice, bob}
  Orders = {o1, o2}
  Handlers = {h1, h2}
  Limits = {1}
  Unlimited = Unlimited
  NoOrder = NoOrder
  NoCoupon = NoCoupon
  NoTx = NoTx
SYMMETRY Symmetry
CHECK_DEADLOCK FALSE
INVARIANTS
  TotalLimitHolds
