\* Lookups against changes of one user.
SPECIFICATION Spec
CONSTANTS
  customer = customer
  owner = owner
  blocked = blocked
  Users = {alice}
  Accounts = {customer, owner, blocked}
  Blocked = blocked
  Gone = Gone
  Handlers = {h1, h2}
  TTL = 2
  Delay = 1
  NoEntry = NoEntry
  NoRequest = NoRequest
INVARIANTS
  TypeOK
  StalenessBounded
PROPERTIES
  BlockedIsShutOut
