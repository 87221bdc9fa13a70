\* Two requests on one order: a terminal status can be overwritten.
SPECIFICATION Spec
CONSTANTS
  o1 = o1
  o2 = o2
  alice = alice
  bob = bob
  olga = olga
  oskar = oskar
  root = root
  Orders = {o1}
  Handlers = {h1, h2}
  Actors <- MCParties
  CustomerId <- MCCustomerId
  OwnerId <- MCOwnerId
  Unplaced = Unplaced
  NoTx = NoTx
  MaxHistory = 6
CHECK_DEADLOCK FALSE
PROPERTIES
  TerminalIsFinal
