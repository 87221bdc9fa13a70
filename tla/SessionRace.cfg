\* Two requests of one user, and an administrator, over a handful of tokens.
SPECIFICATION Spec
CONSTANTS
  Users = {alice}
  Tokens = {t1, t2, t3, t4, t5}
  Handlers = {h1, h2}
  NoUser = NoUser
  NoToken = NoToken
  NoRequest = NoRequest
SYMMETRY Symmetry
CHECK_DEADLOCK FALSE
INVARIANTS
  TypeOK
  TokensHaveUsers
  RotationsBounded
PROPERTIES
  BlockedStaysOut
  OnlyLoginRevives
