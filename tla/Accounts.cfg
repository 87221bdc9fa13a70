\* Four calls overlap: the seed, registrations, logins and administration.
SPECIFICATION Spec
CONSTANTS
  admin = admin
  ann = ann
  p1 = p1
  p2 = p2
  Calls = {c1, c2, c3, c4}
  Emails = {admin, ann}
  AdminEmail = admin
  Passwords = {p1, p2}
  AdminPassword = p1
  Requests <- MCRequests
  Fresh = Fresh
  Gone = Gone
  None = None
SYMMETRY Symmetry
INVARIANTS
  TypeOK
  OneWinner
  AdminRemains
  AnswersWereTrue
CHECK_DEADLOCK FALSE
