------------------------------ MODULE MCAccounts ------------------------------
(* An instance of Accounts for TLC: the requests that meet one another on  *)
(* two emails, for every target.                                           *)
EXTENDS Accounts, TLC

CONSTANTS admin, ann, p1, p2

MCRequests ==
  Request("seed", {None}, {admin}, {p1}, {"ADMIN"}, {None})
    \cup Request("register", {None}, {admin, ann}, {p1}, {"CUSTOMER"}, {None})
    \cup Request("createUser", {None}, {admin, ann}, {p2}, {"ADMIN"}, {None})
    \cup Request("login", {None}, {admin, ann}, {p1, p2}, {None}, {None})
    \cup Request("updateUser", Calls, {ann, admin}, {None}, {None}, {None})
    \cup Request("updateUser", Calls, {None}, {p2}, {"CUSTOMER"}, {None})
    \cup Request("updateProfile", Calls, {None}, {p2}, {None}, {None})
    \cup Request("blockUser", Calls, {None}, {None}, {None}, BOOLEAN)
    \cup Request("deleteUser", Calls, {None}, {None}, {None}, {None})
    \cup Request("getUser", Calls, {None}, {None}, {None}, {None})

Symmetry == Permutations(Calls)
=============================================================================
