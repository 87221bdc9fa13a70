-------------------------------- MODULE Sessions --------------------------------
(***************************************************************************)
(* Refresh tokens: issued by register and login, rotated by refreshTokens, *)
(* revoked by logout (auth.service.ts) and by an administrator's block or  *)
(* deletion of the user (users.service.ts).                                *)
(*                                                                         *)
(* No handler locks what it read: login and refreshTokens check the user   *)
(* and the token first and write later, blockUser writes the user and then *)
(* the tokens.  Each statement commits on its own, except that a rotation  *)
(* and a deletion are each one batch transaction.                          *)
(***************************************************************************)
EXTENDS Naturals, FiniteSets

CONSTANTS
  Users,
  Tokens,     \* jtis; a new token takes one that was never issued
  Handlers,   \* requests that may be in flight at once
  NoUser, NoToken, NoRequest

ASSUME HandlersAssumption == IsFiniteSet(Handlers)
ASSUME MarkersAssumption == NoUser \notin Users /\ NoToken \notin Tokens

VARIABLES
  account,  \* rows of users: "none" before, "deleted" after they exist
  row,      \* rows of refresh_tokens, likewise "unissued" and "gone"
  owner,    \* refresh_tokens.userId
  stage,    \* what each handler has checked and is about to write
  req,      \* the user and the token it is about to write for
  parent    \* ghost: the token each rotated token was issued for

vars == <<account, row, owner, stage, req, parent>>

Init ==
  /\ account = [u \in Users |-> "none"]
  /\ row = [t \in Tokens |-> "unissued"]
  /\ owner = [t \in Tokens |-> NoUser]
  /\ stage = [h \in Handlers |-> "idle"]
  /\ req = [h \in Handlers |-> NoRequest]
  /\ parent = [t \in Tokens |-> NoToken]

Exists(u) == account[u] \in {"active", "blocked"}

Begin(h, s, u, t) ==
  /\ stage[h] = "idle"
  /\ stage' = [stage EXCEPT ![h] = s]
  /\ req' = [req EXCEPT ![h] = [user |-> u, token |-> t]]

End(h) ==
  /\ stage' = [stage EXCEPT ![h] = "idle"]
  /\ req' = [req EXCEPT ![h] = NoRequest]

(* register creates the user, and goes on as a login does. *)
Register(h, u) ==
  /\ account[u] = "none"
  /\ account' = [account EXCEPT ![u] = "active"]
  /\ Begin(h, "login", u, NoToken)
  /\ UNCHANGED <<row, owner, parent>>

(* Mutant: a blocked user may log in. *)
Login_Blocked(h, u) ==
  /\ Exists(u)
  /\ Begin(h, "login", u, NoToken)
  /\ UNCHANGED <<account, row, owner, parent>>

(* login reads the user; comparing the password takes its time. *)
Login(h, u) ==
  /\ account[u] = "active"
  /\ Begin(h, "login", u, NoToken)
  /\ UNCHANGED <<account, row, owner, parent>>

Insert(t, u, p) ==
  /\ row[t] = "unissued"
  /\ owner' = [owner EXCEPT ![t] = u]
  /\ parent' = [parent EXCEPT ![t] = p]

(* Mutant: without the foreign key. *)
IssueToken_Orphan(h, t) ==
  /\ stage[h] = "login"
  /\ Insert(t, req[h].user, NoToken)
  /\ row' = [row EXCEPT ![t] = "live"]
  /\ End(h)
  /\ UNCHANGED account

(* The first token of a session; its foreign key fails without the user. *)
IssueToken(h, t) ==
  /\ stage[h] = "login"
  /\ Exists(req[h].user)
  /\ Insert(t, req[h].user, NoToken)
  /\ row' = [row EXCEPT ![t] = "live"]
  /\ End(h)
  /\ UNCHANGED account

(* Mutant: isRevoked is not looked at. *)
ReadToken_Revoked(h, t) ==
  /\ row[t] \in {"live", "revoked"}
  /\ account[owner[t]] = "active"
  /\ Begin(h, "refresh", owner[t], t)
  /\ UNCHANGED <<account, row, owner, parent>>

(* refreshTokens reads the presented token with its user. *)
ReadToken(h, t) ==
  /\ row[t] = "live"
  /\ account[owner[t]] = "active"
  /\ Begin(h, "refresh", owner[t], t)
  /\ UNCHANGED <<account, row, owner, parent>>

(* Mutant: the old token is not revoked. *)
Rotate_KeepsOld(h, t) ==
  /\ stage[h] = "refresh"
  /\ row[req[h].token] # "gone"
  /\ Insert(t, req[h].user, req[h].token)
  /\ row' = [row EXCEPT ![t] = "live"]
  /\ End(h)
  /\ UNCHANGED account

(* One batch: revoke the old row, which must still be there, and insert    *)
(* the new one.                                                            *)
Rotate(h, t) ==
  /\ stage[h] = "refresh"
  /\ row[req[h].token] # "gone"
  /\ Insert(t, req[h].user, req[h].token)
  /\ row' = [row EXCEPT ![req[h].token] = "revoked", ![t] = "live"]
  /\ End(h)
  /\ UNCHANGED account

(* Time passes expiresAt. *)
ExpireToken(t) ==
  /\ row[t] = "live"
  /\ row' = [row EXCEPT ![t] = "expired"]
  /\ UNCHANGED <<account, owner, stage, req, parent>>

OwnedBy(u) == {t \in Tokens : owner[t] = u}

RevokeAll(u) ==
  row' = [t \in Tokens |->
            IF t \in OwnedBy(u) /\ row[t] \in {"live", "expired"}
            THEN "revoked" ELSE row[t]]

(* The caller holds an access token, so was given a refresh token once. *)
Logout(u) ==
  /\ OwnedBy(u) # {}
  /\ RevokeAll(u)
  /\ UNCHANGED <<account, owner, stage, req, parent>>

BlockUser(h, u) ==
  /\ Exists(u)
  /\ account' = [account EXCEPT ![u] = "blocked"]
  /\ Begin(h, "block", u, NoToken)
  /\ UNCHANGED <<row, owner, parent>>

RevokeBlocked(h) ==
  /\ stage[h] = "block"
  /\ RevokeAll(req[h].user)
  /\ End(h)
  /\ UNCHANGED <<account, owner, parent>>

UnblockUser(u) ==
  /\ Exists(u)
  /\ account' = [account EXCEPT ![u] = "active"]
  /\ UNCHANGED <<row, owner, stage, req, parent>>

(* One batch, and the foreign key cascades to a token inserted during it.  *)
(* A user with orders is not deleted: their foreign key refuses.           *)
DeleteUser(u) ==
  /\ Exists(u)
  /\ account' = [account EXCEPT ![u] = "deleted"]
  /\ row' = [t \in Tokens |-> IF t \in OwnedBy(u) THEN "gone" ELSE row[t]]
  /\ UNCHANGED <<owner, stage, req, parent>>

(* Mutant: the handler is not released. *)
Fail_KeepsStage(h) ==
  /\ stage[h] # "idle"
  /\ req' = [req EXCEPT ![h] = NoRequest]
  /\ UNCHANGED <<account, row, owner, stage, parent>>

(* A wrong password, a failed statement or a crash of the process. *)
Fail(h) ==
  /\ stage[h] # "idle"
  /\ End(h)
  /\ UNCHANGED <<account, row, owner, parent>>

Handle(h) ==
  \/ \E u \in Users : Register(h, u) \/ Login(h, u) \/ BlockUser(h, u)
  \/ \E t \in Tokens : IssueToken(h, t) \/ ReadToken(h, t) \/ Rotate(h, t)
  \/ RevokeBlocked(h)
  \/ Fail(h)

Next ==
  \/ \E h \in Handlers : Handle(h)
  \/ \E u \in Users : Logout(u) \/ UnblockUser(u) \/ DeleteUser(u)
  \/ \E t \in Tokens : ExpireToken(t)

Spec == Init /\ [][Next]_vars

-----------------------------------------------------------------------------
Request == [user : Users, token : Tokens \cup {NoToken}]

(* Every variable has the shape the code's rows and requests have. *)
TypeOK ==
  /\ account \in [Users -> {"none", "active", "blocked", "deleted"}]
  /\ row \in [Tokens -> {"unissued", "live", "expired", "revoked", "gone"}]
  /\ owner \in [Tokens -> Users \cup {NoUser}]
  /\ stage \in [Handlers -> {"idle", "login", "refresh", "block"}]
  /\ req \in [Handlers -> Request \cup {NoRequest}]
  /\ parent \in [Tokens -> Tokens \cup {NoToken}]
  /\ \A h \in Handlers : stage[h] # "idle" => req[h] \in Request
  /\ \A h \in Handlers : stage[h] = "refresh" => req[h].token \in Tokens

Stored == {t \in Tokens : row[t] \in {"live", "expired", "revoked"}}

(* Every stored token belongs to a user who exists, also when a login or a *)
(* rotation overlaps the user's deletion.                                  *)
TokensHaveUsers == \A t \in Stored : owner[t] \in Users /\ Exists(owner[t])

RotatedFrom(t) == {s \in Tokens : parent[s] = t}
Refreshing(t) == {h \in Handlers : stage[h] = "refresh" /\ req[h].token = t}
Width == Cardinality(Handlers)

(* A refresh token is good for more than one rotation only if they overlap: *)
(* for no more of them than run at once, whatever happens to the token.     *)
RotationsBounded ==
  \A t \in Tokens :
    Cardinality(RotatedFrom(t)) + Cardinality(Refreshing(t)) <= Width

(* A token is rotated at most once. *)
SingleUse == \A t \in Tokens : Cardinality(RotatedFrom(t)) <= 1

EnteringAs(u) == {h \in Handlers : stage[h] \in {"login", "refresh"} /\ req[h].user = u}

(* However a block overlaps logins and refreshes, those that were in       *)
(* flight when it committed are all that a blocked user still has: no      *)
(* other begins while the block lasts, and each is good for one token,     *)
(* with which it ends.  It holds when the revocation fails as well.        *)
BlockedStaysOut ==
  [][\A u \in Users : account[u] = "blocked" =>
       /\ EnteringAs(u)' \subseteq EnteringAs(u)
       /\ \/ OwnedBy(u)' = OwnedBy(u)
          \/ \E h \in EnteringAs(u), t \in Tokens :
               /\ OwnedBy(u)' = OwnedBy(u) \cup {t}
               /\ EnteringAs(u)' = EnteringAs(u) \ {h}]_vars

Ended(u) ==
  /\ \A t \in OwnedBy(u) : row[t] # "live"
  /\ \A t \in OwnedBy(u) : Refreshing(t) = {}

(* A user whose tokens are all revoked, expired or deleted, and none of    *)
(* them being rotated, comes back only through the password.               *)
OnlyLoginRevives ==
  [][\A u \in Users : Ended(u) =>
       Ended(u)' \/ \E h \in Handlers, t \in Tokens : IssueToken(h, t)]_vars
=============================================================================
