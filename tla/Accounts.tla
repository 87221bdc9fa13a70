------------------------------- MODULE Accounts -------------------------------
(***************************************************************************)
(* The accounts: registration, login, profile and user administration      *)
(* (auth.service.ts, users.service.ts) and the seed of the built-in        *)
(* administrator (prisma/seed.ts), over one table of users.                *)
(*                                                                         *)
(* A call is one run of a service function, or of the seed.  It reads,     *)
(* decides in memory, hashes for a while, and then writes by id: its       *)
(* statements are steps of their own and other calls run between them.     *)
(* The row a call inserts is named after the call.  Emails are taken as    *)
(* the schemas and the seed leave them, in lower case.  What the changes   *)
(* do to refresh tokens and to the user cache is in Sessions and UserCache.*)
(***************************************************************************)
EXTENDS OrderTransitions

CONSTANTS
  Calls,          \* calls, and the rows they insert
  Emails,
  AdminEmail,     \* ADMIN_EMAIL of the seed
  Passwords,
  AdminPassword,  \* ADMIN_PASSWORD of the seed
  Requests,       \* the inputs calls are made with
  Fresh, Gone,    \* a row not inserted yet; a row deleted
  None            \* a field that is not given

Account ==
  [email : Emails, password : Passwords, role : Roles,
   isBlocked : BOOLEAN, isBuiltInAdmin : BOOLEAN]

ASSUME MarkersAssumption ==
  /\ Fresh \notin Account /\ Gone \notin Account /\ Fresh # Gone
  /\ None \notin Emails \cup Passwords \cup Calls
  /\ None \notin Roles /\ None \notin BOOLEAN
  /\ AdminEmail \in Emails
  /\ AdminPassword \in Passwords

VARIABLES
  users,   \* rows of users
  call,    \* the input of each call, with the row a login found
  stage,   \* what each call does next, or how it was answered
  truths,  \* ghost: what was true of its input at some moment of each call
  left     \* ghost: rows that gave up the email they were inserted with

vars == <<users, call, stage, truths, left>>

-----------------------------------------------------------------------------
(* Inputs *)

Optional(S) == S \cup {None}

Request(op, target, email, password, role, isBlocked) ==
  [op : {op}, target : target, email : email, password : password,
   role : role, isBlocked : isBlocked]

Input ==
  Request("register", {None}, Emails, Passwords, Roles \ {"ADMIN"}, {None})
    \cup Request("createUser", {None}, Emails, Passwords, Roles, {None})
    \cup Request("seed", {None}, {AdminEmail}, {AdminPassword}, {"ADMIN"}, {None})
    \cup Request("login", {None}, Emails, Passwords, {None}, {None})
    \cup Request("updateUser", Calls, Optional(Emails), Optional(Passwords),
                 Optional(Roles), {None})
    \cup Request("updateProfile", Calls, {None}, Optional(Passwords), {None}, {None})
    \cup Request("blockUser", Calls, {None}, {None}, {None}, BOOLEAN)
    \cup Request("deleteUser", Calls, {None}, {None}, {None}, {None})
    \cup Request("getUser", Calls, {None}, {None}, {None}, {None})

(* A login that has found its user. *)
FoundLogin == Request("login", Calls, Emails, Passwords, {None}, {None})

ASSUME RequestsAssumption == Requests \subseteq Input

Inserting == {"register", "createUser", "seed"}
Administering == {"createUser", "updateUser", "blockUser", "deleteUser", "getUser"}

-----------------------------------------------------------------------------
(* The table *)

Live(i) == users[i] \notin {Fresh, Gone}

HeldBy(email, i) == Live(i) /\ users[i].email = email

Held(email) == \E i \in Calls : HeldBy(email, i)

HeldByAnother(email, i) == \E j \in Calls \ {i} : HeldBy(email, j)

Admits(email, password) ==
  \E i \in Calls :
    HeldBy(email, i) /\ users[i].password = password /\ ~users[i].isBlocked

BuiltIn(i) == i \in Calls /\ Live(i) /\ users[i].isBuiltInAdmin

(* A change that would leave the built-in administrator another role. *)
Demotes(c) == BuiltIn(c.target) /\ c.op = "updateUser" /\ c.role \notin {None, "ADMIN"}

Inserted(i) == users[i] # Fresh

Seeded == \E s \in Calls : Inserted(s) /\ call[s].op = "seed"

Row(c) ==
  [email |-> c.email, password |-> c.password, role |-> c.role,
   isBlocked |-> FALSE, isBuiltInAdmin |-> c.op = "seed"]

(* The data object of an update: fields that are not given stay. *)
Given(value, old) == IF value = None THEN old ELSE value

Edited_NoGuards(u, c) ==
  [u EXCEPT !.email = c.email, !.password = c.password]

Edited(u, c) ==
  [u EXCEPT !.email = Given(c.email, @),
            !.password = Given(c.password, @),
            !.role = Given(c.role, @),
            !.isBlocked = Given(c.isBlocked, @)]

-----------------------------------------------------------------------------
(* Calls *)

(* What an answer tells the client of the users at some moment of its call. *)
Says ==
  [created |-> "free", conflict |-> "taken", found |-> "present",
   notFound |-> "absent", forbidden |-> "builtIn", unprocessable |-> "demoted",
   session |-> "admitted", refused |-> "notAdmitted"]

Facts ==
  {"free", "taken", "present", "absent", "builtIn", "demoted",
   "admitted", "notAdmitted"}

When(condition, fact) == IF condition THEN {fact} ELSE {}

Truths(c) ==
  When(~Held(c.email), "free")
    \cup When(HeldByAnother(c.email, c.target), "taken")
    \cup When(c.target \in Calls /\ Live(c.target), "present")
    \cup When(c.target \in Calls /\ ~Live(c.target), "absent")
    \cup When(BuiltIn(c.target), "builtIn")
    \cup When(Demotes(c), "demoted")
    \cup When(Admits(c.email, c.password), "admitted")
    \cup When(~Admits(c.email, c.password), "notAdmitted")

Waiting == {"checking", "writing", "issuing"}

Answers == DOMAIN Says \cup {"updated", "deleted", "kept", "error"}

(* The step that takes call r, made with c, to stage s. *)
Goes(r, c, s) ==
  /\ call' = [call EXCEPT ![r] = c]
  /\ stage' = [stage EXCEPT ![r] = s]
  /\ truths' = [q \in Calls |->
       IF q = r THEN truths[q] \cup Truths(c)
       ELSE IF stage[q] \in Waiting THEN truths[q] \cup Truths(call[q])
       ELSE truths[q]]

Continues(r, s) == Goes(r, call[r], s)

ReadsOnly == UNCHANGED <<users, left>>

(* A call may begin.  Who is let in is UserCache's: here every             *)
(* administrator comes after the seed, and a profile is changed by a user  *)
(* who has been there.                                                     *)
Arrives(r, c, ops) ==
  /\ stage[r] = "idle"
  /\ c.op \in ops
  /\ c.op \in Administering => Seeded
  /\ c.op = "updateProfile" => Inserted(c.target)

-----------------------------------------------------------------------------
Init ==
  /\ users = [i \in Calls |-> Fresh]
  /\ call = [r \in Calls |-> None]
  /\ stage = [r \in Calls |-> "idle"]
  /\ truths = [r \in Calls |-> {}]
  /\ left = {}

(* register, createUser and the seed look the email up first; the seed is  *)
(* content with whoever holds it.                                          *)
LookUpEmail(r, c) ==
  /\ Arrives(r, c, Inserting)
  /\ Goes(r, c, IF ~Held(c.email) THEN "writing"
                ELSE IF c.op = "seed" THEN "kept" ELSE "conflict")
  /\ ReadsOnly

InsertUser_NotUnique(r) ==
  /\ stage[r] = "writing"
  /\ call[r].op \in Inserting
  /\ users' = [users EXCEPT ![r] = Row(call[r])]
  /\ Continues(r, IF call[r].op = "register" THEN "issuing" ELSE "created")
  /\ UNCHANGED left

(* The password is hashed; the UNIQUE column decides.  Its refusal reaches *)
(* the client as the same 409; the seed exits with 1.                      *)
InsertUser(r) ==
  /\ stage[r] = "writing"
  /\ call[r].op \in Inserting
  /\ \/ /\ ~Held(call[r].email)
        /\ users' = [users EXCEPT ![r] = Row(call[r])]
        /\ Continues(r, IF call[r].op = "register" THEN "issuing" ELSE "created")
     \/ /\ Held(call[r].email)
        /\ Continues(r, IF call[r].op = "seed" THEN "error" ELSE "conflict")
        /\ UNCHANGED users
  /\ UNCHANGED left

(* One read of the row; the password is compared with what it held. *)
Login(r, c) ==
  /\ Arrives(r, c, {"login"})
  /\ \/ \E i \in Calls :
          /\ HeldBy(c.email, i)
          /\ users[i].password = c.password /\ ~users[i].isBlocked
          /\ Goes(r, [c EXCEPT !.target = i], "issuing")
     \/ /\ ~Admits(c.email, c.password)
        /\ Goes(r, c, "refused")
  /\ ReadsOnly

(* The refresh token of register and login refers to the user's row. *)
InsertToken(r) ==
  /\ stage[r] = "issuing"
  /\ LET owner == IF call[r].op = "register" THEN r ELSE call[r].target
     IN Continues(r, IF ~Live(owner) THEN "error"
                     ELSE IF call[r].op = "register" THEN "created" ELSE "session")
  /\ ReadsOnly

FindUser_AnyRole(r, c) ==
  /\ Arrives(r, c, {"updateUser", "blockUser", "deleteUser"})
  /\ Goes(r, c,
       IF ~Live(c.target) THEN "notFound"
       ELSE IF BuiltIn(c.target) /\ c.op # "updateUser" THEN "forbidden"
       ELSE IF c.email # None THEN "checking"
       ELSE "writing")
  /\ ReadsOnly

(* The first read of the administrator's changes.  Of the built-in         *)
(* administrator a block and a deletion are forbidden (403) and another    *)
(* role is against the rules (422).                                        *)
FindUser(r, c) ==
  /\ Arrives(r, c, {"updateUser", "blockUser", "deleteUser"})
  /\ Goes(r, c,
       IF ~Live(c.target) THEN "notFound"
       ELSE IF Demotes(c) THEN "unprocessable"
       ELSE IF BuiltIn(c.target) /\ c.op # "updateUser" THEN "forbidden"
       ELSE IF c.email # None THEN "checking"
       ELSE "writing")
  /\ ReadsOnly

CheckEmail_OwnIsTaken(r) ==
  /\ stage[r] = "checking"
  /\ Continues(r, IF Held(call[r].email) THEN "conflict" ELSE "writing")
  /\ ReadsOnly

CheckEmail(r) ==
  /\ stage[r] = "checking"
  /\ Continues(r, IF HeldByAnother(call[r].email, call[r].target)
                  THEN "conflict" ELSE "writing")
  /\ ReadsOnly

(* updateProfile reads nothing first: its update finds the row or not. *)
UpdateProfile(r, c) ==
  /\ Arrives(r, c, {"updateProfile"})
  /\ Goes(r, c, "writing")
  /\ ReadsOnly

(* An update by id: no row is a 404 (P2025), a taken email a 409 (P2002). *)
UpdateUser(r) ==
  /\ stage[r] = "writing"
  /\ call[r].op \in {"updateUser", "updateProfile", "blockUser"}
  /\ LET c == call[r]
         i == c.target
     IN \/ /\ ~Live(i)
           /\ Continues(r, "notFound")
           /\ ReadsOnly
        \/ /\ Live(i) /\ HeldByAnother(c.email, i)
           /\ Continues(r, "conflict")
           /\ ReadsOnly
        \/ /\ Live(i) /\ ~HeldByAnother(c.email, i)
           /\ users' = [users EXCEPT ![i] = Edited(@, c)]
           /\ left' = left \cup {j \in {i} : Given(c.email, users[j].email) # users[j].email}
           /\ Continues(r, "updated")

(* The user and the tokens go in one transaction. *)
DeleteUser(r) ==
  /\ stage[r] = "writing"
  /\ call[r].op = "deleteUser"
  /\ LET i == call[r].target
     IN \/ /\ ~Live(i)
           /\ Continues(r, "notFound")
           /\ ReadsOnly
        \/ /\ Live(i)
           /\ users' = [users EXCEPT ![i] = Gone]
           /\ left' = left \cup {i}
           /\ Continues(r, "deleted")

(* getUserById, and getProfile of the caller. *)
GetUser(r, c) ==
  /\ Arrives(r, c, {"getUser"})
  /\ Goes(r, c, IF Live(c.target) THEN "found" ELSE "notFound")
  /\ ReadsOnly

(* A statement fails: the client is told of an error, and what was written *)
(* before stays.  An order or a restaurant of a user who is deleted is one *)
(* reason.                                                                 *)
Fail(r) ==
  /\ stage[r] \in Waiting
  /\ Continues(r, "error")
  /\ ReadsOnly

Next ==
  \E r \in Calls :
    \/ InsertUser(r) \/ InsertToken(r) \/ CheckEmail(r)
    \/ UpdateUser(r) \/ DeleteUser(r) \/ Fail(r)
    \/ \E c \in Requests :
         \/ LookUpEmail(r, c) \/ Login(r, c) \/ FindUser(r, c)
         \/ UpdateProfile(r, c) \/ GetUser(r, c)

Spec == Init /\ [][Next]_vars

-----------------------------------------------------------------------------
(* Properties *)

(* The rows, calls and ghosts keep their types: no update writes a field   *)
(* that was not given.                                                     *)
TypeOK ==
  /\ users \in [Calls -> Account \cup {Fresh, Gone}]
  /\ call \in [Calls -> Input \cup FoundLogin \cup {None}]
  /\ stage \in [Calls -> {"idle"} \cup Waiting \cup Answers]
  /\ truths \in [Calls -> SUBSET Facts]
  /\ left \subseteq Calls

(* However calls for one email overlap, be they registrations, seeds or    *)
(* changes of an email, it is won once: no two accounts hold it, and of    *)
(* the rows that were inserted with it at most one has neither been        *)
(* deleted nor been given another.  It holds of registrations whose token  *)
(* then failed, and of the seed, which makes a second built-in             *)
(* administrator only after the first has changed its email.               *)
OneWinner ==
  /\ \A i, j \in Calls :
       Live(i) /\ Live(j) /\ users[i].email = users[j].email => i = j
  /\ \A i, j \in Calls \ left :
       Inserted(i) /\ Inserted(j) /\ call[i].email = call[j].email => i = j

(* Once the seed has made the built-in administrator the service has an    *)
(* administrator who is not blocked, whatever administrators do to         *)
(* accounts at the same time: the refusals are decided on a row read       *)
(* earlier than the write they allow.                                      *)
AdminRemains ==
  Seeded => \E i \in Calls :
              Live(i) /\ users[i].role = "ADMIN" /\ ~users[i].isBlocked

(* An answer was true at some moment of its call: a 409 when another       *)
(* account held the email, a 404 when the row was not there, a 403 for the *)
(* built-in administrator, a 422 when it was to lose its role, a session   *)
(* when the password was the account's and it was not blocked, a 401 when  *)
(* that was not so, a new account when its email was free.  A call that    *)
(* failed tells the client nothing.                                        *)
AnswersWereTrue ==
  \A r \in Calls : stage[r] \in DOMAIN Says => Says[stage[r]] \in truths[r]

=============================================================================
