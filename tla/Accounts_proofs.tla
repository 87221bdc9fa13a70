---------------------------- MODULE Accounts_proofs ----------------------------
(***************************************************************************)
(* Theorems of Accounts, for any calls, emails, passwords and requests.    *)
(***************************************************************************)
EXTENDS Accounts, TLAPS

(* The UNIQUE column. *)
EmailsUnique ==
  \A i, j \in Calls :
    Live(i) /\ Live(j) /\ users[i].email = users[j].email => i = j

(* A row keeps its email until it gives it up. *)
KeptEmails ==
  \A i \in Calls :
    Inserted(i) /\ i \notin left => Live(i) /\ users[i].email = call[i].email

(* The built-in administrators stand. *)
SeedsStand ==
  \A i \in Calls :
    Inserted(i) /\ call[i].op = "seed" =>
      /\ Live(i) /\ users[i].isBuiltInAdmin
      /\ users[i].role = "ADMIN" /\ ~users[i].isBlocked

(* What a change that found its user may still do to a built-in one. *)
Allowed(c) ==
  /\ c.target \in Calls /\ Inserted(c.target)
  /\ call[c.target].op = "seed" => c.op = "updateUser" /\ c.role \in {None, "ADMIN"}

Changing == {"updateUser", "blockUser", "deleteUser"}

(* What call r has established when it reaches its stage. *)
Established(r) ==
  /\ stage[r] # "idle" => call[r] \in Input \cup FoundLogin
  /\ Inserted(r) => /\ call[r].op \in Inserting
                    /\ stage[r] \in {"issuing", "created", "error"}
  /\ stage[r] \in {"checking", "writing"} /\ call[r].op \in Changing
       => Allowed(call[r])
  /\ stage[r] = "issuing" =>
       \/ call[r].op = "login" /\ "admitted" \in truths[r]
       \/ call[r].op = "register" /\ "free" \in truths[r]
  /\ stage[r] \in DOMAIN Says => Says[stage[r]] \in truths[r]

IInv ==
  /\ TypeOK
  /\ EmailsUnique /\ KeptEmails /\ SeedsStand
  /\ \A r \in Calls : Established(r)

-----------------------------------------------------------------------------
(* What an input holds, by its operation. *)
LEMMA InputFields ==
  ASSUME NEW c \in Input \cup FoundLogin
  PROVE  /\ c.op \in Inserting =>
              c.email \in Emails /\ c.password \in Passwords /\ c.role \in Roles
         /\ c.op = "seed" => c.role = "ADMIN"
         /\ c.op = "login" => c.email \in Emails /\ c.password \in Passwords
         /\ c.op \in {"updateUser", "updateProfile", "blockUser"} =>
              /\ c.target \in Calls
              /\ c.email \in Emails \cup {None}
              /\ c.password \in Passwords \cup {None}
              /\ c.role \in Roles \cup {None}
              /\ c.isBlocked \in BOOLEAN \cup {None}
         /\ c.op \in {"deleteUser", "getUser"} => c.target \in Calls
         /\ c.op = "updateUser" => c.isBlocked = None
         /\ c.op = "updateProfile" =>
              c.email = None /\ c.role = None /\ c.isBlocked = None
<1> USE MarkersAssumption DEF Request, Optional, Roles, Inserting
<1>1. CASE c \in Request("register", {None}, Emails, Passwords, Roles \ {"ADMIN"}, {None})
    BY <1>1
<1>2. CASE c \in Request("createUser", {None}, Emails, Passwords, Roles, {None})
    BY <1>2
<1>3. CASE c \in Request("seed", {None}, {AdminEmail}, {AdminPassword}, {"ADMIN"}, {None})
    BY <1>3
<1>4. CASE c \in Request("login", Calls \cup {None}, Emails, Passwords, {None}, {None})
    BY <1>4
<1>5. CASE c \in Request("updateUser", Calls, Optional(Emails), Optional(Passwords),
                        Optional(Roles), {None})
    BY <1>5
<1>6. CASE c \in Request("updateProfile", Calls, {None}, Optional(Passwords), {None}, {None})
    BY <1>6
<1>7. CASE c \in Request("blockUser", Calls, {None}, {None}, {None}, BOOLEAN)
    BY <1>7
<1>8. CASE \E op \in {"deleteUser", "getUser"} :
             c \in Request(op, Calls, {None}, {None}, {None}, {None})
    BY <1>8
<1> QED BY <1>1, <1>2, <1>3, <1>4, <1>5, <1>6, <1>7, <1>8 DEF Input, FoundLogin

(* A login that finds row i goes on with it. *)
LEMMA FoundLoginTyped ==
  ASSUME NEW c \in Input, c.op = "login", NEW i \in Calls
  PROVE  [c EXCEPT !.target = i] \in FoundLogin
<1>1. c \in Request("login", {None}, Emails, Passwords, {None}, {None})
    BY DEF Input, Request
<1> QED BY <1>1 DEF FoundLogin, Request

(* An inserted row is an account; so is an edited one. *)
LEMMA RowIsAccount ==
  ASSUME NEW c \in Input \cup FoundLogin, c.op \in Inserting
  PROVE  Row(c) \in Account
  BY InputFields DEF Row, Account

(* An edit keeps what it is not given. *)
LEMMA EditedIsAccount ==
  ASSUME NEW c \in Input \cup FoundLogin, NEW u \in Account,
         c.op \in {"updateUser", "updateProfile", "blockUser"}
  PROVE  /\ Edited(u, c) \in Account
         /\ Edited(u, c).email = Given(c.email, u.email)
         /\ Edited(u, c).role = Given(c.role, u.role)
         /\ Edited(u, c).isBlocked = Given(c.isBlocked, u.isBlocked)
         /\ Edited(u, c).isBuiltInAdmin = u.isBuiltInAdmin
<1>1. /\ Given(c.email, u.email) \in Emails
      /\ Given(c.password, u.password) \in Passwords
      /\ Given(c.role, u.role) \in Roles
      /\ Given(c.isBlocked, u.isBlocked) \in BOOLEAN
    BY InputFields DEF Given, Account
<1> QED BY <1>1 DEF Edited, Account

(* The facts are among the named ones. *)
LEMMA TruthsAreFacts == \A c : Truths(c) \subseteq Facts
  BY DEF Truths, When, Facts

-----------------------------------------------------------------------------
(* What a step of call r does to the calls. *)
LEMMA GoesFacts ==
  ASSUME TypeOK, NEW r \in Calls, NEW c \in Input \cup FoundLogin,
         NEW s \in Waiting \cup Answers, Goes(r, c, s)
  PROVE  /\ call' \in [Calls -> Input \cup FoundLogin \cup {None}]
         /\ stage' \in [Calls -> {"idle"} \cup Waiting \cup Answers]
         /\ truths' \in [Calls -> SUBSET Facts]
         /\ call'[r] = c /\ stage'[r] = s
         /\ truths'[r] = truths[r] \cup Truths(c)
         /\ \A q \in Calls \ {r} :
              /\ call'[q] = call[q] /\ stage'[q] = stage[q]
              /\ truths[q] \subseteq truths'[q]
<1>1. truths' \in [Calls -> SUBSET Facts]
    BY TruthsAreFacts DEF Goes, TypeOK
<1> QED BY <1>1 DEF Goes, TypeOK

(* A step of call r that writes no row and establishes what its next stage *)
(* requires keeps the invariant.                                           *)
LEMMA ReadsOnlyStep ==
  ASSUME IInv, NEW r \in Calls, NEW c \in Input \cup FoundLogin,
         NEW s \in Waiting \cup Answers,
         Goes(r, c, s), ReadsOnly,
         stage[r] = "idle" \/ c = call[r],
         Inserted(r) => stage[r] \in Waiting /\ s \in {"issuing", "created", "error"},
         s \in {"checking", "writing"} /\ c.op \in Changing => Allowed(c),
         s = "issuing" => \/ c.op = "login" /\ "admitted" \in truths[r] \cup Truths(c)
                          \/ c.op = "register" /\ "free" \in truths[r] \cup Truths(c),
         s \in DOMAIN Says => Says[s] \in truths[r] \cup Truths(c)
  PROVE  IInv'
<1>1. users' = users /\ left' = left
    BY DEF ReadsOnly
<1>2. /\ call' \in [Calls -> Input \cup FoundLogin \cup {None}]
      /\ stage' \in [Calls -> {"idle"} \cup Waiting \cup Answers]
      /\ truths' \in [Calls -> SUBSET Facts]
      /\ call'[r] = c /\ stage'[r] = s
      /\ truths'[r] = truths[r] \cup Truths(c)
      /\ \A q \in Calls \ {r} :
           /\ call'[q] = call[q] /\ stage'[q] = stage[q]
           /\ truths[q] \subseteq truths'[q]
    BY GoesFacts DEF IInv
<1>3. \A i \in Calls : Inserted(i) => call'[i] = call[i]
    BY <1>2 DEF IInv, Established, Waiting
<1>4. TypeOK'
    BY <1>1, <1>2 DEF IInv, TypeOK
<1>5. EmailsUnique'
    BY <1>1 DEF IInv, EmailsUnique, Live
<1>6. KeptEmails'
    BY <1>1, <1>3 DEF IInv, KeptEmails, Live, Inserted
<1>7. SeedsStand'
    BY <1>1, <1>3 DEF IInv, SeedsStand, Live, Inserted
<1>8. ASSUME NEW d, Allowed(d) PROVE Allowed(d)'
    BY <1>1, <1>3, <1>8 DEF Allowed, Inserted
<1>9. Established(r)'
  <2>1. (Inserted(r) => /\ call[r].op \in Inserting
                        /\ stage[r] \in {"issuing", "created", "error"})'
      BY <1>1, <1>2, <1>3 DEF IInv, Established, Inserted
  <2> QED BY <1>1, <1>2, <1>8, <2>1 DEF Established
<1>10. ASSUME NEW q \in Calls \ {r} PROVE Established(q)'
  <2>1. Established(q)
      BY DEF IInv
  <2> QED BY <1>1, <1>2, <1>8, <2>1 DEF Established, Inserted
<1> QED BY <1>4, <1>5, <1>6, <1>7, <1>9, <1>10 DEF IInv

(* A call that begins has inserted nothing. *)
LEMMA IdleHasNoRow ==
  ASSUME IInv, NEW r \in Calls, stage[r] \notin {"issuing", "created", "error"}
  PROVE  ~Inserted(r)
  BY DEF IInv, Established

(* register, createUser and the seed. *)
LEMMA LookUpEmailIInv ==
  ASSUME IInv, NEW r \in Calls, NEW c \in Requests, LookUpEmail(r, c)
  PROVE  IInv'
<1> DEFINE s == IF ~Held(c.email) THEN "writing"
                ELSE IF c.op = "seed" THEN "kept" ELSE "conflict"
<1>1. /\ c \in Input \cup FoundLogin /\ stage[r] = "idle" /\ c.op \in Inserting
      /\ Goes(r, c, s) /\ ReadsOnly
    BY RequestsAssumption DEF LookUpEmail, Arrives
<1>2. ~Inserted(r)
    BY <1>1, IdleHasNoRow
<1>3. s \in Waiting \cup Answers /\ s # "issuing" /\ s # "checking"
      /\ (s \in DOMAIN Says => s = "conflict")
    BY DEF Waiting, Answers, Says
<1>4. ~(c.op \in Changing)
    BY <1>1 DEF Inserting, Changing
<1>5. c.target = None
    BY <1>1 DEF Inserting, Input, FoundLogin, Request
<1>6. s = "conflict" => Says[s] \in Truths(c)
  <2>1. s = "conflict" => HeldByAnother(c.email, c.target)
      BY <1>5, MarkersAssumption DEF Held, HeldByAnother
  <2> QED BY <2>1 DEF Truths, When, Says
<1> HIDE DEF s
<1> QED BY <1>1, <1>2, <1>3, <1>4, <1>6, ReadsOnlyStep

(* The insertion, and the UNIQUE column's refusal. *)
LEMMA InsertUserIInv ==
  ASSUME IInv, NEW r \in Calls, InsertUser(r)
  PROVE  IInv'
<1> DEFINE c == call[r]
<1>1. stage[r] = "writing" /\ c.op \in Inserting /\ c \in Input \cup FoundLogin
    BY DEF InsertUser, IInv, Established
<1>2. ~Inserted(r)
    BY <1>1, IdleHasNoRow
<1>3. CASE Held(c.email)
  <2> DEFINE s == IF c.op = "seed" THEN "error" ELSE "conflict"
  <2>1. Goes(r, c, s) /\ ReadsOnly
      BY <1>3 DEF InsertUser, Continues, ReadsOnly
  <2>2. s \in Waiting \cup Answers /\ s # "issuing" /\ s \notin {"checking", "writing"}
        /\ (s \in DOMAIN Says => s = "conflict")
      BY DEF Waiting, Answers, Says
  <2>3. HeldByAnother(c.email, c.target)
    <3>1. c.target = None
        BY <1>1 DEF Inserting, Input, FoundLogin, Request
    <3> QED BY <1>3, <3>1, MarkersAssumption DEF Held, HeldByAnother
  <2>4. s = "conflict" => Says[s] \in Truths(c)
      BY <2>3 DEF Truths, When, Says
  <2> HIDE DEF s
  <2> QED BY <1>1, <1>2, <2>1, <2>2, <2>4, ReadsOnlyStep
<1>4. CASE ~Held(c.email)
  <2> DEFINE s == IF c.op = "register" THEN "issuing" ELSE "created"
  <2>1. Goes(r, c, s) /\ users' = [users EXCEPT ![r] = Row(c)] /\ left' = left
      BY <1>4 DEF InsertUser, Continues
  <2>2. s \in Waiting \cup Answers
      BY DEF Waiting, Answers, Says
  <2>3. /\ call' \in [Calls -> Input \cup FoundLogin \cup {None}]
        /\ stage' \in [Calls -> {"idle"} \cup Waiting \cup Answers]
        /\ truths' \in [Calls -> SUBSET Facts]
        /\ call'[r] = c /\ stage'[r] = s
        /\ truths'[r] = truths[r] \cup Truths(c)
        /\ \A q \in Calls \ {r} :
             /\ call'[q] = call[q] /\ stage'[q] = stage[q]
             /\ truths[q] \subseteq truths'[q]
      BY <1>1, <2>1, <2>2, GoesFacts DEF IInv
  <2>4. Row(c) \in Account
      BY <1>1, RowIsAccount
  <2>5. users'[r] = Row(c) /\ \A i \in Calls \ {r} : users'[i] = users[i]
      BY <2>1 DEF IInv, TypeOK
  <2>6. \A i \in Calls : call'[i] = call[i]
      BY <2>3
  <2>7. TypeOK'
      BY <2>1, <2>3, <2>4 DEF IInv, TypeOK
  <2>8. Row(c).email = c.email /\ Row(c).isBlocked = FALSE
        /\ Row(c).role = c.role /\ Row(c).isBuiltInAdmin = (c.op = "seed")
      BY DEF Row
  <2>9. Live(r)' /\ Inserted(r)'
      BY <2>4, <2>5, MarkersAssumption DEF Live, Inserted
  <2>10. EmailsUnique'
      BY <1>4, <2>5, <2>8 DEF IInv, EmailsUnique, Live, Held, HeldBy
  <2>11. KeptEmails'
    <3>1. ASSUME NEW i \in Calls \ {r}, Inserted(i)', i \notin left'
          PROVE  (Live(i) /\ users[i].email = call[i].email)'
        BY <2>1, <2>5, <2>6, <3>1 DEF IInv, KeptEmails, Live, Inserted
    <3> QED BY <2>5, <2>6, <2>8, <2>9, <3>1 DEF KeptEmails
  <2>12. SeedsStand'
    <3>1. c.op = "seed" => c.role = "ADMIN"
        BY <1>1, InputFields
    <3>2. ASSUME NEW i \in Calls \ {r}, Inserted(i)', call'[i].op = "seed"
          PROVE  (/\ Live(i) /\ users[i].isBuiltInAdmin
                  /\ users[i].role = "ADMIN" /\ ~users[i].isBlocked)'
        BY <2>5, <2>6, <3>2 DEF IInv, SeedsStand, Live, Inserted
    <3> QED BY <2>5, <2>6, <2>8, <2>9, <3>1, <3>2 DEF SeedsStand
  <2>13. ASSUME NEW d, Allowed(d) PROVE Allowed(d)'
      BY <1>2, <2>5, <2>6, <2>9, <2>13 DEF Allowed, Inserted
  <2>14. Established(r)'
    <3>1. "free" \in truths'[r]
        BY <1>4, <2>3 DEF Truths, When
    <3>2. "issuing" \notin DOMAIN Says /\ Says["created"] = "free"
        BY DEF Says
    <3>3. s = "created" \/ (s = "issuing" /\ c.op = "register")
        OBVIOUS
    <3> HIDE DEF s
    <3> QED BY <1>1, <2>3, <3>1, <3>2, <3>3 DEF Established, Inserting, Changing
  <2>15. ASSUME NEW q \in Calls \ {r} PROVE Established(q)'
    <3>1. Established(q)
        BY DEF IInv
    <3> QED BY <2>3, <2>5, <2>13, <3>1 DEF Established, Inserted
  <2> QED BY <2>7, <2>10, <2>11, <2>12, <2>14, <2>15 DEF IInv
<1> QED BY <1>3, <1>4

(* The steps that only read. *)
LEMMA LoginIInv ==
  ASSUME IInv, NEW r \in Calls, NEW c \in Requests, Login(r, c)
  PROVE  IInv'
<1>1. c \in Input /\ stage[r] = "idle" /\ c.op = "login" /\ ReadsOnly
    BY RequestsAssumption DEF Login, Arrives
<1>2. ~Inserted(r)
    BY <1>1, IdleHasNoRow
<1>3. ~(c.op \in Changing)
    BY <1>1 DEF Changing
<1>4. ASSUME NEW i \in Calls, HeldBy(c.email, i),
             users[i].password = c.password, ~users[i].isBlocked,
             Goes(r, [c EXCEPT !.target = i], "issuing")
      PROVE  IInv'
  <2> DEFINE d == [c EXCEPT !.target = i]
  <2>1. d \in FoundLogin /\ d.op = "login" /\ d.email = c.email /\ d.password = c.password
      BY <1>1, FoundLoginTyped DEF FoundLogin, Input, Request
  <2>2. "admitted" \in Truths(d)
      BY <1>4, <2>1 DEF Truths, When, Admits
  <2>3. "issuing" \in Waiting /\ "issuing" \notin DOMAIN Says
      BY DEF Waiting, Says
  <2>4. Goes(r, d, "issuing")
      BY <1>4
  <2> HIDE DEF d
  <2> QED BY <1>1, <1>2, <2>4, <2>1, <2>2, <2>3, ReadsOnlyStep
<1>5. ASSUME ~Admits(c.email, c.password), Goes(r, c, "refused")
      PROVE  IInv'
  <2>1. "refused" \in Answers /\ Says["refused"] \in Truths(c)
      BY <1>5 DEF Answers, Says, Truths, When
  <2> QED BY <1>1, <1>2, <1>5, <2>1, ReadsOnlyStep
<1> QED BY <1>4, <1>5 DEF Login

(* The token of a registration or a login. *)
LEMMA InsertTokenIInv ==
  ASSUME IInv, NEW r \in Calls, InsertToken(r)
  PROVE  IInv'
<1> DEFINE c == call[r]
<1>1. /\ stage[r] = "issuing" /\ ReadsOnly /\ c \in Input \cup FoundLogin
      /\ \/ c.op = "login" /\ "admitted" \in truths[r]
         \/ c.op = "register" /\ "free" \in truths[r]
    BY DEF InsertToken, IInv, Established
<1>2. PICK s \in {"error", "created", "session"} :
        /\ Goes(r, c, s)
        /\ s = "created" => c.op = "register"
        /\ s = "session" => c.op # "register"
    BY DEF InsertToken, Continues
<1>3. s = "session" => c.op = "login" /\ ~Inserted(r)
    BY <1>1, <1>2 DEF IInv, Established, Inserting
<1>4. s \in Waiting \cup Answers /\ s \notin {"issuing", "checking", "writing"}
      /\ (s \in DOMAIN Says => Says[s] \in truths[r])
    BY <1>1, <1>2 DEF Answers, Says
<1> HIDE DEF c
<1>5. Inserted(r) => stage[r] \in Waiting /\ s \in {"issuing", "created", "error"}
    BY <1>1, <1>2, <1>3 DEF Waiting
<1>6. stage[r] = "idle" \/ c = call[r]
    BY DEF c
<1> QED BY <1>1, <1>2, <1>4, <1>5, <1>6, ReadsOnlyStep

(* The first read of an administrator's change. *)
LEMMA FindUserIInv ==
  ASSUME IInv, NEW r \in Calls, NEW c \in Requests, FindUser(r, c)
  PROVE  IInv'
<1>1. /\ c \in Input \cup FoundLogin /\ stage[r] = "idle" /\ c.op \in Changing
      /\ ReadsOnly
    BY RequestsAssumption DEF FindUser, Arrives, Changing
<1>2. ~Inserted(r)
    BY <1>1, IdleHasNoRow
<1>3. c.target \in Calls
    BY <1>1, InputFields DEF Changing
<1>4. PICK s \in {"notFound", "forbidden", "unprocessable", "checking", "writing"} :
        /\ Goes(r, c, s)
        /\ s = "notFound" => ~Live(c.target)
        /\ s # "notFound" => Live(c.target)
        /\ s = "forbidden" => BuiltIn(c.target)
        /\ s = "unprocessable" => Demotes(c)
        /\ s \in {"checking", "writing"} =>
             ~Demotes(c) /\ (BuiltIn(c.target) => c.op = "updateUser")
    BY DEF FindUser
<1>5. s \in {"checking", "writing"} => Allowed(c)
    BY <1>3, <1>4 DEF IInv, SeedsStand, Allowed, Inserted, Live, BuiltIn, Demotes
<1>6. s = "notFound" => "absent" \in Truths(c)
    BY <1>3, <1>4 DEF Truths, When
<1>7. /\ s = "forbidden" => "builtIn" \in Truths(c)
      /\ s = "unprocessable" => "demoted" \in Truths(c)
    BY <1>4 DEF Truths, When
<1>8. s \in Waiting \cup Answers /\ (s \in DOMAIN Says => Says[s] \in Truths(c))
    BY <1>4, <1>6, <1>7 DEF Waiting, Answers, Says
<1> QED BY <1>1, <1>2, <1>4, <1>5, <1>8, ReadsOnlyStep

(* The look for another holder of the new email. *)
LEMMA CheckEmailIInv ==
  ASSUME IInv, NEW r \in Calls, CheckEmail(r)
  PROVE  IInv'
<1> DEFINE c == call[r]
<1>1. stage[r] = "checking" /\ c \in Input \cup FoundLogin /\ ReadsOnly
      /\ (c.op \in Changing => Allowed(c))
    BY DEF CheckEmail, IInv, Established
<1>2. ~Inserted(r)
    BY <1>1, IdleHasNoRow
<1>3. PICK s \in {"conflict", "writing"} :
        Goes(r, c, s) /\ (s = "conflict" => HeldByAnother(c.email, c.target))
    BY DEF CheckEmail, Continues
<1>4. s \in Waiting \cup Answers /\ (s \in DOMAIN Says => Says[s] \in Truths(c))
    BY <1>3 DEF Waiting, Answers, Says, Truths, When
<1> QED BY <1>1, <1>2, <1>3, <1>4, ReadsOnlyStep

(* A read of one user. *)
LEMMA GetUserIInv ==
  ASSUME IInv, NEW r \in Calls, NEW c \in Requests, GetUser(r, c)
  PROVE  IInv'
<1>1. /\ c \in Input \cup FoundLogin /\ stage[r] = "idle" /\ c.op = "getUser"
      /\ ReadsOnly
    BY RequestsAssumption DEF GetUser, Arrives
<1>2. ~Inserted(r)
    BY <1>1, IdleHasNoRow
<1>3. c.target \in Calls
    BY <1>1, InputFields
<1>4. PICK s \in {"found", "notFound"} :
        Goes(r, c, s) /\ (s = "found" <=> Live(c.target))
    BY DEF GetUser
<1>5. s \in Answers /\ Says[s] \in Truths(c)
    BY <1>3, <1>4 DEF Answers, Says, Truths, When
<1> QED BY <1>1, <1>2, <1>4, <1>5, ReadsOnlyStep

(* A profile edit begins. *)
LEMMA UpdateProfileIInv ==
  ASSUME IInv, NEW r \in Calls, NEW c \in Requests, UpdateProfile(r, c)
  PROVE  IInv'
<1>1. /\ c \in Input \cup FoundLogin /\ stage[r] = "idle" /\ c.op = "updateProfile"
      /\ ReadsOnly /\ Goes(r, c, "writing")
    BY RequestsAssumption DEF UpdateProfile, Arrives
<1>2. ~Inserted(r)
    BY <1>1, IdleHasNoRow
<1>3. "writing" \in Waiting /\ "writing" \notin DOMAIN Says /\ ~(c.op \in Changing)
    BY <1>1 DEF Waiting, Says, Changing
<1> QED BY <1>1, <1>2, <1>3, ReadsOnlyStep

(* A statement fails. *)
LEMMA FailIInv ==
  ASSUME IInv, NEW r \in Calls, Fail(r)
  PROVE  IInv'
<1>1. /\ stage[r] \in Waiting /\ call[r] \in Input \cup FoundLogin
      /\ ReadsOnly /\ Goes(r, call[r], "error")
    BY DEF Fail, Continues, IInv, Established, Waiting
<1>2. "error" \in Answers /\ "error" \notin DOMAIN Says
    BY DEF Answers, Says
<1> QED BY <1>1, <1>2, ReadsOnlyStep

(* The steps that write a row of users by its id. *)
LEMMA UpdateUserIInv ==
  ASSUME IInv, NEW r \in Calls, UpdateUser(r)
  PROVE  IInv'
<1>0. PICK c, i : c = call[r] /\ i = call[r].target
    OBVIOUS
<1> USE <1>0
<1>1. /\ stage[r] = "writing" /\ c \in Input \cup FoundLogin
      /\ c.op \in {"updateUser", "updateProfile", "blockUser"}
      /\ c.op \in Changing => Allowed(c)
    BY DEF UpdateUser, IInv, Established
<1>2. ~Inserted(r)
    BY <1>1, IdleHasNoRow
<1>3. i \in Calls
    BY <1>1, InputFields
<1>4. CASE ~Live(i)
  <2>1. Goes(r, c, "notFound") /\ ReadsOnly
      BY <1>4 DEF UpdateUser, Continues
  <2>2. "notFound" \in Answers /\ Says["notFound"] \in Truths(c)
      BY <1>3, <1>4 DEF Answers, Says, Truths, When
  <2> QED BY <1>1, <1>2, <2>1, <2>2, ReadsOnlyStep
<1>5. CASE Live(i) /\ HeldByAnother(c.email, i)
  <2>1. Goes(r, c, "conflict") /\ ReadsOnly
      BY <1>5 DEF UpdateUser, Continues
  <2>2. "conflict" \in Answers /\ Says["conflict"] \in Truths(c)
      BY <1>5 DEF Answers, Says, Truths, When
  <2> QED BY <1>1, <1>2, <2>1, <2>2, ReadsOnlyStep
<1>6. CASE Live(i) /\ ~HeldByAnother(c.email, i)
  <2>1. /\ Goes(r, c, "updated")
        /\ users' = [users EXCEPT ![i] = Edited(users[i], c)]
        /\ left' = left \cup {j \in {i} : Given(c.email, users[j].email) # users[j].email}
      BY <1>6 DEF UpdateUser, Continues
  <2>2. "updated" \in Waiting \cup Answers /\ "updated" \notin DOMAIN Says
      BY DEF Answers, Says
  <2>3. /\ call' \in [Calls -> Input \cup FoundLogin \cup {None}]
        /\ stage' \in [Calls -> {"idle"} \cup Waiting \cup Answers]
        /\ truths' \in [Calls -> SUBSET Facts]
        /\ call'[r] = c /\ stage'[r] = "updated"
        /\ truths'[r] = truths[r] \cup Truths(c)
        /\ \A q \in Calls \ {r} :
             /\ call'[q] = call[q] /\ stage'[q] = stage[q]
             /\ truths[q] \subseteq truths'[q]
      BY <1>1, <2>1, <2>2, GoesFacts DEF IInv
  <2>4. users[i] \in Account
      BY <1>3, <1>6 DEF IInv, TypeOK, Live
  <2> DEFINE e == Edited(users[i], c)
  <2>5. /\ e \in Account
        /\ e.email = Given(c.email, users[i].email)
        /\ e.role = Given(c.role, users[i].role)
        /\ e.isBlocked = Given(c.isBlocked, users[i].isBlocked)
        /\ e.isBuiltInAdmin = users[i].isBuiltInAdmin
      BY <1>1, <2>4, EditedIsAccount
  <2>6. users'[i] = e /\ \A j \in Calls \ {i} : users'[j] = users[j]
      BY <1>3, <2>1 DEF IInv, TypeOK
  <2>7. \A j \in Calls : call'[j] = call[j]
      BY <2>3
  <2>8. left' \subseteq Calls /\ left \subseteq left' /\ left' \subseteq left \cup {i}
        /\ (i \notin left' => e.email = users[i].email)
      BY <1>3, <2>1, <2>5 DEF IInv, TypeOK
  <2> HIDE DEF e
  <2>9. Live(i)' /\ Inserted(i)' /\ Inserted(i)
      BY <1>6, <2>5, <2>6, MarkersAssumption DEF Live, Inserted
  <2>10. \A j \in Calls : (Live(j)' <=> Live(j)) /\ (Inserted(j)' <=> Inserted(j))
      BY <1>6, <2>6, <2>9 DEF Live, Inserted
  <2>11. TypeOK'
      BY <2>1, <2>3, <2>5, <2>8 DEF IInv, TypeOK, e
  <2>12. EmailsUnique'
    <3>1. ASSUME NEW j \in Calls \ {i}, Live(j) PROVE users[j].email # e.email
      <4>1. CASE c.email = None
          BY <1>3, <1>6, <2>5, <3>1, <4>1 DEF IInv, EmailsUnique, Given
      <4>2. CASE c.email # None
          BY <1>6, <2>5, <3>1, <4>2 DEF HeldByAnother, HeldBy, Given
      <4> QED BY <4>1, <4>2
    <3> QED BY <2>6, <2>10, <3>1 DEF IInv, EmailsUnique
  <2>13. KeptEmails'
      BY <2>6, <2>7, <2>8, <2>10 DEF IInv, KeptEmails
  <2>14. SeedsStand'
    <3>1. call[i].op = "seed" => c.role \in {None, "ADMIN"} /\ c.isBlocked = None
        BY <1>1, InputFields DEF Allowed, Changing
    <3>2. call[i].op = "seed" => e.isBuiltInAdmin /\ e.role = "ADMIN" /\ ~e.isBlocked
        BY <1>3, <2>5, <2>9, <3>1 DEF IInv, SeedsStand, Given
    <3> QED BY <2>6, <2>7, <2>9, <2>10, <3>2 DEF IInv, SeedsStand
  <2>15. ASSUME NEW d, Allowed(d) PROVE Allowed(d)'
      BY <2>7, <2>10, <2>15 DEF Allowed
  <2>16. Established(r)'
      BY <1>1, <1>2, <2>2, <2>3, <2>10 DEF Established
  <2>17. ASSUME NEW q \in Calls \ {r} PROVE Established(q)'
    <3>1. Established(q)
        BY DEF IInv
    <3> QED BY <2>3, <2>10, <2>15, <3>1 DEF Established
  <2> QED BY <2>11, <2>12, <2>13, <2>14, <2>16, <2>17 DEF IInv
<1> QED BY <1>4, <1>5, <1>6

(* The deletion. *)
LEMMA DeleteUserIInv ==
  ASSUME IInv, NEW r \in Calls, DeleteUser(r)
  PROVE  IInv'
<1>0. PICK c, i : c = call[r] /\ i = call[r].target
    OBVIOUS
<1> USE <1>0
<1>1. /\ stage[r] = "writing" /\ c \in Input \cup FoundLogin
      /\ c.op = "deleteUser" /\ Allowed(c)
    BY DEF DeleteUser, IInv, Established, Changing
<1>2. ~Inserted(r)
    BY <1>1, IdleHasNoRow
<1>3. i \in Calls /\ call[i].op # "seed"
    BY <1>1 DEF Allowed
<1>4. CASE ~Live(i)
  <2>1. Goes(r, c, "notFound") /\ ReadsOnly
      BY <1>4 DEF DeleteUser, Continues
  <2>2. "notFound" \in Answers /\ Says["notFound"] \in Truths(c)
      BY <1>3, <1>4 DEF Answers, Says, Truths, When
  <2> QED BY <1>1, <1>2, <2>1, <2>2, ReadsOnlyStep
<1>5. CASE Live(i)
  <2>1. /\ Goes(r, c, "deleted")
        /\ users' = [users EXCEPT ![i] = Gone] /\ left' = left \cup {i}
      BY <1>5 DEF DeleteUser, Continues
  <2>2. "deleted" \in Waiting \cup Answers /\ "deleted" \notin DOMAIN Says
      BY DEF Answers, Says
  <2>3. /\ call' \in [Calls -> Input \cup FoundLogin \cup {None}]
        /\ stage' \in [Calls -> {"idle"} \cup Waiting \cup Answers]
        /\ truths' \in [Calls -> SUBSET Facts]
        /\ call'[r] = c /\ stage'[r] = "deleted"
        /\ truths'[r] = truths[r] \cup Truths(c)
        /\ \A q \in Calls \ {r} :
             /\ call'[q] = call[q] /\ stage'[q] = stage[q]
             /\ truths[q] \subseteq truths'[q]
      BY <1>1, <2>1, <2>2, GoesFacts DEF IInv
  <2>4. users'[i] = Gone /\ \A j \in Calls \ {i} : users'[j] = users[j]
      BY <1>3, <2>1 DEF IInv, TypeOK
  <2>5. \A j \in Calls : call'[j] = call[j]
      BY <2>3
  <2>6. ~Live(i)' /\ Inserted(i)' /\ Inserted(i)
      BY <1>5, <2>4, MarkersAssumption DEF Live, Inserted
  <2>7. \A j \in Calls \ {i} : Live(j)' <=> Live(j)
      BY <2>4 DEF Live
  <2>8. \A j \in Calls : Inserted(j)' <=> Inserted(j)
      BY <2>4, <2>6 DEF Inserted
  <2>9. TypeOK'
      BY <1>3, <2>1, <2>3 DEF IInv, TypeOK
  <2>10. EmailsUnique'
      BY <2>4, <2>6, <2>7 DEF IInv, EmailsUnique
  <2>11. KeptEmails'
      BY <2>1, <2>4, <2>5, <2>7, <2>8 DEF IInv, KeptEmails
  <2>12. SeedsStand'
      BY <1>3, <2>4, <2>5, <2>7, <2>8 DEF IInv, SeedsStand
  <2>13. ASSUME NEW d, Allowed(d) PROVE Allowed(d)'
      BY <2>5, <2>8, <2>13 DEF Allowed
  <2>14. Established(r)'
      BY <1>1, <1>2, <2>2, <2>3, <2>8 DEF Established
  <2>15. ASSUME NEW q \in Calls \ {r} PROVE Established(q)'
    <3>1. Established(q)
        BY DEF IInv
    <3> QED BY <2>3, <2>8, <2>13, <3>1 DEF Established
  <2> QED BY <2>9, <2>10, <2>11, <2>12, <2>14, <2>15 DEF IInv
<1> QED BY <1>4, <1>5

-----------------------------------------------------------------------------
(* The invariant holds at first, is kept by every step, and so always. *)
LEMMA InitIInv == Init => IInv
<1> SUFFICES ASSUME Init PROVE IInv
    OBVIOUS
<1>1. \A i \in Calls : ~Live(i) /\ ~Inserted(i) /\ stage[i] = "idle"
    BY DEF Init, Live, Inserted
<1>2. TypeOK
    BY DEF Init, TypeOK
<1>3. EmailsUnique /\ KeptEmails /\ SeedsStand
    BY <1>1 DEF EmailsUnique, KeptEmails, SeedsStand
<1>4. "idle" \notin DOMAIN Says
    BY DEF Says
<1>5. \A r \in Calls : Established(r)
    BY <1>1, <1>4 DEF Established
<1> QED BY <1>2, <1>3, <1>5 DEF IInv

(* Every step keeps the invariant. *)
LEMMA StepIInv == IInv /\ [Next]_vars => IInv'
<1> SUFFICES ASSUME IInv, [Next]_vars PROVE IInv'
    OBVIOUS
<1>1. CASE UNCHANGED vars
  <2>1. TypeOK'
      BY <1>1 DEF IInv, TypeOK, vars
  <2>2. (EmailsUnique /\ KeptEmails /\ SeedsStand)'
      BY <1>1 DEF IInv, EmailsUnique, KeptEmails, SeedsStand, Live, Inserted, vars
  <2>3. (\A r \in Calls : Established(r))'
      BY <1>1 DEF IInv, Established, Allowed, Inserted, vars
  <2> QED BY <2>1, <2>2, <2>3 DEF IInv
<1>2. ASSUME NEW r \in Calls,
             \/ InsertUser(r) \/ InsertToken(r) \/ CheckEmail(r)
             \/ UpdateUser(r) \/ DeleteUser(r) \/ Fail(r)
      PROVE  IInv'
    BY <1>2, InsertUserIInv, InsertTokenIInv, CheckEmailIInv, UpdateUserIInv,
       DeleteUserIInv, FailIInv
<1>3. ASSUME NEW r \in Calls, NEW c \in Requests,
             \/ LookUpEmail(r, c) \/ Login(r, c) \/ FindUser(r, c)
             \/ UpdateProfile(r, c) \/ GetUser(r, c)
      PROVE  IInv'
    BY <1>3, LookUpEmailIInv, LoginIInv, FindUserIInv, UpdateProfileIInv, GetUserIInv
<1> QED BY <1>1, <1>2, <1>3 DEF Next

(* The invariant holds in every state of the accounts. *)
LEMMA Invariance == Spec => []IInv
  BY InitIInv, StepIInv, PTL DEF Spec

(* Type correctness of the accounts (auth.service.ts, users.service.ts).    *)
THEOREM TypeCorrect == Spec => []TypeOK
<1>1. IInv => TypeOK
    BY DEF IInv
<1> QED BY <1>1, Invariance, PTL

(* However many calls race for an email, one account has it, and it is won  *)
(* once until it is given up: by registrations, administrators and seeds.   *)
THEOREM EmailsAreWonOnce == Spec => []OneWinner
<1>1. IInv => OneWinner
    BY DEF IInv, OneWinner, KeptEmails, EmailsUnique
<1> QED BY <1>1, Invariance, PTL

(* Whatever administrators do at once, the seed's administrator stands.     *)
THEOREM AnAdministratorRemains == Spec => []AdminRemains
<1>1. IInv => AdminRemains
    BY DEF IInv, AdminRemains, Seeded, SeedsStand
<1> QED BY <1>1, Invariance, PTL

(* No answer says what was true at no moment of its call.                   *)
THEOREM AnswersAreTrue == Spec => []AnswersWereTrue
<1>1. IInv => AnswersWereTrue
    BY DEF IInv, AnswersWereTrue, Established
<1> QED BY <1>1, Invariance, PTL

=============================================================================
