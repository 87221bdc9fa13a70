---------------------------- MODULE Sessions_proofs ----------------------------
(***************************************************************************)
(* Theorems of Sessions, for any number of users, tokens and requests.     *)
(***************************************************************************)
EXTENDS Sessions, FiniteSetTheorems, TLAPS

(* A token that was never issued is nobody's, and nothing refers to it. *)
UnissuedIsBlank ==
  /\ \A t \in Tokens : row[t] = "unissued" => owner[t] = NoUser /\ parent[t] = NoToken
  /\ \A t \in Tokens : parent[t] # NoToken => row[parent[t]] # "unissued"
  /\ \A h \in Handlers : stage[h] = "refresh" => row[req[h].token] # "unissued"

(* A request in flight is for a user who was registered, and a rotation    *)
(* for the owner of the token it replaces.                                 *)
RequestsMatch ==
  \A h \in Handlers :
    /\ stage[h] # "idle" => account[req[h].user] # "none"
    /\ stage[h] = "refresh" => owner[req[h].token] = req[h].user

(* A token that was rotated is never live again. *)
RotatedIsDead ==
  \A s \in Tokens : parent[s] # NoToken => row[parent[s]] \in {"revoked", "gone"}

Structure ==
  /\ TypeOK
  /\ TokensHaveUsers
  /\ UnissuedIsBlank
  /\ RequestsMatch
  /\ RotatedIsDead

Counted == \A t \in Tokens : IsFiniteSet(RotatedFrom(t))

IInv == Structure /\ Counted /\ RotationsBounded

(* The structural part of the invariant holds initially. *)
LEMMA InitStructure == Init => Structure
<1> SUFFICES ASSUME Init PROVE Structure
    OBVIOUS
<1> QED BY DEF Init, Structure, TypeOK, TokensHaveUsers, Stored, UnissuedIsBlank,
                RequestsMatch, RotatedIsDead

(* Registering, logging in, reading a token and blocking start a request. *)
LEMMA BeginStructure ==
  ASSUME Structure, NEW h \in Handlers,
         \/ \E u \in Users : Register(h, u) \/ Login(h, u) \/ BlockUser(h, u)
         \/ \E t \in Tokens : ReadToken(h, t)
  PROVE  Structure'
<1>0. Structure
    OBVIOUS
<1>1. ASSUME NEW u \in Users, Register(h, u) PROVE Structure'
    BY <1>0, <1>1 DEF Register, Begin, Structure, TypeOK, Request, TokensHaveUsers, Stored,
                Exists, UnissuedIsBlank, RequestsMatch, RotatedIsDead
<1>2. ASSUME NEW u \in Users, Login(h, u) PROVE Structure'
    BY <1>0, <1>2 DEF Login, Begin, Structure, TypeOK, Request, TokensHaveUsers, Stored,
                Exists, UnissuedIsBlank, RequestsMatch, RotatedIsDead
<1>3. ASSUME NEW u \in Users, BlockUser(h, u) PROVE Structure'
    BY <1>0, <1>3 DEF BlockUser, Begin, Structure, TypeOK, Request, TokensHaveUsers, Stored,
                Exists, UnissuedIsBlank, RequestsMatch, RotatedIsDead
<1>4. ASSUME NEW t \in Tokens, ReadToken(h, t) PROVE Structure'
    BY <1>0, <1>4 DEF ReadToken, Begin, Structure, TypeOK, Request, TokensHaveUsers, Stored,
                Exists, UnissuedIsBlank, RequestsMatch, RotatedIsDead
<1> QED BY <1>1, <1>2, <1>3, <1>4

(* The first token of a session goes to a user who exists. *)
LEMMA IssueTokenStructure ==
  ASSUME Structure, NEW h \in Handlers, NEW t \in Tokens, IssueToken(h, t)
  PROVE  Structure'
<1> QED BY MarkersAssumption DEF IssueToken, Insert, End, Structure, TypeOK, Request, TokensHaveUsers,
                Stored, Exists, UnissuedIsBlank, RequestsMatch, RotatedIsDead

(* A rotation kills the token it replaces. *)
LEMMA RotateStructure ==
  ASSUME Structure, NEW h \in Handlers, NEW t \in Tokens, Rotate(h, t)
  PROVE  Structure'
<1> QED BY MarkersAssumption DEF Rotate, Insert, End, Structure, TypeOK, Request, TokensHaveUsers,
                Stored, Exists, UnissuedIsBlank, RequestsMatch, RotatedIsDead

(* Everything else revokes, expires or deletes, or ends a request. *)
LEMMA EndStructure ==
  ASSUME Structure,
         \/ \E h \in Handlers : RevokeBlocked(h) \/ Fail(h)
         \/ \E u \in Users : Logout(u) \/ UnblockUser(u) \/ DeleteUser(u)
         \/ \E t \in Tokens : ExpireToken(t)
         \/ UNCHANGED vars
  PROVE  Structure'
<1>0. Structure
    OBVIOUS
<1>1. ASSUME NEW h \in Handlers, RevokeBlocked(h) PROVE Structure'
    BY <1>0, <1>1 DEF RevokeBlocked, RevokeAll, End, Structure, TypeOK, Request,
                TokensHaveUsers, Stored, Exists, UnissuedIsBlank, RequestsMatch, RotatedIsDead
<1>2. ASSUME NEW h \in Handlers, Fail(h) PROVE Structure'
    BY <1>0, <1>2 DEF Fail, End, Structure, TypeOK, Request,
                TokensHaveUsers, Stored, Exists, UnissuedIsBlank, RequestsMatch, RotatedIsDead
<1>3. ASSUME NEW u \in Users, Logout(u) PROVE Structure'
    BY <1>0, <1>3 DEF Logout, RevokeAll, Structure, TypeOK, Request,
                TokensHaveUsers, Stored, Exists, UnissuedIsBlank, RequestsMatch, RotatedIsDead
<1>4. ASSUME NEW u \in Users, UnblockUser(u) PROVE Structure'
    BY <1>0, <1>4 DEF UnblockUser, Structure, TypeOK, Request,
                TokensHaveUsers, Stored, Exists, UnissuedIsBlank, RequestsMatch, RotatedIsDead
<1>5. ASSUME NEW u \in Users, DeleteUser(u) PROVE Structure'
    BY <1>0, <1>5, MarkersAssumption DEF DeleteUser, OwnedBy, Structure, TypeOK, Request,
                TokensHaveUsers, Stored, Exists, UnissuedIsBlank, RequestsMatch, RotatedIsDead
<1>6. ASSUME NEW t \in Tokens, ExpireToken(t) PROVE Structure'
    BY <1>0, <1>6 DEF ExpireToken, Structure, TypeOK, Request,
                TokensHaveUsers, Stored, Exists, UnissuedIsBlank, RequestsMatch, RotatedIsDead
<1>7. CASE UNCHANGED vars
    BY <1>0, <1>7 DEF vars, Structure, TypeOK, Request,
                TokensHaveUsers, Stored, Exists, UnissuedIsBlank, RequestsMatch, RotatedIsDead
<1> QED BY <1>1, <1>2, <1>3, <1>4, <1>5, <1>6, <1>7

(* Every step preserves the structural part. *)
LEMMA NextStructure == Structure /\ [Next]_vars => Structure'
<1> SUFFICES ASSUME Structure, [Next]_vars PROVE Structure'
    OBVIOUS
<1>1. ASSUME NEW h \in Handlers, Handle(h) PROVE Structure'
    BY <1>1, BeginStructure, IssueTokenStructure, RotateStructure, EndStructure DEF Handle
<1> QED BY <1>1, EndStructure DEF Next

(* Any set of handlers is finite and no larger than Width. *)
LEMMA SomeHandlers ==
  ASSUME NEW S \in SUBSET Handlers
  PROVE  /\ IsFiniteSet(S) /\ Cardinality(S) \in Nat
         /\ Width \in Nat /\ Cardinality(S) <= Width
<1> QED BY HandlersAssumption, FS_Subset, FS_CardinalityType DEF Width

(* A step that rotates nothing and lets no further refresh begin keeps the *)
(* bound.                                                                  *)
LEMMA FewerRefreshing ==
  ASSUME Counted, RotationsBounded,
         \A t \in Tokens : RotatedFrom(t)' = RotatedFrom(t),
         \A t \in Tokens : Refreshing(t)' \subseteq Refreshing(t)
  PROVE  Counted' /\ RotationsBounded'
<1>1. Counted'
    BY DEF Counted
<1>2. ASSUME NEW t \in Tokens
      PROVE  Cardinality(RotatedFrom(t)') + Cardinality(Refreshing(t)') <= Width
  <2>1. Refreshing(t) \in SUBSET Handlers
      BY DEF Refreshing
  <2>2. /\ Cardinality(Refreshing(t)') <= Cardinality(Refreshing(t))
        /\ Cardinality(Refreshing(t)') \in Nat /\ Cardinality(Refreshing(t)) \in Nat
      BY <2>1, SomeHandlers, FS_Subset, FS_CardinalityType
  <2>3. Cardinality(RotatedFrom(t)) \in Nat
      BY FS_CardinalityType DEF Counted
  <2>4. Cardinality(RotatedFrom(t)) + Cardinality(Refreshing(t)) <= Width /\ Width \in Nat
      BY <2>1, SomeHandlers DEF RotationsBounded
  <2>5. RotatedFrom(t)' = RotatedFrom(t)
      OBVIOUS
  <2> QED BY <2>2, <2>3, <2>4, <2>5
<1> QED BY <1>1, <1>2 DEF RotationsBounded, Width

(* Only a live token is read, and a live token was not rotated yet.  *)
LEMMA ReadTokenCount ==
  ASSUME IInv, NEW h \in Handlers, NEW t \in Tokens, ReadToken(h, t)
  PROVE  Counted' /\ RotationsBounded'
<1>1. parent' = parent /\ stage[h] = "idle" /\ row[t] = "live"
    BY DEF ReadToken, Begin
<1>2. \A x \in Tokens : RotatedFrom(x)' = RotatedFrom(x)
    BY <1>1 DEF RotatedFrom
<1>3. Counted'
    BY <1>2 DEF IInv, Counted
<1>4. RotatedFrom(t) = {}
    BY <1>1, MarkersAssumption DEF IInv, Structure, RotatedIsDead, RotatedFrom
<1>5. ASSUME NEW x \in Tokens
      PROVE  Cardinality(RotatedFrom(x)') + Cardinality(Refreshing(x)') <= Width
  <2>1. Refreshing(x)' \in SUBSET Handlers
      BY DEF Refreshing
  <2>2. CASE x = t
      BY <1>2, <1>4, <2>1, <2>2, SomeHandlers, FS_EmptySet
  <2>3. CASE x # t
    <3>1. Refreshing(x)' = Refreshing(x)
        BY <1>1, <2>3 DEF IInv, Structure, TypeOK, ReadToken, Begin, Refreshing
    <3> QED BY <1>2, <3>1 DEF IInv, RotationsBounded
  <2> QED BY <2>2, <2>3
<1> QED BY <1>3, <1>5 DEF RotationsBounded, Width

(* A rotation trades a refresh in flight for a rotated token. *)
LEMMA RotateCount ==
  ASSUME IInv, NEW h \in Handlers, NEW s \in Tokens, Rotate(h, s)
  PROVE  Counted' /\ RotationsBounded'
<1>t. PICK t \in Tokens : t = req[h].token
    BY DEF IInv, Structure, TypeOK, Rotate
<1>0. /\ TypeOK /\ row[t] # "unissued" /\ t # s
      /\ stage[h] = "refresh" /\ row[s] = "unissued" /\ parent[s] = NoToken
    BY <1>t DEF IInv, Structure, UnissuedIsBlank, Rotate, Insert
<1>1. /\ parent' = [parent EXCEPT ![s] = t]
      /\ stage' = [stage EXCEPT ![h] = "idle"]
      /\ req' = [req EXCEPT ![h] = NoRequest]
    BY <1>t DEF Rotate, Insert, End
<1>2. /\ RotatedFrom(t)' = RotatedFrom(t) \cup {s} /\ s \notin RotatedFrom(t)
      /\ \A x \in Tokens : x # t => RotatedFrom(x)' = RotatedFrom(x)
    BY <1>0, <1>1, MarkersAssumption DEF RotatedFrom, TypeOK
<1>3. /\ Refreshing(t)' = Refreshing(t) \ {h} /\ h \in Refreshing(t)
      /\ \A x \in Tokens : x # t => Refreshing(x)' = Refreshing(x)
  <2>1. \A g \in Handlers : g # h => stage'[g] = stage[g] /\ req'[g] = req[g]
      BY <1>0, <1>1 DEF TypeOK
  <2>2. stage'[h] = "idle"
      BY <1>0, <1>1 DEF TypeOK
  <2> QED BY <1>t, <1>0, <2>1, <2>2 DEF Refreshing
<1>4. IsFiniteSet(RotatedFrom(t)) /\ IsFiniteSet(Refreshing(t))
  <2>1. Refreshing(t) \in SUBSET Handlers
      BY DEF Refreshing
  <2> QED BY <1>0, <2>1, SomeHandlers DEF IInv, Counted
<1>5. /\ IsFiniteSet(RotatedFrom(t)')
      /\ Cardinality(RotatedFrom(t)') = Cardinality(RotatedFrom(t)) + 1
    BY <1>2, <1>4, FS_AddElement
<1>6. Cardinality(Refreshing(t)') = Cardinality(Refreshing(t)) - 1
    BY <1>3, <1>4, FS_RemoveElement
<1>7. /\ Cardinality(RotatedFrom(t)) \in Nat /\ Cardinality(Refreshing(t)) \in Nat
      /\ Cardinality(RotatedFrom(t)) + Cardinality(Refreshing(t)) <= Width
    BY <1>0, <1>4, FS_CardinalityType DEF IInv, RotationsBounded
<1>8. Counted'
    BY <1>2, <1>5 DEF IInv, Counted
<1>9. ASSUME NEW x \in Tokens
      PROVE  Cardinality(RotatedFrom(x)') + Cardinality(Refreshing(x)') <= Width
  <2>1. CASE x = t
    <3>1. Width \in Nat
        BY SomeHandlers
    <3> QED BY <2>1, <3>1, <1>5, <1>6, <1>7
  <2>2. CASE x # t
      BY <2>2, <1>2, <1>3 DEF IInv, RotationsBounded
  <2> QED BY <2>1, <2>2
<1> QED BY <1>8, <1>9 DEF RotationsBounded, Width

(* Every other step leaves the rotated tokens alone and begins no refresh. *)
LEMMA OtherCount ==
  ASSUME IInv,
         \/ \E h \in Handlers :
              \/ \E u \in Users : Register(h, u) \/ Login(h, u) \/ BlockUser(h, u)
              \/ \E t \in Tokens : IssueToken(h, t)
              \/ RevokeBlocked(h) \/ Fail(h)
         \/ \E u \in Users : Logout(u) \/ UnblockUser(u) \/ DeleteUser(u)
         \/ \E t \in Tokens : ExpireToken(t)
         \/ UNCHANGED vars
  PROVE  Counted' /\ RotationsBounded'
<1>0. TypeOK /\ UnissuedIsBlank
    BY DEF IInv, Structure
<1>1. parent' = parent
    BY <1>0 DEF TypeOK, UnissuedIsBlank, Register, Login, BlockUser, IssueToken, Insert,
                RevokeBlocked, Fail, Logout, UnblockUser, DeleteUser, ExpireToken, vars
<1>2. \A h \in Handlers :
        stage'[h] = "refresh" => stage[h] = "refresh" /\ req'[h] = req[h]
  <2>1. ASSUME NEW h \in Handlers, NEW u \in Users,
               Register(h, u) \/ Login(h, u) \/ BlockUser(h, u)
        PROVE  \A g \in Handlers :
                 stage'[g] = "refresh" => stage[g] = "refresh" /\ req'[g] = req[g]
      BY <1>0, <2>1 DEF TypeOK, Register, Login, BlockUser, Begin
  <2>2. ASSUME NEW h \in Handlers, End(h)
        PROVE  \A g \in Handlers :
                 stage'[g] = "refresh" => stage[g] = "refresh" /\ req'[g] = req[g]
      BY <1>0, <2>2 DEF TypeOK, End
  <2> QED BY <2>1, <2>2 DEF IssueToken, RevokeBlocked, Fail, Logout, UnblockUser,
                            DeleteUser, ExpireToken, vars
<1>3. \A t \in Tokens : RotatedFrom(t)' = RotatedFrom(t)
    BY <1>1 DEF RotatedFrom
<1>4. \A t \in Tokens : Refreshing(t)' \subseteq Refreshing(t)
    BY <1>2 DEF Refreshing
<1> QED BY <1>3, <1>4, FewerRefreshing DEF IInv

(* Every step preserves the inductive invariant. *)
LEMMA NextIInv == IInv /\ [Next]_vars => IInv'
<1> SUFFICES ASSUME IInv, [Next]_vars PROVE IInv'
    OBVIOUS
<1>1. Structure'
    BY NextStructure DEF IInv
<1>2. ASSUME NEW h \in Handlers, Handle(h) PROVE Counted' /\ RotationsBounded'
    BY <1>2, ReadTokenCount, RotateCount, OtherCount DEF Handle
<1>3. Counted' /\ RotationsBounded'
    BY <1>2, OtherCount DEF Next
<1> QED BY <1>1, <1>3 DEF IInv

(* The inductive invariant holds in every reachable state. *)
THEOREM Invariance == Spec => []IInv
<1>1. Init => IInv
  <2> SUFFICES ASSUME Init PROVE IInv
      OBVIOUS
  <2>1. \A t \in Tokens : RotatedFrom(t) = {} /\ Refreshing(t) = {}
      BY MarkersAssumption DEF Init, RotatedFrom, Refreshing
  <2>2. Counted /\ RotationsBounded
    <3>1. {} \in SUBSET Handlers
        OBVIOUS
    <3> QED BY <2>1, <3>1, SomeHandlers, FS_EmptySet DEF Counted, RotationsBounded
  <2> QED BY <2>2, InitStructure DEF IInv
<1> QED BY <1>1, NextIInv, PTL DEF Spec

(* Every variable keeps its type. *)
THEOREM TypeCorrect == Spec => []TypeOK
<1>1. IInv => TypeOK
    BY DEF IInv, Structure
<1> QED BY <1>1, Invariance, PTL

(* No token outlives its user, whatever overlaps the deletion. *)
THEOREM NoOrphanTokens == Spec => []TokensHaveUsers
<1>1. IInv => TokensHaveUsers
    BY DEF IInv, Structure
<1> QED BY <1>1, Invariance, PTL

(* A token is rotated at most as often as requests run at once. *)
THEOREM RotationsAreBounded == Spec => []RotationsBounded
<1>1. IInv => RotationsBounded
    BY DEF IInv
<1> QED BY <1>1, Invariance, PTL

(* With one request at a time a token is rotated at most once. *)
THEOREM SerialSingleUse == ASSUME Width = 1 PROVE Spec => []SingleUse
<1>1. IInv => SingleUse
  <2> SUFFICES ASSUME IInv, NEW t \in Tokens PROVE Cardinality(RotatedFrom(t)) <= 1
      BY DEF SingleUse
  <2>1. Refreshing(t) \in SUBSET Handlers
      BY DEF Refreshing
  <2>2. Cardinality(RotatedFrom(t)) \in Nat /\ Cardinality(Refreshing(t)) \in Nat
      BY <2>1, SomeHandlers, FS_CardinalityType DEF IInv, Counted
  <2> QED BY <2>2 DEF IInv, RotationsBounded
<1> QED BY <1>1, Invariance, PTL

(* A blocked user gets no more tokens than one for each login and refresh  *)
(* that was in flight when the block was committed.                        *)
THEOREM BlockedAreShutOut == Spec => BlockedStaysOut
<1> DEFINE Stays(u) == /\ EnteringAs(u)' \subseteq EnteringAs(u)
                       /\ OwnedBy(u)' = OwnedBy(u)
           Uses(u) == \E h \in EnteringAs(u), t \in Tokens :
                        /\ OwnedBy(u)' = OwnedBy(u) \cup {t}
                        /\ EnteringAs(u)' = EnteringAs(u) \ {h}
           Kept(u) == /\ EnteringAs(u)' \subseteq EnteringAs(u)
                      /\ \/ OwnedBy(u)' = OwnedBy(u)
                         \/ \E h \in EnteringAs(u), t \in Tokens :
                              /\ OwnedBy(u)' = OwnedBy(u) \cup {t}
                              /\ EnteringAs(u)' = EnteringAs(u) \ {h}
<1>1. IInv /\ [Next]_vars => [\A u \in Users : account[u] = "blocked" => Kept(u)]_vars
  <2> SUFFICES ASSUME IInv, Next, NEW u \in Users, account[u] = "blocked"
               PROVE  Stays(u) \/ Uses(u)
      BY DEF vars
  <2>0. TypeOK /\ UnissuedIsBlank /\ RequestsMatch /\ account[u] = "blocked"
      BY DEF IInv, Structure
  <2>q. ASSUME owner' = owner,
               \A g \in Handlers : stage'[g] \in {"login", "refresh"} =>
                 req'[g].user # u \/ (stage'[g] = stage[g] /\ req'[g] = req[g])
        PROVE  Stays(u)
      BY <2>q DEF OwnedBy, EnteringAs
  <2>1. ASSUME NEW h \in Handlers, NEW v \in Users,
               Register(h, v) \/ Login(h, v) \/ BlockUser(h, v)
        PROVE  Stays(u)
    <3>1. owner' = owner
        BY <2>1 DEF Register, Login, BlockUser
    <3>2. \A g \in Handlers : stage'[g] \in {"login", "refresh"} =>
            req'[g].user # u \/ (stage'[g] = stage[g] /\ req'[g] = req[g])
        BY <2>0, <2>1 DEF TypeOK, Register, Login, BlockUser, Begin
    <3> QED BY <3>1, <3>2, <2>q
  <2>2. ASSUME NEW h \in Handlers, NEW t \in Tokens, ReadToken(h, t) PROVE Stays(u)
    <3>1. owner' = owner
        BY <2>2 DEF ReadToken
    <3>2. \A g \in Handlers : stage'[g] \in {"login", "refresh"} =>
            req'[g].user # u \/ (stage'[g] = stage[g] /\ req'[g] = req[g])
        BY <2>0, <2>2 DEF TypeOK, ReadToken, Begin
    <3> QED BY <3>1, <3>2, <2>q
  <2>3. ASSUME NEW h \in Handlers, NEW t \in Tokens, IssueToken(h, t) \/ Rotate(h, t)
        PROVE  Stays(u) \/ Uses(u)
    <3>1. /\ stage[h] \in {"login", "refresh"} /\ req[h].user \in Users
          /\ owner[t] = NoUser /\ owner' = [owner EXCEPT ![t] = req[h].user]
          /\ End(h)
        BY <2>0, <2>3 DEF IssueToken, Rotate, Insert, UnissuedIsBlank, TypeOK, Request
    <3>2. \A g \in Handlers :
            IF g = h THEN stage'[g] = "idle" ELSE stage'[g] = stage[g] /\ req'[g] = req[g]
        BY <2>0, <3>1 DEF TypeOK, End
    <3>3. EnteringAs(u)' = EnteringAs(u) \ {h}
        BY <3>2 DEF EnteringAs
    <3>4. CASE req[h].user = u
      <4>1. OwnedBy(u)' = OwnedBy(u) \cup {t}
          BY <2>0, <3>1, <3>4 DEF TypeOK, OwnedBy
      <4>2. h \in EnteringAs(u)
          BY <3>1, <3>4 DEF EnteringAs
      <4> QED BY <3>3, <4>1, <4>2
    <3>5. CASE req[h].user # u
      <4>1. OwnedBy(u)' = OwnedBy(u)
          BY <2>0, <3>1, <3>5, MarkersAssumption DEF TypeOK, OwnedBy
      <4> QED BY <3>3, <4>1
    <3> QED BY <3>4, <3>5
  <2>4. ASSUME NEW h \in Handlers, RevokeBlocked(h) \/ Fail(h) PROVE Stays(u)
    <3>1. owner' = owner
        BY <2>4 DEF RevokeBlocked, Fail
    <3>2. \A g \in Handlers : stage'[g] \in {"login", "refresh"} =>
            req'[g].user # u \/ (stage'[g] = stage[g] /\ req'[g] = req[g])
        BY <2>0, <2>4 DEF TypeOK, RevokeBlocked, Fail, End
    <3> QED BY <3>1, <3>2, <2>q
  <2>5. ASSUME owner' = owner, stage' = stage, req' = req PROVE Stays(u)
      BY <2>5, <2>q
  <2> HIDE DEF Stays, Uses
  <2> QED BY <2>1, <2>2, <2>3, <2>4, <2>5
          DEF Next, Handle, Logout, UnblockUser, DeleteUser, ExpireToken
<1> QED BY <1>1, Invariance, PTL DEF Spec, BlockedStaysOut

(* A user without a usable token comes back only by logging in. *)
THEOREM RevivalTakesALogin == Spec => OnlyLoginRevives
<1> DEFINE Dead(u) == \A t \in Tokens : owner'[t] = u =>
                        /\ row'[t] # "live"
                        /\ \A g \in Handlers : stage'[g] = "refresh" => req'[g].token # t
           Revived == \E h \in Handlers, t \in Tokens : IssueToken(h, t)
<1>1. IInv /\ [Next]_vars =>
        [\A u \in Users : Ended(u) => Ended(u)' \/ Revived]_vars
  <2> SUFFICES ASSUME IInv, Next, NEW u \in Users, Ended(u), ~Revived PROVE Dead(u)
      BY DEF vars, Ended, OwnedBy, Refreshing
  <2>0. /\ TypeOK /\ UnissuedIsBlank /\ RequestsMatch
        /\ \A t \in Tokens : owner[t] = u =>
             /\ row[t] # "live"
             /\ \A g \in Handlers : stage[g] = "refresh" => req[g].token # t
      BY DEF IInv, Structure, Ended, OwnedBy, Refreshing
  <2>1. ASSUME NEW h \in Handlers, NEW v \in Users,
               Register(h, v) \/ Login(h, v) \/ BlockUser(h, v)
        PROVE  Dead(u)
      BY <2>0, <2>1 DEF TypeOK, Register, Login, BlockUser, Begin
  <2>2. ASSUME NEW h \in Handlers, NEW t \in Tokens, ReadToken(h, t) PROVE Dead(u)
      BY <2>0, <2>2 DEF TypeOK, ReadToken, Begin
  <2>3. ASSUME NEW h \in Handlers, NEW t \in Tokens, Rotate(h, t) PROVE Dead(u)
    <3>1. PICK s \in Tokens : s = req[h].token
        BY <2>0, <2>3 DEF TypeOK, Rotate
    <3>2. /\ stage[h] = "refresh" /\ row[t] = "unissued"
          /\ owner' = [owner EXCEPT ![t] = req[h].user]
          /\ row' = [row EXCEPT ![s] = "revoked", ![t] = "live"]
          /\ End(h)
        BY <2>3, <3>1 DEF Rotate, Insert
    <3>3. req[h].user # u /\ owner[s] = req[h].user
        BY <2>0, <3>1, <3>2 DEF RequestsMatch
    <3>4. \A g \in Handlers : stage'[g] = "refresh" => stage[g] = "refresh" /\ req'[g] = req[g]
        BY <2>0, <3>2 DEF TypeOK, End
    <3>5. \A x \in Tokens : owner'[x] = u => owner[x] = u /\ x # t /\ row'[x] # "live"
        BY <2>0, <3>2, <3>3 DEF TypeOK
    <3> QED BY <2>0, <3>4, <3>5
  <2>4. ASSUME NEW h \in Handlers, RevokeBlocked(h) \/ Fail(h) PROVE Dead(u)
      BY <2>0, <2>4 DEF TypeOK, RevokeBlocked, RevokeAll, Fail, End
  <2>5. ASSUME NEW v \in Users, Logout(v) \/ UnblockUser(v) \/ DeleteUser(v)
        PROVE  Dead(u)
      BY <2>0, <2>5 DEF TypeOK, Logout, RevokeAll, UnblockUser, DeleteUser
  <2>6. ASSUME NEW t \in Tokens, ExpireToken(t) PROVE Dead(u)
      BY <2>0, <2>6 DEF TypeOK, ExpireToken
  <2> HIDE DEF Dead
  <2> QED BY <2>1, <2>2, <2>3, <2>4, <2>5, <2>6 DEF Next, Handle
<1> QED BY <1>1, Invariance, PTL DEF Spec, OnlyLoginRevives
=============================================================================
