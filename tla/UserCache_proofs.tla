---------------------------- MODULE UserCache_proofs ----------------------------
(***************************************************************************)
(* Theorems of UserCache, for any users, accounts, requests and times.     *)
(***************************************************************************)
EXTENDS UserCache, TLAPS

(* The account a user has now is no tick old. *)
CurrentIsNow == \A u \in Users : since[u][account[u]] = 0

(* What a lookup has read was true when the lookup began or later. *)
LookupsAreRecent ==
  \A h \in Handlers :
    stage[h] = "read" => since[req[h].user][req[h].account] <= req[h].waited

(* An entry that expires was true at most one lookup before it was cached. *)
EntriesAreRecent ==
  TTL > 0 => \A u \in Users :
    cache[u] # NoEntry => since[u][cache[u].account] <= (TTL - cache[u].left) + Delay

IInv == TypeOK /\ CurrentIsNow /\ LookupsAreRecent /\ EntriesAreRecent

(* The initial state satisfies the inductive invariant. *)
LEMMA InitIInv == Init => IInv
<1> SUFFICES ASSUME Init PROVE IInv
    OBVIOUS
<1>1. Long \in Nat
    BY TimesAssumption DEF Long
<1> QED BY <1>1 DEF Init, IInv, TypeOK, CurrentIsNow, LookupsAreRecent, EntriesAreRecent

(* A lookup begins, and the database answers it with the current account.  *)
LEMMA LookupIInv ==
  ASSUME IInv, NEW h \in Handlers, Read(h) \/ \E u \in Users : Miss(h, u)
  PROVE  IInv'
<1>0. IInv
    OBVIOUS
<1>1. ASSUME NEW u \in Users, Miss(h, u) PROVE IInv'
  <2>1. [user |-> u, account |-> Gone, waited |-> 0] \in Request
      BY TimesAssumption DEF Request
  <2>2. TypeOK'
      BY <1>0, <1>1, <2>1 DEF IInv, TypeOK, Miss
  <2>3. (CurrentIsNow /\ LookupsAreRecent /\ EntriesAreRecent)'
      BY <1>0, <1>1 DEF IInv, TypeOK, Miss, CurrentIsNow, LookupsAreRecent, EntriesAreRecent
  <2> QED BY <2>2, <2>3 DEF IInv
<1>2. ASSUME Read(h) PROVE IInv'
  <2>1. req[h] \in Request
      BY <1>0, <1>2 DEF IInv, TypeOK, Read
  <2>2. req'[h] = [req[h] EXCEPT !.account = account[req[h].user]]
      BY <1>0, <1>2 DEF IInv, TypeOK, Read
  <2>3. /\ req'[h] \in Request /\ req'[h].user = req[h].user
        /\ req'[h].account = account[req[h].user] /\ req'[h].waited \in Nat
      BY <1>0, <2>1, <2>2, TimesAssumption DEF IInv, TypeOK, Request
  <2>4. \A g \in Handlers : g # h => stage'[g] = stage[g] /\ req'[g] = req[g]
      BY <1>0, <1>2 DEF IInv, TypeOK, Read
  <2>5. TypeOK'
      BY <1>0, <1>2, <2>3, <2>4 DEF IInv, TypeOK, Read
  <2>6. LookupsAreRecent'
    <3>1. since[req'[h].user][req'[h].account] <= req'[h].waited
        BY <1>0, <2>1, <2>3 DEF IInv, CurrentIsNow, Request
    <3> QED BY <1>0, <1>2, <2>4, <3>1 DEF IInv, LookupsAreRecent, Read
  <2>7. (CurrentIsNow /\ EntriesAreRecent)'
      BY <1>0, <1>2 DEF IInv, Read, CurrentIsNow, EntriesAreRecent
  <2> QED BY <2>5, <2>6, <2>7 DEF IInv
<1> QED BY <1>1, <1>2

(* An entry starts out as old as the lookup that made it. *)
LEMMA FillIInv == ASSUME IInv, NEW h \in Handlers, Fill(h) PROVE IInv'
<1>0. TypeOK /\ req[h] \in Request /\ stage[h] = "read"
    BY DEF IInv, TypeOK, Fill
<1>1. PICK u \in Users, a \in Accounts \cup {Gone} :
        u = req[h].user /\ a = req[h].account /\ since[u][a] <= Delay
    BY <1>0, TimesAssumption DEF IInv, TypeOK, Request, LookupsAreRecent
<1>2. /\ a = Gone => cache' = cache
      /\ a # Gone => cache' = [cache EXCEPT ![u] = [account |-> a, left |-> TTL]]
      /\ End(h) /\ UNCHANGED <<account, since>>
    BY <1>1 DEF Fill
<1>3. a # Gone => [account |-> a, left |-> TTL] \in Entry
    BY TimesAssumption DEF Entry, Lifetimes
<1>4. TypeOK'
    BY <1>0, <1>2, <1>3 DEF TypeOK, End
<1>5. EntriesAreRecent'
  <2> SUFFICES ASSUME TTL > 0, NEW v \in Users, cache'[v] # NoEntry
               PROVE  since[v][cache'[v].account] <= (TTL - cache'[v].left) + Delay
      BY <1>2 DEF EntriesAreRecent
  <2>1. CASE cache'[v] = cache[v]
      BY <2>1 DEF IInv, EntriesAreRecent
  <2>2. CASE cache'[v] # cache[v]
    <3>1. v = u /\ cache'[v] = [account |-> a, left |-> TTL]
        BY <2>2, <1>0, <1>2 DEF TypeOK
    <3> QED BY <3>1, <1>1, TimesAssumption DEF TypeOK
  <2> QED BY <2>1, <2>2
<1>6. (CurrentIsNow /\ LookupsAreRecent)'
    BY <1>0, <1>2 DEF IInv, TypeOK, End, CurrentIsNow, LookupsAreRecent
<1> QED BY <1>4, <1>5, <1>6 DEF IInv

(* A change only makes its account more recent. *)
LEMMA ChangeIInv ==
  ASSUME IInv, NEW h \in Handlers, NEW u \in Users, NEW a \in Accounts \cup {Gone},
         Change(h, u, a)
  PROVE  IInv'
<1>0. TypeOK /\ Long \in Nat
    BY TimesAssumption DEF IInv, Long
<1>1. [user |-> u, account |-> a, waited |-> 0] \in Request
    BY TimesAssumption DEF Request
<1>2. TypeOK'
  <2>1. since' \in [Users -> [Accounts \cup {Gone} -> 0..Long]]
    <3>1. 0 \in 0..Long
        BY <1>0
    <3>2. PICK ages \in [Accounts \cup {Gone} -> 0..Long] : ages = since[u]
        BY <1>0, Zenon DEF TypeOK
    <3>3. [ages EXCEPT ![a] = 0] \in [Accounts \cup {Gone} -> 0..Long]
        BY <3>1
    <3>4. since' = [since EXCEPT ![u] = [ages EXCEPT ![a] = 0]]
        BY <3>2 DEF Change
    <3> QED BY <1>0, <3>3, <3>4 DEF TypeOK
  <2> QED BY <1>0, <1>1, <2>1 DEF TypeOK, Change
<1>3. /\ since'[u][a] = 0
      /\ \A v \in Users, b \in Accounts \cup {Gone} :
           since'[v][b] = since[v][b] \/ (v = u /\ b = a)
    BY <1>0 DEF TypeOK, Change
<1>4. \A v \in Users, b \in Accounts \cup {Gone} :
        since[v][b] \in Nat /\ since'[v][b] <= since[v][b]
    BY <1>0, <1>3 DEF TypeOK
<1>5. CurrentIsNow'
    BY <1>0, <1>3 DEF IInv, CurrentIsNow, TypeOK, Change
<1>6. LookupsAreRecent'
  <2> SUFFICES ASSUME NEW g \in Handlers, stage'[g] = "read"
               PROVE  since'[req'[g].user][req'[g].account] <= req'[g].waited
      BY DEF LookupsAreRecent
  <2>1. stage[g] = "read" /\ req'[g] = req[g] /\ req[g] \in Request
      BY <1>0 DEF TypeOK, Change
  <2>2. since[req[g].user][req[g].account] <= req[g].waited
      BY <2>1 DEF IInv, LookupsAreRecent
  <2>3. /\ since'[req[g].user][req[g].account] <= since[req[g].user][req[g].account]
        /\ since[req[g].user][req[g].account] \in Nat
        /\ since'[req[g].user][req[g].account] \in 0..Long
        /\ req[g].waited \in 0..Delay
      BY <2>1, <1>2, <1>4 DEF Request, TypeOK
  <2> QED BY <2>1, <2>2, <2>3, <1>0, TimesAssumption
<1>7. EntriesAreRecent'
  <2> SUFFICES ASSUME TTL > 0, NEW v \in Users, cache[v] # NoEntry
               PROVE  since'[v][cache[v].account] <= (TTL - cache[v].left) + Delay
      BY DEF EntriesAreRecent, Change
  <2>1. cache[v] \in Entry
      BY <1>0 DEF TypeOK
  <2>2. since[v][cache[v].account] <= (TTL - cache[v].left) + Delay
      BY DEF IInv, EntriesAreRecent
  <2>3. /\ since'[v][cache[v].account] <= since[v][cache[v].account]
        /\ since[v][cache[v].account] \in Nat
        /\ since'[v][cache[v].account] \in 0..Long
        /\ cache[v].left \in 1..TTL
      BY <2>1, <1>2, <1>4 DEF Entry, Lifetimes, TypeOK
  <2> QED BY <2>2, <2>3, <1>0, TimesAssumption
<1> QED BY <1>2, <1>5, <1>6, <1>7 DEF IInv

(* Dropping entries and requests makes nothing older. *)
LEMMA DropIInv ==
  ASSUME IInv, Restart \/ \E h \in Handlers : Invalidate(h) \/ Fail(h)
  PROVE  IInv'
<1>0. TypeOK
    BY DEF IInv
<1>1. CASE Restart
    BY <1>1 DEF Restart, IInv, TypeOK, CurrentIsNow, LookupsAreRecent, EntriesAreRecent
<1>2. ASSUME NEW h \in Handlers, Invalidate(h) PROVE IInv'
    BY <1>0, <1>2 DEF Invalidate, End, IInv, TypeOK, CurrentIsNow, LookupsAreRecent,
                      EntriesAreRecent
<1>3. ASSUME NEW h \in Handlers, Fail(h) PROVE IInv'
    BY <1>0, <1>3 DEF Fail, End, IInv, TypeOK, CurrentIsNow, LookupsAreRecent,
                      EntriesAreRecent
<1> QED BY <1>1, <1>2, <1>3

(* A tick ages entries, lookups and former accounts alike. *)
LEMMA TickIInv == ASSUME IInv, Tick PROVE IInv'
<1>0. TypeOK /\ Long \in Nat
    BY TimesAssumption DEF IInv, Long
<1>1. \A u \in Users, a \in Accounts \cup {Gone} :
        /\ since[u][a] \in 0..Long /\ since'[u][a] \in 0..Long
        /\ since'[u][a] <= since[u][a] + 1
        /\ a = account[u] => since'[u][a] = 0
    BY <1>0 DEF TypeOK, Tick
<1>2. \A u \in Users :
        cache'[u] # NoEntry =>
          /\ cache[u] # NoEntry /\ cache[u] \in Entry /\ cache'[u] \in Entry
          /\ cache'[u].account = cache[u].account
          /\ TTL > 0 => cache'[u].left = cache[u].left - 1
  <2> SUFFICES ASSUME NEW u \in Users, cache'[u] # NoEntry
               PROVE  /\ cache[u] # NoEntry /\ cache[u] \in Entry /\ cache'[u] \in Entry
                      /\ cache'[u].account = cache[u].account
                      /\ TTL > 0 => cache'[u].left = cache[u].left - 1
      OBVIOUS
  <2>1. cache'[u] = Older(cache[u])
      BY DEF Tick
  <2>2. cache[u] # NoEntry /\ cache[u].left # 1
      BY <2>1 DEF Older
  <2>3. cache[u] \in Entry
      BY <2>2, <1>0 DEF TypeOK
  <2>4. CASE TTL = 0
      BY <2>1, <2>2, <2>3, <2>4 DEF Older, Entry, Lifetimes
  <2>5. CASE TTL # 0
    <3>1. cache[u].left \in 1..TTL /\ cache[u].left # 0
        BY <2>3, <2>5, TimesAssumption DEF Entry, Lifetimes
    <3>2. cache'[u] = [cache[u] EXCEPT !.left = cache[u].left - 1]
        BY <2>1, <2>2, <3>1 DEF Older
    <3>3. cache[u].left - 1 \in 1..TTL
        BY <2>2, <3>1, TimesAssumption
    <3> QED BY <2>2, <2>3, <2>5, <3>2, <3>3 DEF Entry, Lifetimes
  <2> QED BY <2>4, <2>5
<1>3. \A h \in Handlers :
        /\ ~LookingUp(h) => req'[h] = req[h]
        /\ LookingUp(h) => /\ req[h] \in Request /\ req'[h] \in Request
                           /\ req'[h].user = req[h].user
                           /\ req'[h].account = req[h].account
                           /\ req'[h].waited = req[h].waited + 1
  <2> SUFFICES ASSUME NEW h \in Handlers, LookingUp(h)
               PROVE  /\ req[h] \in Request /\ req'[h] \in Request
                      /\ req'[h].user = req[h].user
                      /\ req'[h].account = req[h].account
                      /\ req'[h].waited = req[h].waited + 1
      BY DEF Tick
  <2>1. req[h] \in Request /\ req[h].waited < Delay
      BY <1>0 DEF TypeOK, Tick, LookingUp
  <2>2. req'[h] = [req[h] EXCEPT !.waited = @ + 1]
      BY DEF Tick
  <2> QED BY <2>1, <2>2, TimesAssumption DEF Request
<1>4. TypeOK'
  <2>1. cache' \in [Users -> Entry \cup {NoEntry}]
      BY <1>2 DEF Tick
  <2>2. req' \in [Handlers -> Request \cup {NoRequest}]
      BY <1>0, <1>3 DEF TypeOK, Tick
  <2>3. since' \in [Users -> [Accounts \cup {Gone} -> 0..Long]]
      BY <1>0 DEF TypeOK, Tick
  <2>4. \A h \in Handlers : stage'[h] # "idle" => req'[h] \in Request
      BY <1>0, <1>3 DEF TypeOK, Tick
  <2> QED BY <1>0, <2>1, <2>2, <2>3, <2>4 DEF TypeOK, Tick
<1>5. CurrentIsNow'
    BY <1>0, <1>1 DEF CurrentIsNow, TypeOK, Tick
<1>6. LookupsAreRecent'
  <2> SUFFICES ASSUME NEW h \in Handlers, stage[h] = "read"
               PROVE  since'[req'[h].user][req'[h].account] <= req'[h].waited
      BY DEF LookupsAreRecent, Tick
  <2>1. LookingUp(h)
      BY DEF LookingUp
  <2>2. since[req[h].user][req[h].account] <= req[h].waited
      BY DEF IInv, LookupsAreRecent
  <2>3. /\ req[h].user \in Users /\ req[h].account \in Accounts \cup {Gone}
        /\ req[h].waited \in 0..Delay
      BY <2>1, <1>3 DEF Request
  <2>4. PICK u \in Users, a \in Accounts \cup {Gone}, w \in 0..Delay :
          u = req[h].user /\ a = req[h].account /\ w = req[h].waited
      BY <2>3
  <2>5. /\ since'[u][a] <= since[u][a] + 1 /\ since[u][a] <= w
        /\ since[u][a] \in 0..Long /\ since'[u][a] \in 0..Long
      BY <1>1, <2>2, <2>4
  <2>6. since'[u][a] <= w + 1
      BY <2>5, <1>0, TimesAssumption
  <2> QED BY <2>1, <2>4, <2>6, <1>3
<1>7. EntriesAreRecent'
  <2> SUFFICES ASSUME TTL > 0, NEW u \in Users, cache'[u] # NoEntry
               PROVE  since'[u][cache'[u].account] <= (TTL - cache'[u].left) + Delay
      BY DEF EntriesAreRecent
  <2>1. PICK a \in Accounts, n \in 1..TTL :
          /\ cache[u].account = a /\ cache'[u].account = a
          /\ cache[u].left = n /\ cache'[u].left = n - 1
      BY <1>2, TimesAssumption DEF Entry, Lifetimes
  <2>2. since[u][a] <= (TTL - n) + Delay
      BY <1>2, <2>1 DEF IInv, EntriesAreRecent
  <2>3. /\ since'[u][a] <= since[u][a] + 1
        /\ since[u][a] \in 0..Long /\ since'[u][a] \in 0..Long
      BY <1>1
  <2>4. since'[u][a] <= (TTL - (n - 1)) + Delay
      BY <2>2, <2>3, <1>0, TimesAssumption
  <2> QED BY <2>1, <2>4
<1> QED BY <1>4, <1>5, <1>6, <1>7 DEF IInv

(* Every step preserves the inductive invariant. *)
LEMMA NextIInv == IInv /\ [Next]_vars => IInv'
<1> SUFFICES ASSUME IInv, [Next]_vars PROVE IInv'
    OBVIOUS
<1>1. CASE UNCHANGED vars
    BY <1>1 DEF vars, IInv, TypeOK, CurrentIsNow, LookupsAreRecent, EntriesAreRecent
<1>2. CASE Next
    BY <1>2, LookupIInv, FillIInv, ChangeIInv, DropIInv, TickIInv DEF Next, Answer
<1> QED BY <1>1, <1>2

(* The inductive invariant holds in every reachable state. *)
THEOREM Invariance == Spec => []IInv
<1> QED BY InitIInv, NextIInv, PTL DEF Spec

(* Every variable keeps its type. *)
THEOREM TypeCorrect == Spec => []TypeOK
<1>1. IInv => TypeOK
    BY DEF IInv
<1> QED BY <1>1, Invariance, PTL

(* With any TTL but 0 a request is let in as what its user was at most     *)
(* TTL + Delay ago.                                                        *)
THEOREM StalenessIsBounded == Spec => []StalenessBounded
<1>1. IInv => StalenessBounded
  <2> SUFFICES ASSUME IInv, TTL > 0, NEW u \in Users, NEW a \in LetInAs(u)
               PROVE  since[u][a] <= TTL + Delay
      BY DEF StalenessBounded
  <2>0. a \in Accounts /\ since[u][a] \in 0..Long /\ Long \in Nat
      BY TimesAssumption DEF IInv, TypeOK, LetInAs, Long
  <2>1. CASE cache[u] # NoEntry /\ cache[u].account = a
    <3>1. cache[u].left \in 1..TTL
        BY <2>1, TimesAssumption DEF IInv, TypeOK, Entry, Lifetimes
    <3>2. since[u][a] <= (TTL - cache[u].left) + Delay
        BY <2>1 DEF IInv, EntriesAreRecent
    <3> QED BY <2>0, <3>1, <3>2, TimesAssumption
  <2>2. ASSUME NEW h \in Handlers,
               stage[h] = "read" /\ req[h].user = u /\ req[h].account = a
        PROVE  since[u][a] <= TTL + Delay
    <3>1. req[h].waited \in 0..Delay /\ since[u][a] <= req[h].waited
        BY <2>2 DEF IInv, TypeOK, Request, LookupsAreRecent
    <3> QED BY <2>0, <3>1, TimesAssumption
  <2> QED BY <2>1, <2>2 DEF LetInAs
<1> QED BY <1>1, Invariance, PTL
=============================================================================
