------------------------------- MODULE UserCache -------------------------------
(***************************************************************************)
(* The user cache in front of authenticate (authenticate.ts, cache.ts)     *)
(* against the changes administrators make to users (users.service.ts).    *)
(*                                                                         *)
(* An access token stays valid whatever happens to its user, so what a     *)
(* request may do depends on the cached account.  On a miss authenticate   *)
(* reads the user, waits for the answer, and fills the cache with it; a    *)
(* change commits first and invalidates the cache when its own answer      *)
(* arrives.  Time is counted in ticks; an entry lives for TTL of them, and *)
(* a lookup is answered within Delay.  A TTL of 0, which the configuration *)
(* accepts, is no limit to node-cache: such entries do not age.            *)
(***************************************************************************)
EXTENDS Naturals

CONSTANTS
  Users,
  Accounts,   \* what the cache keeps of a user: the role, and whether blocked
  Blocked,    \* the account of a blocked user
  Gone,       \* the account of a deleted user; never cached
  Handlers,   \* requests that may be in flight at once
  TTL,        \* ticks an entry lives; 0 for ever
  Delay,      \* bound: ticks a lookup may be in flight
  NoEntry, NoRequest

ASSUME AccountsAssumption == Blocked \in Accounts /\ Gone \notin Accounts
ASSUME TimesAssumption == TTL \in Nat /\ Delay \in Nat

(* The ticks an entry may have left; 0 where they do not run out. *)
Lifetimes == IF TTL = 0 THEN {0} ELSE 1..TTL

ASSUME MarkersAssumption == NoEntry \notin [account : Accounts, left : Lifetimes]

VARIABLES
  account,  \* rows of users
  cache,    \* entries of the cache
  stage,    \* what each request waits for
  req,      \* its user, the account it read, the ticks it has waited
  since     \* ghost: ticks since each user last had each account, up to Long

vars == <<account, cache, stage, req, since>>

Long == TTL + Delay + 1

Init ==
  /\ account \in [Users -> Accounts]
  /\ cache = [u \in Users |-> NoEntry]
  /\ stage = [h \in Handlers |-> "idle"]
  /\ req = [h \in Handlers |-> NoRequest]
  /\ since = [u \in Users |-> [a \in Accounts \cup {Gone} |->
                IF a = account[u] THEN 0 ELSE Long]]

End(h) ==
  /\ stage' = [stage EXCEPT ![h] = "idle"]
  /\ req' = [req EXCEPT ![h] = NoRequest]

(* A cache miss; the query is sent.  A hit decides at once and changes     *)
(* nothing.                                                                *)
Miss(h, u) ==
  /\ stage[h] = "idle"
  /\ cache[u] = NoEntry
  /\ stage' = [stage EXCEPT ![h] = "missed"]
  /\ req' = [req EXCEPT ![h] = [user |-> u, account |-> Gone, waited |-> 0]]
  /\ UNCHANGED <<account, cache, since>>

(* The database reads the row. *)
Read(h) ==
  /\ stage[h] = "missed"
  /\ stage' = [stage EXCEPT ![h] = "read"]
  /\ req' = [req EXCEPT ![h].account = account[req[h].user]]
  /\ UNCHANGED <<account, cache, since>>

(* The answer arrives: without a row the request is refused, otherwise the *)
(* account is cached for the full TTL, or for ever, and decides.           *)
Fill(h) ==
  /\ stage[h] = "read"
  /\ cache' = IF req[h].account = Gone THEN cache
              ELSE [cache EXCEPT ![req[h].user] =
                      [account |-> req[h].account, left |-> TTL]]
  /\ End(h)
  /\ UNCHANGED <<account, since>>

(* updateUser, blockUser or deleteUser commits its change. *)
Change(h, u, a) ==
  /\ stage[h] = "idle"
  /\ account[u] # Gone
  /\ account' = [account EXCEPT ![u] = a]
  /\ since' = [since EXCEPT ![u][a] = 0]
  /\ stage' = [stage EXCEPT ![h] = "changed"]
  /\ req' = [req EXCEPT ![h] = [user |-> u, account |-> a, waited |-> 0]]
  /\ UNCHANGED cache

Invalidate(h) ==
  /\ stage[h] = "changed"
  /\ cache' = [cache EXCEPT ![req[h].user] = NoEntry]
  /\ End(h)
  /\ UNCHANGED <<account, since>>

(* The answer is lost with the connection; what was committed stays. *)
Fail(h) ==
  /\ stage[h] # "idle"
  /\ End(h)
  /\ UNCHANGED <<account, cache, since>>

(* The process restarts with an empty cache. *)
Restart ==
  /\ cache' = [u \in Users |-> NoEntry]
  /\ stage' = [h \in Handlers |-> "idle"]
  /\ req' = [h \in Handlers |-> NoRequest]
  /\ UNCHANGED <<account, since>>

LookingUp(h) == stage[h] \in {"missed", "read"}

(* Mutants: an entry that outlives its last tick, and one that never ends. *)
Older_OffByOne(entry) ==
  IF entry = NoEntry \/ entry.left = 0 THEN NoEntry
  ELSE [entry EXCEPT !.left = @ - 1]

Older_Never(entry) == entry

(* An entry a tick later. *)
Older(entry) ==
  IF entry = NoEntry \/ entry.left = 1 THEN NoEntry
  ELSE IF entry.left = 0 THEN entry
  ELSE [entry EXCEPT !.left = @ - 1]

(* A tick of time, for entries, lookups and what users used to be. *)
Tick ==
  /\ \A h \in Handlers : LookingUp(h) => req[h].waited < Delay
  /\ cache' = [u \in Users |-> Older(cache[u])]
  /\ req' = [h \in Handlers |->
               IF LookingUp(h) THEN [req[h] EXCEPT !.waited = @ + 1] ELSE req[h]]
  /\ since' = [u \in Users |-> [a \in Accounts \cup {Gone} |->
                 IF a = account[u] THEN 0
                 ELSE IF since[u][a] < Long THEN since[u][a] + 1 ELSE Long]]
  /\ UNCHANGED <<account, stage>>

Answer(h) == Read(h) \/ Fill(h) \/ Invalidate(h) \/ Fail(h)

Next ==
  \/ \E h \in Handlers, u \in Users : Miss(h, u)
  \/ \E h \in Handlers, u \in Users, a \in Accounts \cup {Gone} : Change(h, u, a)
  \/ \E h \in Handlers : Answer(h)
  \/ Restart
  \/ Tick

(* Time passes, and every query is answered or fails. *)
Fairness == WF_vars(Tick) /\ \A h \in Handlers : WF_vars(Answer(h))

Spec == Init /\ [][Next]_vars /\ Fairness

-----------------------------------------------------------------------------
Entry == [account : Accounts, left : Lifetimes]
Request == [user : Users, account : Accounts \cup {Gone}, waited : 0..Delay]

(* Every variable has the shape the code's entries and requests have. *)
TypeOK ==
  /\ account \in [Users -> Accounts \cup {Gone}]
  /\ cache \in [Users -> Entry \cup {NoEntry}]
  /\ stage \in [Handlers -> {"idle", "missed", "read", "changed"}]
  /\ req \in [Handlers -> Request \cup {NoRequest}]
  /\ since \in [Users -> [Accounts \cup {Gone} -> 0..Long]]
  /\ \A h \in Handlers : stage[h] # "idle" => req[h] \in Request

(* What a request with the user's token may be let in as now: the cached   *)
(* account, or one that an unfinished lookup has read.                     *)
LetInAs(u) ==
  {a \in Accounts :
     \/ cache[u] # NoEntry /\ cache[u].account = a
     \/ \E h \in Handlers : stage[h] = "read" /\ req[h].user = u /\ req[h].account = a}

(* However lookups, changes, lost answers and restarts overlap, and if     *)
(* entries expire at all, a request is let in only as what its user was at *)
(* most one TTL and one lookup ago.                                        *)
StalenessBounded ==
  TTL > 0 => \A u \in Users : \A a \in LetInAs(u) : since[u][a] <= TTL + Delay

(* If entries expire, a user who stays blocked is shut out: sooner or      *)
(* later no request of theirs is let in again.                             *)
BlockedIsShutOut ==
  TTL > 0 => \A u \in Users :
    <>[](account[u] = Blocked) => <>[](LetInAs(u) \subseteq {Blocked})
=============================================================================
