-------------------------------- MODULE Server --------------------------------
(***************************************************************************)
(* The life of the process (server.ts): it starts, serves requests on the  *)
(* connections clients keep open, and shuts down on a signal.              *)
(*                                                                         *)
(* Node's server.close is external.  It stops listening, drops the idle    *)
(* connections, and calls its callback at the 'close' event, once the last *)
(* connection has ended.  Called again it registers the callback with an   *)
(* error, for the same event.  A connection that is in use at the close    *)
(* may be kept alive and bring further requests.                           *)
(***************************************************************************)
EXTENDS Naturals

CONSTANTS
  Connections,
  Deadline,    \* the shutdown's ten seconds, in ticks
  MaxSignals   \* bound: how many SIGINT and SIGTERM arrive

ASSUME DeadlineAssumption == Deadline \in Nat \ {0} /\ MaxSignals \in Nat

VARIABLES
  process,     \* "starting", "running", or how it exited: with 0 or with 1
  listening,
  connection,  \* "none", "idle", or "busy" while its client awaits an answer
  working,     \* the connections whose request is being handled
  signals,     \* how many signals have been handled
  closers,     \* close callbacks that wait: "first", or "late" with an error
  timers,      \* ticks left of each signal's timer
  database     \* the pool of Prisma

serverVars == <<process, listening, connection, working, signals, closers, timers, database>>
clients == <<connection, working>>
shutdown == <<signals, closers, timers, database>>

Off == Deadline + 1   \* a timer that is not set

ServerInit ==
  /\ process = "starting"
  /\ listening = FALSE
  /\ connection = [c \in Connections |-> "none"]
  /\ working = {}
  /\ signals = 0
  /\ closers = {}
  /\ timers = [s \in 1 .. MaxSignals |-> Off]
  /\ database = "connected"

Exit(code) == process' = code

(* The environment is parsed first; when it is invalid there is no server. *)
Start ==
  /\ process = "starting"
  /\ \/ Exit("failed") /\ UNCHANGED listening
     \/ process' = "running" /\ listening' = TRUE
  /\ UNCHANGED <<clients, shutdown>>

Running == process = "running"

-----------------------------------------------------------------------------
(* Requests *)

(* A request arrives, on a new connection or on one that was kept alive.   *)
Receive(c) ==
  /\ Running
  /\ connection[c] = "idle" \/ (connection[c] = "none" /\ listening)
  /\ c \notin working
  /\ connection' = [connection EXCEPT ![c] = "busy"]
  /\ working' = working \cup {c}
  /\ UNCHANGED <<process, listening, shutdown>>

(* Mutant: a handler ends without an answer. *)
Answer_Silent(c) ==
  /\ Running
  /\ c \in working
  /\ working' = working \ {c}
  /\ UNCHANGED <<process, listening, connection, shutdown>>

(* Every handler answers: with the result, or through next(error) and the  *)
(* error handler.  The client may be gone by now.                          *)
Answer(c) ==
  /\ Running
  /\ c \in working
  /\ working' = working \ {c}
  /\ connection' = [connection EXCEPT ![c] = IF @ = "busy" THEN "idle" ELSE @]
  /\ UNCHANGED <<process, listening, shutdown>>

(* The connection ends: the client hangs up, with its request still being  *)
(* worked on, or the connection was idle for long.                         *)
Disconnect(c) ==
  /\ Running
  /\ connection[c] # "none"
  /\ connection' = [connection EXCEPT ![c] = "none"]
  /\ UNCHANGED <<process, listening, working, shutdown>>

-----------------------------------------------------------------------------
(* Shutdown *)

(* Mutant: no timer. *)
HandleShutdown_NoTimer ==
  /\ Running
  /\ signals < MaxSignals
  /\ signals' = signals + 1
  /\ listening' = FALSE
  /\ connection' = [c \in Connections |->
                      IF connection[c] = "idle" THEN "none" ELSE connection[c]]
  /\ closers' = closers \cup {IF listening THEN "first" ELSE "late"}
  /\ UNCHANGED <<process, working, timers, database>>

(* Every signal closes the server and arms a timer of its own. *)
HandleShutdown ==
  /\ Running
  /\ signals < MaxSignals
  /\ signals' = signals + 1
  /\ listening' = FALSE
  /\ connection' = [c \in Connections |->
                      IF connection[c] = "idle" THEN "none" ELSE connection[c]]
  /\ closers' = closers \cup {IF listening THEN "first" ELSE "late"}
  /\ timers' = [timers EXCEPT ![signals + 1] = Deadline]
  /\ UNCHANGED <<process, working, database>>

(* Mutant: the callback does not wait for the connections. *)
Closed_AtOnce ==
  /\ Running /\ ~listening
  /\ closers # {}
  /\ closers' = {}
  /\ \/ "late" \in closers /\ Exit("failed") /\ UNCHANGED database
     \/ "late" \notin closers /\ database' = "disconnecting" /\ UNCHANGED process
  /\ UNCHANGED <<listening, clients, signals, timers>>

(* The 'close' event.  A callback with an error exits; the first one waits *)
(* for the database, and a late one does not wait for that.                *)
Closed ==
  /\ Running /\ ~listening
  /\ \A c \in Connections : connection[c] = "none"
  /\ closers # {}
  /\ closers' = {}
  /\ \/ "late" \in closers /\ Exit("failed") /\ UNCHANGED database
     \/ "late" \notin closers /\ database' = "disconnecting" /\ UNCHANGED process
  /\ UNCHANGED <<listening, clients, signals, timers>>

(* prisma.$disconnect returns or throws; the 'close' event that another    *)
(* signal brings about meanwhile comes first.                              *)
Disconnected ==
  /\ Running
  /\ database = "disconnecting" /\ closers = {}
  /\ \/ database' = "disconnected" /\ Exit("done")
     \/ UNCHANGED database /\ Exit("failed")
  /\ UNCHANGED <<listening, clients, signals, closers, timers>>

Armed == {s \in DOMAIN timers : timers[s] # Off}

TimesOut ==
  /\ Running
  /\ \E s \in Armed : timers[s] = 0
  /\ Exit("failed")
  /\ UNCHANGED <<listening, clients, shutdown>>

(* A timer that is due is handled before any other becomes due. *)
Tick ==
  /\ Running
  /\ Armed # {} /\ \A s \in Armed : timers[s] > 0
  /\ timers' = [s \in DOMAIN timers |-> IF s \in Armed THEN timers[s] - 1 ELSE Off]
  /\ UNCHANGED <<process, listening, clients, signals, closers, database>>

ServerNext ==
  \/ Start
  \/ \E c \in Connections : Receive(c) \/ Answer(c) \/ Disconnect(c)
  \/ HandleShutdown \/ Closed \/ Disconnected \/ TimesOut \/ Tick

(* Time passes, and a timer that is due runs.  Nothing is assumed of       *)
(* clients, handlers or the database: they may take for ever.              *)
Fairness == WF_serverVars(Tick) /\ WF_serverVars(TimesOut)

ServerSpec == ServerInit /\ [][ServerNext]_serverVars /\ Fairness

-----------------------------------------------------------------------------
Waiting == {c \in Connections : connection[c] = "busy"}

(* Every variable has its type, and a client waits only while its request  *)
(* is being handled.                                                       *)
ServerTypeOK ==
  /\ process \in {"starting", "running", "done", "failed"}
  /\ listening \in BOOLEAN
  /\ connection \in [Connections -> {"none", "idle", "busy"}]
  /\ working \subseteq Connections
  /\ Waiting \subseteq working
  /\ signals \in 0 .. MaxSignals
  /\ closers \subseteq {"first", "late"}
  /\ timers \in [1 .. MaxSignals -> 0 .. Off]
  /\ database \in {"connected", "disconnecting", "disconnected"}

(* An exit with 0 left no client without its answer and no database        *)
(* connection behind, however many signals came; and only the first        *)
(* signal's ten seconds take an answer from a client that still waits.     *)
ShutdownIsGraceful ==
  /\ process = "done" => Waiting = {} /\ database = "disconnected" /\ signals = 1
  /\ process = "failed" /\ Waiting # {} => timers[1] = 0

(* A process that was told to stop stops, whatever its clients, its        *)
(* handlers and the database do.                                           *)
ShutdownEnds == signals > 0 ~> process \in {"done", "failed"}
=============================================================================
