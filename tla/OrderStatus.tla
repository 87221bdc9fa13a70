------------------------------ MODULE OrderStatus ------------------------------
(***************************************************************************)
(* updateOrderStatus (orders.service.ts) run by several requests at once.  *)
(*                                                                         *)
(* A request is an interactive transaction: it reads the order, checks the *)
(* caller and the transition against what it read, updates the row and     *)
(* appends to the history, and commits.  PostgreSQL runs it at READ        *)
(* COMMITTED: the read takes no lock, the UPDATE holds the row until the   *)
(* transaction ends, and a waiting UPDATE then overwrites the row it finds *)
(* (its WHERE names the id only).                                          *)
(***************************************************************************)
EXTENDS OrderTransitions, Naturals, Sequences

CONSTANTS
  Orders,      \* order ids
  Handlers,    \* transactions that may be in flight at once
  Actors,      \* authenticated callers, [id, role]
  CustomerId,  \* the customer of each order
  OwnerId,     \* the owner of each order's restaurant
  Unplaced,    \* status of an order that does not exist yet
  NoTx,        \* a handler with no transaction
  MaxHistory   \* bound: no request is admitted past this many changes

ASSUME ActorsAssumption ==
  \A a \in Actors : a = [id |-> a.id, role |-> a.role] /\ a.role \in Roles
ASSUME UnplacedAssumption == Unplaced \notin Statuses
ASSUME MaxHistoryAssumption == MaxHistory \in Nat

VARIABLES
  status,   \* orders.status, committed
  history,  \* order_status_history of each order, committed, oldest first
  stage,    \* how far each handler's transaction is
  tx        \* what each handler's transaction read and means to write

vars == <<status, history, stage, tx>>

Stages == {"idle", "validated", "written"}

Init ==
  /\ status = [o \in Orders |-> Unplaced]
  /\ history = [o \in Orders |-> <<>>]
  /\ stage = [h \in Handlers |-> "idle"]
  /\ tx = [h \in Handlers |-> NoTx]

Customer(o) == [id |-> CustomerId[o], role |-> "CUSTOMER"]

(* createOrder, seen at its commit: the order and its first history entry. *)
PlaceOrder(o) ==
  /\ status[o] = Unplaced
  /\ Customer(o) \in Actors
  /\ status' = [status EXCEPT ![o] = "PLACED"]
  /\ history' = [history EXCEPT ![o] = <<[status |-> "PLACED", by |-> Customer(o)]>>]
  /\ UNCHANGED <<stage, tx>>

(* Customers reach their own orders, owners their restaurant's, admins all. *)
HasAccess(a, o) ==
  /\ a.role = "CUSTOMER" => a.id = CustomerId[o]
  /\ a.role = "RESTAURANT_OWNER" => a.id = OwnerId[o]

InFlight(o) == {h \in Handlers : stage[h] # "idle" /\ tx[h].order = o}

(* Mutant: it is not checked who may reach the order. *)
Validate_AnyCaller(h, o, to, a) ==
  /\ stage[h] = "idle"
  /\ Len(history[o]) + Cardinality(InFlight(o)) < MaxHistory
  /\ status[o] # Unplaced /\ MayChange(status[o], to, a.role)
  /\ stage' = [stage EXCEPT ![h] = "validated"]
  /\ tx' = [tx EXCEPT ![h] = [order |-> o, to |-> to, by |-> a, seen |-> status[o]]]
  /\ UNCHANGED <<status, history>>

(* findUnique and every check made on what it returned.  A request that    *)
(* fails one throws and changes nothing.                                   *)
Validate(h, o, to, a) ==
  /\ stage[h] = "idle"
  /\ Len(history[o]) + Cardinality(InFlight(o)) < MaxHistory
  /\ status[o] # Unplaced
  /\ HasAccess(a, o)
  /\ MayChange(status[o], to, a.role)
  /\ stage' = [stage EXCEPT ![h] = "validated"]
  /\ tx' = [tx EXCEPT ![h] = [order |-> o, to |-> to, by |-> a, seen |-> status[o]]]
  /\ UNCHANGED <<status, history>>

RowLocked(o) == \E g \in Handlers : stage[g] = "written" /\ tx[g].order = o

(* order.update with its nested history insert, waiting for the row lock. *)
Write(h) ==
  /\ stage[h] = "validated"
  /\ ~RowLocked(tx[h].order)
  /\ stage' = [stage EXCEPT ![h] = "written"]
  /\ UNCHANGED <<status, history, tx>>

(* Mutant: the change is not logged. *)
Commit_WithoutHistory(h) ==
  /\ stage[h] = "written"
  /\ status' = [status EXCEPT ![tx[h].order] = tx[h].to]
  /\ stage' = [stage EXCEPT ![h] = "idle"]
  /\ tx' = [tx EXCEPT ![h] = NoTx]
  /\ UNCHANGED history

Commit(h) ==
  /\ stage[h] = "written"
  /\ LET t == tx[h] IN
       /\ status' = [status EXCEPT ![t.order] = t.to]
       /\ history' = [history EXCEPT ![t.order] =
                        Append(@, [status |-> t.to, by |-> t.by])]
  /\ stage' = [stage EXCEPT ![h] = "idle"]
  /\ tx' = [tx EXCEPT ![h] = NoTx]

(* Mutants: the handler is not released, and a failed write that is tried  *)
(* again without end.                                                      *)
Abort_KeepsStage(h) ==
  /\ stage[h] # "idle"
  /\ tx' = [tx EXCEPT ![h] = NoTx]
  /\ UNCHANGED <<status, history, stage>>

Abort_Retries(h) ==
  /\ stage[h] = "written"
  /\ stage' = [stage EXCEPT ![h] = "validated"]
  /\ UNCHANGED <<status, history, tx>>

(* The transaction's timeout, a lost connection or a crash of the process. *)
Abort(h) ==
  /\ stage[h] # "idle"
  /\ stage' = [stage EXCEPT ![h] = "idle"]
  /\ tx' = [tx EXCEPT ![h] = NoTx]
  /\ UNCHANGED <<status, history>>

Finish(h) == Write(h) \/ Commit(h) \/ Abort(h)

Next ==
  \/ \E o \in Orders : PlaceOrder(o)
  \/ \E h \in Handlers, o \in Orders, to \in Requestable, a \in Actors :
       Validate(h, o, to, a)
  \/ \E h \in Handlers : Finish(h)

(* Every statement either returns or the transaction's timeout ends it. *)
Fairness == \A h \in Handlers : WF_vars(Finish(h))

Spec == Init /\ [][Next]_vars /\ Fairness

-----------------------------------------------------------------------------
Entry == [status : Statuses, by : Actors]
Tx == [order : Orders, to : Requestable, by : Actors, seen : Statuses]

(* Every variable has the shape the code's rows and requests have. *)
TypeOK ==
  /\ status \in [Orders -> Statuses \cup {Unplaced}]
  /\ history \in [Orders -> Seq(Entry)]
  /\ stage \in [Handlers -> Stages]
  /\ tx \in [Handlers -> Tx \cup {NoTx}]
  /\ \A h \in Handlers : stage[h] # "idle" => tx[h] \in Tx

LastStatus(o) == history[o][Len(history[o])].status

(* However requests race on one order, its status is the status of its     *)
(* latest history entry: the row and the log are written by one            *)
(* transaction and never drift apart.                                      *)
HistoryMirrorsStatus ==
  \A o \in Orders :
    IF history[o] = <<>> THEN status[o] = Unplaced
                         ELSE status[o] = LastStatus(o)

LegalAfter(o, i, j) ==
  /\ MayChange(history[o][j].status, history[o][i].status, history[o][i].by.role)
  /\ HasAccess(history[o][i].by, o)

(* Every change in the log was, for the user who made it, a legal move     *)
(* from some status the order had had before.  It is not always legal from *)
(* the status just before it: that is what the race costs.                 *)
EveryChangeWasOnceLegal ==
  \A o \in Orders : \A i \in 2..Len(history[o]) :
    \E j \in 1..(i - 1) : LegalAfter(o, i, j)

HadBefore(o, i, s) == \E j \in 1..(i - 1) : history[o][j].status = s

(* No race lets an order skip a stage of its delivery: it is processed only *)
(* after it was placed, on its way only after processing, and so on.        *)
NoStageIsSkipped ==
  \A o \in Orders : \A i \in 1..Len(history[o]) :
    LET s == history[o][i].status IN
      /\ s \in {"PROCESSING", "CANCELED"} => HadBefore(o, i, "PLACED")
      /\ s = "IN_ROUTE"  => HadBefore(o, i, "PROCESSING")
      /\ s = "DELIVERED" => HadBefore(o, i, "IN_ROUTE")
      /\ s = "RECEIVED"  => HadBefore(o, i, "DELIVERED")

Settled(o) == status[o] \in Terminal /\ InFlight(o) = {}

(* A canceled or received order on which no transaction is in flight is    *)
(* settled for good: nobody's request is admitted on it again, so only a   *)
(* transaction that began before the order ended can reopen it.            *)
OnlyARaceReopens ==
  [][\A o \in Orders : Settled(o) => Settled(o)' /\ status'[o] = status[o]]_vars

(* Once an order is canceled or received it never leaves that status. *)
TerminalIsFinal ==
  [][\A o \in Orders : status[o] \in Terminal => status'[o] = status[o]]_vars

(* Every accepted request ends: it commits, or its transaction times out   *)
(* while it waits for the row behind others.                               *)
RequestsTerminate ==
  \A h \in Handlers : stage[h] # "idle" ~> stage[h] = "idle"

(* With one request at a time the service keeps the lifecycle's promise. *)
Lifecycle == INSTANCE OrderLifecycle
ImplementsLifecycle == Lifecycle!Spec
=============================================================================
