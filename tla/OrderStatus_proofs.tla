-------------------------- MODULE OrderStatus_proofs --------------------------
(***************************************************************************)
(* Theorems of OrderStatus, for any number of orders, requests and users.  *)
(***************************************************************************)
EXTENDS OrderStatus, SequenceTheorems, TLAPS

(* A request in flight read a status the order had, and was entitled to    *)
(* the change it is about to write.                                        *)
PendingWasLegal ==
  \A h \in Handlers : stage[h] # "idle" =>
    /\ \E j \in 1..Len(history[tx[h].order]) :
         history[tx[h].order][j].status = tx[h].seen
    /\ MayChange(tx[h].seen, tx[h].to, tx[h].by.role)
    /\ HasAccess(tx[h].by, tx[h].order)

PlacedFirst == \A o \in Orders : history[o] # <<>> => history[o][1].status = "PLACED"

IInv ==
  /\ TypeOK
  /\ HistoryMirrorsStatus
  /\ EveryChangeWasOnceLegal
  /\ PlacedFirst
  /\ PendingWasLegal

(* The initial state satisfies the inductive invariant. *)
LEMMA InitIInv == Init => IInv
<1> SUFFICES ASSUME Init PROVE IInv
    OBVIOUS
<1>1. TypeOK
    BY DEF Init, TypeOK, Stages, Entry
<1>2. HistoryMirrorsStatus /\ EveryChangeWasOnceLegal /\ PlacedFirst
    BY DEF Init, HistoryMirrorsStatus, EveryChangeWasOnceLegal, PlacedFirst
<1>3. PendingWasLegal
    BY DEF Init, PendingWasLegal
<1> QED BY <1>1, <1>2, <1>3 DEF IInv

(* Placing an order gives it a history of one entry, PLACED. *)
LEMMA PlaceOrderIInv ==
  ASSUME IInv, NEW p \in Orders, PlaceOrder(p) PROVE IInv'
<1> DEFINE first == [status |-> "PLACED", by |-> Customer(p)]
<1>a. TypeOK /\ first \in Entry
    BY DEF IInv, PlaceOrder, Entry, Statuses
<1>b. /\ status' = [status EXCEPT ![p] = "PLACED"]
      /\ history' = [history EXCEPT ![p] = <<first>>]
      /\ stage' = stage /\ tx' = tx
    BY DEF PlaceOrder
<1>c. <<first>> \in Seq(Entry) /\ Len(<<first>>) = 1 /\ <<first>>[1] = first
    BY <1>a
<1>d. history[p] = <<>>
  <2>1. status[p] = Unplaced
      BY DEF PlaceOrder
  <2>2. history[p] \in Seq(Entry)
      BY <1>a DEF TypeOK
  <2>3. CASE history[p] # <<>>
    <3>1. status[p] = history[p][Len(history[p])].status
        BY <2>3 DEF IInv, HistoryMirrorsStatus, LastStatus
    <3>2. history[p][Len(history[p])] \in Entry
        BY <2>2, <2>3, EmptySeq
    <3> QED BY <3>1, <3>2, <2>1, UnplacedAssumption DEF Entry
  <2> QED BY <2>3
<1>e. \A o \in Orders : o # p => history'[o] = history[o] /\ status'[o] = status[o]
    BY <1>a, <1>b DEF TypeOK
<1>f. history'[p] = <<first>> /\ status'[p] = "PLACED" /\ first.status = "PLACED"
    BY <1>a, <1>b DEF TypeOK
<1> HIDE DEF first
<1>1. TypeOK'
    BY <1>a, <1>b, <1>c DEF TypeOK, Statuses
<1>2. HistoryMirrorsStatus'
  <2>1. ASSUME NEW o \in Orders, o # p
        PROVE  IF history'[o] = <<>> THEN status'[o] = Unplaced
               ELSE status'[o] = history'[o][Len(history'[o])].status
    <3>1. history'[o] = history[o] /\ status'[o] = status[o]
        BY <1>e, <2>1
    <3>2. IF history[o] = <<>> THEN status[o] = Unplaced
          ELSE status[o] = history[o][Len(history[o])].status
        BY DEF IInv, HistoryMirrorsStatus, LastStatus
    <3> QED BY <3>1, <3>2
  <2>2. history'[p] # <<>> /\ status'[p] = history'[p][Len(history'[p])].status
    <3>1. Len(history'[p]) = 1 /\ history'[p][1] = first
        BY <1>c, <1>f
    <3>2. history'[p] # <<>>
        BY <3>1
    <3> QED BY <3>1, <3>2, <1>f
  <2> QED BY <2>1, <2>2 DEF HistoryMirrorsStatus, LastStatus
<1>3. EveryChangeWasOnceLegal'
  <2> SUFFICES ASSUME NEW o \in Orders, NEW i \in 2..Len(history'[o])
               PROVE  \E j \in 1..(i - 1) : LegalAfter(o, i, j)'
      BY DEF EveryChangeWasOnceLegal
  <2>1. o # p /\ history'[o] = history[o]
    <3>1. Len(history'[p]) = 1
        BY <1>c, <1>f
    <3>2. ASSUME o = p PROVE FALSE
      <4>1. Len(history'[o]) = 1
          BY <3>1, <3>2
      <4>2. i \in 2..1
          BY <4>1
      <4> QED BY <4>2
    <3> QED BY <3>2, <1>e
  <2>2. PICK j \in 1..(i - 1) : LegalAfter(o, i, j)
      BY <2>1 DEF IInv, EveryChangeWasOnceLegal
  <2> QED BY <2>1, <2>2 DEF LegalAfter, HasAccess
<1>4. PlacedFirst'
    BY <1>c, <1>e, <1>f DEF IInv, PlacedFirst
<1>5. PendingWasLegal'
  <2> SUFFICES ASSUME NEW h \in Handlers, stage[h] # "idle"
               PROVE  /\ \E j \in 1..Len(history'[tx[h].order]) :
                           history'[tx[h].order][j].status = tx[h].seen
                      /\ MayChange(tx[h].seen, tx[h].to, tx[h].by.role)
                      /\ HasAccess(tx[h].by, tx[h].order)
      BY <1>b DEF PendingWasLegal, HasAccess
  <2>1. tx[h].order \in Orders
      BY <1>a DEF TypeOK, Tx
  <2>2. tx[h].order # p
      BY <1>d DEF IInv, PendingWasLegal
  <2> QED BY <2>1, <2>2, <1>e DEF IInv, PendingWasLegal
<1> QED BY <1>1, <1>2, <1>3, <1>4, <1>5 DEF IInv

(* The read finds the order in the status its history ends with. *)
LEMMA ValidateIInv ==
  ASSUME IInv, NEW g \in Handlers, NEW p \in Orders, NEW to \in Requestable,
         NEW a \in Actors, Validate(g, p, to, a)
  PROVE  IInv'
<1>a. TypeOK
    BY DEF IInv
<1>b. status[p] \in Statuses
    BY <1>a DEF TypeOK, Validate
<1>c. /\ status' = status /\ history' = history
      /\ stage' = [stage EXCEPT ![g] = "validated"]
      /\ tx' = [tx EXCEPT ![g] = [order |-> p, to |-> to, by |-> a, seen |-> status[p]]]
    BY DEF Validate
<1>1. TypeOK'
  <2>1. [order |-> p, to |-> to, by |-> a, seen |-> status[p]] \in Tx
      BY <1>b DEF Tx
  <2> QED BY <2>1, <1>a, <1>c DEF TypeOK, Stages
<1>2. HistoryMirrorsStatus' /\ EveryChangeWasOnceLegal' /\ PlacedFirst'
    BY <1>c DEF IInv, HistoryMirrorsStatus, LastStatus, EveryChangeWasOnceLegal,
                LegalAfter, HasAccess, PlacedFirst
<1>3. PendingWasLegal'
  <2> SUFFICES ASSUME NEW h \in Handlers, stage'[h] # "idle"
               PROVE  /\ \E j \in 1..Len(history[tx'[h].order]) :
                           history[tx'[h].order][j].status = tx'[h].seen
                      /\ MayChange(tx'[h].seen, tx'[h].to, tx'[h].by.role)
                      /\ HasAccess(tx'[h].by, tx'[h].order)
      BY <1>c DEF PendingWasLegal, HasAccess
  <2>1. CASE h # g
      BY <2>1, <1>a, <1>c DEF IInv, PendingWasLegal, TypeOK
  <2>2. CASE h = g
    <3>1. tx'[g] = [order |-> p, to |-> to, by |-> a, seen |-> status[p]]
        BY <1>a, <1>c DEF TypeOK
    <3>2. history[p] \in Seq(Entry) /\ history[p] # <<>>
        BY <1>a, <1>b, UnplacedAssumption DEF IInv, TypeOK, HistoryMirrorsStatus
    <3>3. Len(history[p]) \in 1..Len(history[p])
        BY <3>2, EmptySeq
    <3>4. history[p][Len(history[p])].status = status[p]
        BY <3>2 DEF IInv, HistoryMirrorsStatus, LastStatus
    <3> QED BY <2>2, <3>1, <3>3, <3>4 DEF Validate
  <2> QED BY <2>1, <2>2
<1> QED BY <1>1, <1>2, <1>3 DEF IInv

(* Taking the row lock changes no row. *)
LEMMA WriteIInv == ASSUME IInv, NEW g \in Handlers, Write(g) PROVE IInv'
<1>a. TypeOK
    BY DEF IInv
<1>b. status' = status /\ history' = history /\ tx' = tx
      /\ stage' = [stage EXCEPT ![g] = "written"] /\ stage[g] = "validated"
    BY DEF Write
<1>1. TypeOK'
    BY <1>a, <1>b DEF TypeOK, Stages
<1>2. HistoryMirrorsStatus' /\ EveryChangeWasOnceLegal' /\ PlacedFirst'
    BY <1>b DEF IInv, HistoryMirrorsStatus, LastStatus, EveryChangeWasOnceLegal,
                LegalAfter, HasAccess, PlacedFirst
<1>3. PendingWasLegal'
  <2>1. \A h \in Handlers : stage'[h] # "idle" => stage[h] # "idle"
      BY <1>a, <1>b DEF TypeOK
  <2> QED BY <2>1, <1>b DEF IInv, PendingWasLegal, HasAccess
<1> QED BY <1>1, <1>2, <1>3 DEF IInv

(* An abandoned transaction leaves no trace. *)
LEMMA AbortIInv == ASSUME IInv, NEW g \in Handlers, Abort(g) PROVE IInv'
<1>a. TypeOK
    BY DEF IInv
<1>b. status' = status /\ history' = history
      /\ stage' = [stage EXCEPT ![g] = "idle"] /\ tx' = [tx EXCEPT ![g] = NoTx]
    BY DEF Abort
<1>1. TypeOK'
    BY <1>a, <1>b DEF TypeOK, Stages
<1>2. HistoryMirrorsStatus' /\ EveryChangeWasOnceLegal' /\ PlacedFirst'
    BY <1>b DEF IInv, HistoryMirrorsStatus, LastStatus, EveryChangeWasOnceLegal,
                LegalAfter, HasAccess, PlacedFirst
<1>3. PendingWasLegal'
  <2>1. \A h \in Handlers : stage'[h] # "idle" => stage[h] # "idle" /\ tx'[h] = tx[h]
      BY <1>a, <1>b DEF TypeOK
  <2> QED BY <2>1, <1>b DEF IInv, PendingWasLegal, HasAccess
<1> QED BY <1>1, <1>2, <1>3 DEF IInv

(* A commit appends one entry, legal after the status its request read. *)
LEMMA CommitIInv == ASSUME IInv, NEW g \in Handlers, Commit(g) PROVE IInv'
<1> DEFINE p == tx[g].order
           new == [status |-> tx[g].to, by |-> tx[g].by]
           n == Len(history[p])
<1>a. TypeOK /\ stage[g] = "written" /\ tx[g] \in Tx /\ p \in Orders
    BY DEF IInv, Commit, TypeOK, Tx
<1>b. /\ status' = [status EXCEPT ![p] = tx[g].to]
      /\ history' = [history EXCEPT ![p] = Append(history[p], new)]
      /\ stage' = [stage EXCEPT ![g] = "idle"]
      /\ tx' = [tx EXCEPT ![g] = NoTx]
    BY <1>a DEF Commit, TypeOK
<1>c. new \in Entry /\ tx[g].to \in Statuses
    BY <1>a DEF Tx, Entry, Requestable
<1>d. /\ history[p] \in Seq(Entry) /\ n \in Nat
      /\ Append(history[p], new) \in Seq(Entry)
      /\ Len(Append(history[p], new)) = n + 1
      /\ \A i \in 1..n : Append(history[p], new)[i] = history[p][i]
      /\ Append(history[p], new)[n + 1] = new
    BY <1>a, <1>c DEF TypeOK
<1>e. /\ history'[p] = Append(history[p], new)
      /\ status'[p] = tx[g].to /\ new.status = tx[g].to /\ new.by = tx[g].by
      /\ \A o \in Orders : o # p => history'[o] = history[o] /\ status'[o] = status[o]
    BY <1>a, <1>b DEF TypeOK
<1>f. PICK k \in 1..n : history[p][k].status = tx[g].seen
    BY <1>a DEF IInv, PendingWasLegal
<1>g. MayChange(tx[g].seen, tx[g].to, tx[g].by.role) /\ HasAccess(tx[g].by, p)
    BY <1>a DEF IInv, PendingWasLegal
<1>h. \A o \in Orders : Len(history[o]) <= Len(history'[o])
                        /\ \A i \in 1..Len(history[o]) : history'[o][i] = history[o][i]
  <2> TAKE o \in Orders
  <2>1. CASE o = p
      BY <2>1, <1>d, <1>e
  <2>2. CASE o # p
    <3>1. Len(history[o]) \in Nat
        BY <1>a DEF TypeOK
    <3> QED BY <2>2, <3>1, <1>e
  <2> QED BY <2>1, <2>2
<1> HIDE DEF p, new, n
<1>1. TypeOK'
    BY <1>a, <1>b, <1>c, <1>d DEF TypeOK, Stages
<1>2. HistoryMirrorsStatus'
  <2>1. history'[p] # <<>> /\ history'[p][Len(history'[p])] = new
      BY <1>d, <1>e
  <2> QED BY <2>1, <1>e DEF IInv, HistoryMirrorsStatus, LastStatus
<1>3. EveryChangeWasOnceLegal'
  <2> SUFFICES ASSUME NEW o \in Orders, NEW i \in 2..Len(history'[o])
               PROVE  \E j \in 1..(i - 1) : LegalAfter(o, i, j)'
      BY DEF EveryChangeWasOnceLegal
  <2>1. CASE i \in 2..Len(history[o])
    <3>1. PICK j \in 1..(i - 1) : LegalAfter(o, i, j)
        BY <2>1 DEF IInv, EveryChangeWasOnceLegal
    <3>2. history'[o][i] = history[o][i] /\ history'[o][j] = history[o][j]
      <4>1. Len(history[o]) \in Nat
          BY <1>a DEF TypeOK
      <4> QED BY <4>1, <1>h, <2>1
    <3> QED BY <3>1, <3>2 DEF LegalAfter, HasAccess
  <2>2. CASE i \notin 2..Len(history[o])
    <3>1. o = p /\ i = n + 1
      <4>1. o = p
        <5>1. o # p => history'[o] = history[o]
            BY <1>e
        <5> QED BY <5>1, <2>2
      <4>2. Len(history'[o]) = n + 1 /\ Len(history[o]) = n
          BY <4>1, <1>d, <1>e DEF n
      <4> QED BY <4>1, <4>2, <2>2, <1>d
    <3>2. history'[p][n + 1] = new /\ history'[p][k] = history[p][k]
        BY <1>d, <1>e
    <3>3. k \in 1..(i - 1)
        BY <3>1, <1>d
    <3>4. /\ MayChange(history'[o][k].status, history'[o][i].status,
                       history'[o][i].by.role)
          /\ HasAccess(history'[o][i].by, o)
        BY <3>1, <3>2, <1>e, <1>f, <1>g
    <3> QED BY <3>3, <3>4 DEF LegalAfter, HasAccess
  <2> QED BY <2>1, <2>2
<1>4. PlacedFirst'
  <2> SUFFICES ASSUME NEW o \in Orders, history'[o] # <<>>
               PROVE  history'[o][1].status = "PLACED"
      BY DEF PlacedFirst
  <2>1. CASE o # p
      BY <2>1, <1>e DEF IInv, PlacedFirst
  <2>2. CASE o = p
    <3>1. history[p] # <<>> /\ 1 \in 1..n
        BY <1>d, <1>f DEF n
    <3>2. history'[p][1] = history[p][1]
        BY <3>1, <1>d, <1>e
    <3> QED BY <2>2, <3>1, <3>2, <1>a DEF IInv, PlacedFirst
  <2> QED BY <2>1, <2>2
<1>5. PendingWasLegal'
  <2> SUFFICES ASSUME NEW h \in Handlers, stage'[h] # "idle"
               PROVE  /\ \E j \in 1..Len(history'[tx'[h].order]) :
                           history'[tx'[h].order][j].status = tx'[h].seen
                      /\ MayChange(tx'[h].seen, tx'[h].to, tx'[h].by.role)
                      /\ HasAccess(tx'[h].by, tx'[h].order)
      BY DEF PendingWasLegal, HasAccess
  <2>1. h # g /\ stage[h] # "idle" /\ tx'[h] = tx[h]
      BY <1>a, <1>b DEF TypeOK
  <2>2. tx[h].order \in Orders
      BY <1>a, <2>1 DEF TypeOK, Tx
  <2>3. PICK j \in 1..Len(history[tx[h].order]) :
               history[tx[h].order][j].status = tx[h].seen
      BY <2>1 DEF IInv, PendingWasLegal
  <2>4. /\ Len(history[tx[h].order]) \in Nat /\ Len(history'[tx[h].order]) \in Nat
        /\ history'[tx[h].order][j] = history[tx[h].order][j]
      BY <2>2, <1>1, <1>a, <1>h DEF TypeOK
  <2>5. j \in 1..Len(history'[tx[h].order])
      BY <2>2, <2>4, <1>h
  <2> QED BY <2>1, <2>3, <2>4, <2>5 DEF IInv, PendingWasLegal
<1> QED BY <1>1, <1>2, <1>3, <1>4, <1>5 DEF IInv

(* Every step of the service preserves the inductive invariant. *)
LEMMA NextIInv == IInv /\ [Next]_vars => IInv'
<1> SUFFICES ASSUME IInv, [Next]_vars PROVE IInv'
    OBVIOUS
<1>1. ASSUME NEW o \in Orders, PlaceOrder(o) PROVE IInv'
    BY <1>1, PlaceOrderIInv
<1>2. ASSUME NEW h \in Handlers, NEW o \in Orders, NEW to \in Requestable,
             NEW a \in Actors, Validate(h, o, to, a)
      PROVE  IInv'
    BY <1>2, ValidateIInv
<1>3. ASSUME NEW h \in Handlers, Finish(h) PROVE IInv'
    BY <1>3, WriteIInv, CommitIInv, AbortIInv DEF Finish
<1>4. CASE UNCHANGED vars
    BY <1>4 DEF vars, IInv, TypeOK, HistoryMirrorsStatus, LastStatus,
                EveryChangeWasOnceLegal, LegalAfter, HasAccess, PlacedFirst,
                PendingWasLegal
<1> QED BY <1>1, <1>2, <1>3, <1>4 DEF Next

(* The inductive invariant holds in every reachable state. *)
THEOREM Invariance == Spec => []IInv
<1> QED BY InitIInv, NextIInv, PTL DEF Spec

(* Rows and requests keep their shape, for any number of either. *)
THEOREM TypeCorrect == Spec => []TypeOK
<1>1. IInv => TypeOK
    BY DEF IInv
<1> QED BY <1>1, Invariance, PTL

(* The orders row and its history never drift apart. *)
THEOREM StatusIsLogged == Spec => []HistoryMirrorsStatus
<1>1. IInv => HistoryMirrorsStatus
    BY DEF IInv
<1> QED BY <1>1, Invariance, PTL

(* However many requests race, every recorded change was legal for its     *)
(* author from a status the order had had.                                 *)
THEOREM ChangesWereLegal == Spec => []EveryChangeWasOnceLegal
<1>1. IInv => EveryChangeWasOnceLegal
    BY DEF IInv
<1> QED BY <1>1, Invariance, PTL

(* Which statuses the table lets an order come from. *)
LEMMA Predecessors ==
  ASSUME NEW s, NEW t, NEW r, MayChange(s, t, r)
  PROVE  /\ t # "PLACED"
         /\ t = "PROCESSING" => s = "PLACED"
         /\ t = "CANCELED" => s \in {"PLACED", "PROCESSING"}
         /\ t = "IN_ROUTE" => s = "PROCESSING"
         /\ t = "DELIVERED" => s = "IN_ROUTE"
         /\ t = "RECEIVED" => s = "DELIVERED"
<1> QED BY DEF MayChange, VALID_TRANSITIONS, Transition

(* However many requests race, no order skips a stage of its delivery. *)
THEOREM StagesInOrder == Spec => []NoStageIsSkipped
<1>1. IInv => NoStageIsSkipped
  <2> SUFFICES ASSUME IInv, NEW o \in Orders, NEW i \in 1..Len(history[o])
               PROVE  LET s == history[o][i].status IN
                        /\ s \in {"PROCESSING", "CANCELED"} => HadBefore(o, i, "PLACED")
                        /\ s = "IN_ROUTE"  => HadBefore(o, i, "PROCESSING")
                        /\ s = "DELIVERED" => HadBefore(o, i, "IN_ROUTE")
                        /\ s = "RECEIVED"  => HadBefore(o, i, "DELIVERED")
      BY DEF NoStageIsSkipped
  <2>1. Len(history[o]) \in Nat /\ history[o][1].status = "PLACED"
      BY DEF IInv, TypeOK, PlacedFirst
  <2>2. CASE i = 1
      BY <2>1, <2>2
  <2>3. CASE i # 1
    <3>1. i \in 2..Len(history[o])
        BY <2>1, <2>3
    <3>2. PICK j \in 1..(i - 1) :
                 MayChange(history[o][j].status, history[o][i].status,
                           history[o][i].by.role)
        BY <3>1 DEF IInv, EveryChangeWasOnceLegal, LegalAfter
    <3>3. 1 \in 1..(i - 1)
        BY <3>1
    <3> QED BY <2>1, <3>2, <3>3, Predecessors DEF HadBefore
  <2> QED BY <2>2, <2>3
<1> QED BY <1>1, Invariance, PTL

(* A canceled or received order that no transaction is working on is left  *)
(* alone by every step: Validate finds no transition out of its status.    *)
THEOREM ReopeningTakesARace == Spec => OnlyARaceReopens
<1>1. IInv /\ [Next]_vars =>
        [\A o \in Orders : Settled(o) => Settled(o)' /\ status'[o] = status[o]]_vars
  <2> SUFFICES ASSUME IInv, Next, NEW o \in Orders, Settled(o)
               PROVE  /\ status'[o] = status[o]
                      /\ \A h \in Handlers : stage'[h] # "idle" => tx'[h].order # o
      BY DEF vars, Settled, InFlight
  <2>1. /\ TypeOK
        /\ status[o] \in Terminal /\ status[o] # Unplaced
        /\ \A h \in Handlers : stage[h] # "idle" => tx[h].order # o
      BY UnplacedAssumption DEF IInv, Settled, InFlight, Terminal
  <2>2. ASSUME NEW p \in Orders, PlaceOrder(p)
        PROVE  /\ status'[o] = status[o]
               /\ \A h \in Handlers : stage'[h] # "idle" => tx'[h].order # o
      BY <2>1, <2>2 DEF PlaceOrder, TypeOK
  <2>3. ASSUME NEW g \in Handlers, NEW p \in Orders, NEW to \in Requestable,
               NEW a \in Actors, Validate(g, p, to, a)
        PROVE  /\ status'[o] = status[o]
               /\ \A h \in Handlers : stage'[h] # "idle" => tx'[h].order # o
    <3>1. p # o
        BY <2>1, <2>3 DEF Validate, MayChange, Terminal
    <3> QED BY <3>1, <2>1, <2>3 DEF Validate, TypeOK
  <2>4. ASSUME NEW g \in Handlers, Finish(g)
        PROVE  /\ status'[o] = status[o]
               /\ \A h \in Handlers : stage'[h] # "idle" => tx'[h].order # o
    <3>1. stage[g] # "idle" /\ tx[g].order # o
        BY <2>1, <2>4 DEF Finish, Write, Commit, Abort
    <3> QED BY <3>1, <2>1, <2>4 DEF Finish, Write, Commit, Abort, TypeOK
  <2> QED BY <2>2, <2>3, <2>4 DEF Next
<1> QED BY <1>1, Invariance, PTL DEF Spec, OnlyARaceReopens

(* With at most one request at a time the service implements the lifecycle *)
(* it promises: every step is a step of it or changes no status.           *)
THEOREM SerialRefinement ==
  ASSUME \A g, h \in Handlers : g = h
  PROVE  Spec => ImplementsLifecycle
<1> DEFINE Fresh == \A h \in Handlers : stage[h] # "idle" =>
                      tx[h].seen = status[tx[h].order]
<1>1. Init => Lifecycle!Init
    BY DEF Init, Lifecycle!Init
<1>2. Init => Fresh
    BY DEF Init
<1>3. IInv /\ Fresh /\ [Next]_vars => Fresh'
  <2> SUFFICES ASSUME IInv, Fresh, [Next]_vars,
                      NEW h \in Handlers, stage'[h] # "idle"
               PROVE  tx'[h].seen = status'[tx'[h].order]
      OBVIOUS
  <2>0. TypeOK
      BY DEF IInv
  <2>1. ASSUME NEW o \in Orders, PlaceOrder(o)
        PROVE  tx'[h].seen = status'[tx'[h].order]
    <3>1. stage[h] # "idle" /\ tx'[h] = tx[h] /\ tx[h] \in Tx
        BY <2>0, <2>1 DEF PlaceOrder, TypeOK
    <3>2. tx[h].seen = status[tx[h].order] /\ tx[h].seen \in Statuses
        BY <3>1 DEF Tx
    <3>3. tx[h].order # o
        BY <3>2, <2>1, UnplacedAssumption DEF PlaceOrder
    <3> QED BY <3>1, <3>2, <3>3, <2>0, <2>1 DEF PlaceOrder, TypeOK, Tx
  <2>2. ASSUME NEW g \in Handlers, NEW o \in Orders, NEW to \in Requestable,
               NEW a \in Actors, Validate(g, o, to, a)
        PROVE  tx'[h].seen = status'[tx'[h].order]
    <3>1. h = g
        OBVIOUS
    <3> QED BY <3>1, <2>0, <2>2 DEF Validate, TypeOK
  <2>3. ASSUME NEW g \in Handlers, Finish(g)
        PROVE  tx'[h].seen = status'[tx'[h].order]
    <3>1. h = g
        OBVIOUS
    <3> QED BY <3>1, <2>0, <2>3 DEF Finish, Write, Commit, Abort, TypeOK
  <2>4. CASE UNCHANGED vars
      BY <2>4 DEF vars
  <2> QED BY <2>1, <2>2, <2>3, <2>4 DEF Next
<1>4. IInv /\ Fresh /\ [Next]_vars => [Lifecycle!Next]_status
  <2> SUFFICES ASSUME IInv, Fresh, [Next]_vars
               PROVE  Lifecycle!Next \/ UNCHANGED status
      OBVIOUS
  <2>1. ASSUME NEW o \in Orders, PlaceOrder(o) PROVE Lifecycle!Next
      BY <2>1 DEF PlaceOrder, Lifecycle!Next, Lifecycle!Place
  <2>2. ASSUME NEW g \in Handlers, Finish(g)
        PROVE  Lifecycle!Next \/ UNCHANGED status
    <3>1. CASE Commit(g)
      <4>1. tx[g] \in Tx /\ stage[g] # "idle" /\ tx[g].by.role \in Roles
          BY <3>1, ActorsAssumption DEF Commit, IInv, TypeOK, Tx
      <4>2. /\ tx[g].order \in Orders /\ tx[g].to \in Requestable
            /\ status[tx[g].order] \in Statuses
            /\ MayChange(status[tx[g].order], tx[g].to, tx[g].by.role)
          BY <4>1 DEF IInv, PendingWasLegal, Tx
      <4>3. status' = [status EXCEPT ![tx[g].order] = tx[g].to]
          BY <3>1 DEF Commit
      <4>4. Lifecycle!Change(tx[g].order)
        <5>1. /\ Lifecycle!Statuses = Statuses /\ Lifecycle!Roles = Roles
              /\ Lifecycle!Requestable = Requestable
            BY DEF Lifecycle!Statuses, Statuses, Lifecycle!Roles, Roles,
                   Lifecycle!Requestable, Requestable
        <5>2. Lifecycle!MayChange(status[tx[g].order], tx[g].to, tx[g].by.role)
            BY <4>2 DEF MayChange, VALID_TRANSITIONS, Transition,
                    Lifecycle!MayChange, Lifecycle!VALID_TRANSITIONS,
                    Lifecycle!Transition
        <5> QED BY <4>1, <4>2, <4>3, <5>1, <5>2 DEF Lifecycle!Change
      <4> QED BY <4>2, <4>4 DEF Lifecycle!Next
    <3> QED BY <2>2, <3>1 DEF Finish, Write, Abort
  <2> QED BY <2>1, <2>2 DEF Next, Validate, vars
<1> QED BY <1>1, <1>2, <1>3, <1>4, Invariance, PTL
        DEF Spec, ImplementsLifecycle, Lifecycle!Spec
=============================================================================
