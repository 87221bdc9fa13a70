----------------------- MODULE CouponRedemption_proofs -----------------------
(***************************************************************************)
(* Theorems of CouponRedemption, for any number of coupons, customers,     *)
(* orders and concurrent checkouts, and any limits.                        *)
(***************************************************************************)
EXTENDS CouponRedemption, FiniteSetTheorems, TLAPS

AtMost(l, m) == m = Unlimited \/ (l # Unlimited /\ m # Unlimited /\ l <= m)

(* No limit in force is above the highest one recorded. *)
Ceilings ==
  \A c \in Live : /\ AtMost(coupons[c].limits.total, ceiling[c].total)
                  /\ AtMost(coupons[c].limits.per, ceiling[c].per)

(* The usage rows and the orders, seen from either side. *)
Ledger ==
  /\ \A u \in usages : orders[u.order] = [customer |-> u.customer, coupon |-> u.coupon]
  /\ \A o \in Redeeming :
       [order |-> o, customer |-> orders[o].customer, coupon |-> orders[o].coupon] \in usages
  /\ \A u \in usages : u.coupon \in Live

(* What a checkout in flight may rely on. *)
InFlightFacts ==
  /\ \A h \in Handlers : stage[h] # "idle" =>
       /\ orders[tx[h].order] = NoOrder
       /\ coupons[tx[h].coupon].row # "absent"
       /\ AtMost(tx[h].per, ceiling[tx[h].coupon].per)
  /\ \A g, h \in Handlers :
       g # h /\ stage[g] # "idle" /\ stage[h] # "idle" => tx[g].order # tx[h].order

(* One checkout at a time holds a coupon's row, and nobody else moves the  *)
(* counter meanwhile.                                                      *)
CounterLock ==
  /\ \A h \in Handlers : stage[h] = "incremented" =>
       tx[h].newUsed = coupons[tx[h].coupon].used + 1
  /\ \A g, h \in Handlers :
       stage[g] = "incremented" /\ stage[h] = "incremented" /\ tx[g].coupon = tx[h].coupon
       => g = h

Bounds == TotalOvershootBounded /\ PerCustomerOvershootBounded

Rows == CounterExact /\ Ledger /\ Ceilings

IInv ==
  /\ TypeOK
  /\ IsFiniteSet(usages)
  /\ Rows
  /\ CouponOutlivesCheckout
  /\ InFlightFacts
  /\ CounterLock
  /\ Bounds

(* Any set of handlers is finite and no larger than Width. *)
LEMMA SomeHandlers ==
  ASSUME NEW S \in SUBSET Handlers
  PROVE  /\ IsFiniteSet(S) /\ Cardinality(S) \in Nat
         /\ Width \in Nat /\ Cardinality(S) <= Width
<1> QED BY HandlersAssumption, FS_Subset, FS_CardinalityType DEF Width

(* Any set of usages is finite. *)
LEMMA SomeUsages ==
  ASSUME IsFiniteSet(usages), NEW S \in SUBSET usages
  PROVE  IsFiniteSet(S) /\ Cardinality(S) \in Nat
<1> QED BY FS_Subset, FS_CardinalityType

(* There are at least as many handlers as there are in one stage. *)
LEMMA WidthIsPositive == ASSUME NEW h \in Handlers PROVE Width \in Nat \ {0}
<1>1. Cardinality(Handlers) # 0
    BY HandlersAssumption, FS_EmptySet
<1> QED BY <1>1, HandlersAssumption, FS_CardinalityType DEF Width

(* The initial state satisfies the inductive invariant. *)
LEMMA InitIInv == Init => IInv
<1> SUFFICES ASSUME Init PROVE IInv
    OBVIOUS
<1>1. TypeOK
    BY DEF Init, TypeOK, CouponRow, Absent, LimitPair, AnyLimit, Stages
<1>2. Live = {} /\ usages = {} /\ Redeeming = {}
    BY DEF Init, Live, Absent, Redeeming
<1>3. Rows /\ IsFiniteSet(usages) /\ Bounds
    BY <1>2, FS_EmptySet DEF Rows, CounterExact, Ledger, Ceilings, Bounds,
       TotalOvershootBounded, PerCustomerOvershootBounded
<1>4. InFlightFacts /\ CounterLock /\ CouponOutlivesCheckout
    BY DEF Init, InFlightFacts, CounterLock, CouponOutlivesCheckout, InStage
<1> QED BY <1>1, <1>3, <1>4 DEF IInv

(* Rows nobody touched still satisfy what is said of them. *)
LEMMA SameRows ==
  ASSUME Rows, IsFiniteSet(usages), UNCHANGED <<coupons, orders, usages, ceiling>>
  PROVE  Rows' /\ IsFiniteSet(usages)'
<1> QED BY DEF Rows, CounterExact, Redemptions, Ledger, Redeeming, Ceilings, Live

(* When fewer checkouts are past their checks and no redemption was added, *)
(* no bound is exceeded.                                                   *)
LEMMA FewerPending ==
  ASSUME IInv, UNCHANGED <<coupons, usages, ceiling>>,
         \A c \in Coupons : InStage(Checked, c)' \subseteq InStage(Checked, c),
         \A c \in Coupons, k \in Customers :
           CustomerCleared(c, k)' \subseteq CustomerCleared(c, k)
  PROVE  Bounds'
<1>1. ASSUME NEW c \in Live', ceiling'[c].total # Unlimited
      PROVE  coupons'[c].used + Cardinality(InStage(Checked, c)')
               < ceiling'[c].total + Width
  <2>1. c \in Coupons /\ c \in Live /\ ceiling[c].total # Unlimited
      BY <1>1 DEF Live
  <2>2. coupons[c].used + Cardinality(InStage(Checked, c)) < ceiling[c].total + Width
      BY <2>1 DEF IInv, Bounds, TotalOvershootBounded
  <2>3. /\ InStage(Checked, c) \subseteq Handlers
        /\ InStage(Checked, c)' \subseteq InStage(Checked, c)
      BY <2>1 DEF InStage
  <2>4. /\ Cardinality(InStage(Checked, c)') <= Cardinality(InStage(Checked, c))
        /\ Cardinality(InStage(Checked, c)') \in Nat
        /\ Cardinality(InStage(Checked, c)) \in Nat
        /\ Width \in Nat
      BY <2>3, SomeHandlers, FS_Subset
  <2>5. coupons[c].used \in Nat /\ ceiling[c].total \in Nat
      BY <2>1, LimitsAssumption DEF IInv, TypeOK, CouponRow, LimitPair, AnyLimit
  <2> QED BY <2>2, <2>4, <2>5
<1>2. ASSUME NEW c \in Live', NEW k \in Customers, ceiling'[c].per # Unlimited
      PROVE  Cardinality(RedemptionsBy(c, k)') + Cardinality(CustomerCleared(c, k)')
               < ceiling'[c].per + Width
  <2>1. c \in Coupons /\ c \in Live /\ ceiling[c].per # Unlimited
      BY <1>2 DEF Live
  <2>2. Cardinality(RedemptionsBy(c, k)) + Cardinality(CustomerCleared(c, k))
          < ceiling[c].per + Width
      BY <1>2, <2>1 DEF IInv, Bounds, PerCustomerOvershootBounded
  <2>3. /\ CustomerCleared(c, k) \subseteq Handlers
        /\ CustomerCleared(c, k)' \subseteq CustomerCleared(c, k)
      BY <2>1 DEF InStage, CustomerCleared
  <2>4. /\ Cardinality(CustomerCleared(c, k)') <= Cardinality(CustomerCleared(c, k))
        /\ Cardinality(CustomerCleared(c, k)') \in Nat
        /\ Cardinality(CustomerCleared(c, k)) \in Nat
        /\ Width \in Nat
      BY <2>3, SomeHandlers, FS_Subset
  <2>5. Cardinality(RedemptionsBy(c, k)) \in Nat /\ ceiling[c].per \in Nat
    <3>1. RedemptionsBy(c, k) \subseteq usages
        BY DEF RedemptionsBy
    <3>2. Cardinality(RedemptionsBy(c, k)) \in Nat
        BY <3>1, SomeUsages DEF IInv
    <3> QED BY <3>2, <2>1, LimitsAssumption DEF IInv, TypeOK, LimitPair, AnyLimit
  <2>6. RedemptionsBy(c, k)' = RedemptionsBy(c, k)
      BY DEF RedemptionsBy
  <2> QED BY <2>2, <2>4, <2>5, <2>6
<1> QED BY <1>1, <1>2 DEF Bounds, TotalOvershootBounded, PerCustomerOvershootBounded

(* A checkout that passes the total limit: the counter it read is below    *)
(* the limit, and no more than Width checkouts run.                        *)
LEMMA ReadCouponIInv ==
  ASSUME IInv, NEW h \in Handlers, NEW o \in Orders, NEW k \in Customers,
         NEW c \in Coupons, ReadCoupon(h, o, k, c)
  PROVE  IInv'
<1> DEFINE new == [order |-> o, customer |-> k, coupon |-> c,
                   per |-> coupons[c].limits.per, newUsed |-> 0]
<1>a. /\ stage' = [stage EXCEPT ![h] = "read"] /\ tx' = [tx EXCEPT ![h] = new]
      /\ UNCHANGED <<coupons, orders, usages, ceiling>>
      /\ stage[h] = "idle" /\ c \in Live /\ TypeOK
    BY DEF ReadCoupon, IInv, Live
<1>b. new \in Tx
    BY <1>a DEF TypeOK, Tx, CouponRow, LimitPair
<1>c. /\ stage'[h] = "read" /\ tx'[h] = new
      /\ \A g \in Handlers : g # h => stage'[g] = stage[g] /\ tx'[g] = tx[g]
    BY <1>a DEF TypeOK
<1>d. new.order = o /\ new.coupon = c /\ new.per = coupons[c].limits.per
    OBVIOUS
<1> HIDE DEF new
<1>1. TypeOK'
    BY <1>a, <1>b DEF TypeOK, Stages
<1>2. Rows' /\ IsFiniteSet(usages)'
    BY <1>a, SameRows DEF IInv
<1>3. CouponOutlivesCheckout'
    BY <1>a, <1>c DEF IInv, CouponOutlivesCheckout, InStage, Live
<1>4. InFlightFacts'
  <2>1. AtMost(coupons[c].limits.per, ceiling[c].per) /\ coupons[c].row # "absent"
      BY <1>a DEF IInv, Rows, Ceilings, Live
  <2>2. orders[o] = NoOrder /\ \A g \in Handlers : stage[g] # "idle" => tx[g].order # o
      BY DEF ReadCoupon
  <2> QED BY <1>a, <1>c, <1>d, <2>1, <2>2 DEF IInv, InFlightFacts
<1>5. CounterLock'
    BY <1>a, <1>c DEF IInv, CounterLock
<1>6. TotalOvershootBounded'
  <2> SUFFICES ASSUME NEW d \in Live', ceiling'[d].total # Unlimited
               PROVE  coupons'[d].used + Cardinality(InStage(Checked, d)')
                        < ceiling'[d].total + Width
      BY DEF TotalOvershootBounded, Width
  <2>1. d \in Coupons /\ d \in Live /\ ceiling[d].total # Unlimited
      BY <1>a DEF Live
  <2>2. CASE d # c
    <3>1. InStage(Checked, d)' = InStage(Checked, d)
        BY <2>2, <1>a, <1>c, <1>d DEF InStage, Checked
    <3> QED BY <3>1, <2>1, <1>a DEF IInv, Bounds, TotalOvershootBounded
  <2>3. CASE d = c
    <3>1. AtMost(coupons[c].limits.total, ceiling[c].total)
        BY <2>1, <2>3 DEF IInv, Rows, Ceilings
    <3>2. coupons[c].used < ceiling[c].total
      <4>1. coupons[c].limits.total \in Nat /\ coupons[c].used \in Nat
            /\ ceiling[c].total \in Nat
          BY <3>1, <2>1, <2>3, <1>a, LimitsAssumption
          DEF AtMost, TypeOK, CouponRow, LimitPair, AnyLimit
      <4> QED BY <4>1, <3>1, <2>1, <2>3 DEF AtMost, ReadCoupon, Reached
    <3>3. InStage(Checked, c)' \in SUBSET Handlers
        BY DEF InStage
    <3>4. coupons[c].used \in Nat /\ ceiling[c].total \in Nat
        BY <2>1, <2>3, <1>a, LimitsAssumption
        DEF TypeOK, CouponRow, LimitPair, AnyLimit
    <3>5. Cardinality(InStage(Checked, c)') \in Nat /\ Width \in Nat
          /\ Cardinality(InStage(Checked, c)') <= Width
        BY <3>3, SomeHandlers
    <3> QED BY <2>3, <3>2, <3>4, <3>5, <1>a
  <2> QED BY <2>2, <2>3
<1>7. PerCustomerOvershootBounded'
  <2> SUFFICES ASSUME NEW d \in Live', NEW m \in Customers, ceiling'[d].per # Unlimited
               PROVE  Cardinality(RedemptionsBy(d, m)') + Cardinality(CustomerCleared(d, m)')
                        < ceiling'[d].per + Width
      BY DEF PerCustomerOvershootBounded, Width
  <2>1. d \in Live /\ ceiling[d].per # Unlimited
      BY <1>a DEF Live
  <2>2. CustomerCleared(d, m)' = CustomerCleared(d, m)
      BY <1>a, <1>c DEF CustomerCleared, InStage, Cleared, Checked
  <2>3. RedemptionsBy(d, m)' = RedemptionsBy(d, m)
      BY <1>a DEF RedemptionsBy
  <2> QED BY <2>1, <2>2, <2>3, <1>a DEF IInv, Bounds, PerCustomerOvershootBounded
<1> QED BY <1>1, <1>2, <1>3, <1>4, <1>5, <1>6, <1>7 DEF IInv, Bounds

(* The same argument for the customer's redemptions. *)
LEMMA CountUsagesIInv ==
  ASSUME IInv, NEW h \in Handlers, CountUsages(h) PROVE IInv'
<1> DEFINE c == tx[h].coupon
           k == tx[h].customer
<1>a. /\ stage' = [stage EXCEPT ![h] = "cleared"] /\ tx' = tx
      /\ UNCHANGED <<coupons, orders, usages, ceiling>>
      /\ stage[h] = "read" /\ TypeOK /\ tx[h] \in Tx
    BY DEF CountUsages, IInv, TypeOK
<1>c. /\ stage'[h] = "cleared"
      /\ \A g \in Handlers : g # h => stage'[g] = stage[g]
    BY <1>a DEF TypeOK
<1>1. TypeOK'
    BY <1>a DEF TypeOK, Stages
<1>2. Rows' /\ IsFiniteSet(usages)'
    BY <1>a, SameRows DEF IInv
<1>3. CouponOutlivesCheckout'
    BY <1>a, <1>c DEF IInv, CouponOutlivesCheckout, InStage, Live
<1>4. InFlightFacts' /\ CounterLock'
    BY <1>a, <1>c DEF IInv, InFlightFacts, CounterLock
<1>5. TotalOvershootBounded'
  <2> SUFFICES ASSUME NEW d \in Live', ceiling'[d].total # Unlimited
               PROVE  coupons'[d].used + Cardinality(InStage(Checked, d)')
                        < ceiling'[d].total + Width
      BY DEF TotalOvershootBounded, Width
  <2>1. d \in Live /\ ceiling[d].total # Unlimited
      BY <1>a DEF Live
  <2>2. InStage(Checked, d)' = InStage(Checked, d)
      BY <1>a, <1>c DEF InStage, Checked
  <2> QED BY <2>1, <2>2, <1>a DEF IInv, Bounds, TotalOvershootBounded
<1>6. PerCustomerOvershootBounded'
  <2> SUFFICES ASSUME NEW d \in Live', NEW m \in Customers, ceiling'[d].per # Unlimited
               PROVE  Cardinality(RedemptionsBy(d, m)') + Cardinality(CustomerCleared(d, m)')
                        < ceiling'[d].per + Width
      BY DEF PerCustomerOvershootBounded, Width
  <2>1. d \in Coupons /\ d \in Live /\ ceiling[d].per # Unlimited
      BY <1>a DEF Live
  <2>2. RedemptionsBy(d, m)' = RedemptionsBy(d, m)
      BY <1>a DEF RedemptionsBy
  <2>3. CASE d # c \/ m # k
    <3>1. CustomerCleared(d, m)' = CustomerCleared(d, m)
        BY <2>3, <1>a, <1>c DEF CustomerCleared, InStage
    <3> QED BY <3>1, <2>1, <2>2, <1>a DEF IInv, Bounds, PerCustomerOvershootBounded
  <2>4. CASE d = c /\ m = k
    <3>1. AtMost(tx[h].per, ceiling[c].per)
        BY <1>a DEF IInv, InFlightFacts
    <3>2. /\ tx[h].per \in Nat /\ tx[h].per # Unlimited
          /\ ceiling[c].per \in Nat
          /\ tx[h].per <= ceiling[c].per
      <4>1. tx[h].per # Unlimited /\ tx[h].per <= ceiling[c].per
          BY <3>1, <2>1, <2>4 DEF AtMost
      <4>2. tx[h].per \in AnyLimit /\ ceiling[c].per \in AnyLimit
          BY <2>1, <2>4, <1>a DEF TypeOK, Tx, LimitPair
      <4> QED BY <4>1, <4>2, <2>1, <2>4, LimitsAssumption DEF AnyLimit
    <3>3. RedemptionsBy(c, k) \in SUBSET usages
        BY DEF RedemptionsBy
    <3>4. Cardinality(RedemptionsBy(c, k)) \in Nat
        BY <3>3, SomeUsages DEF IInv
    <3>5. Cardinality(RedemptionsBy(c, k)) < tx[h].per
        BY <3>2, <3>4 DEF CountUsages, Reached
    <3>6. CustomerCleared(c, k)' \in SUBSET Handlers
        BY DEF CustomerCleared, InStage
    <3>7. /\ CustomerCleared(d, m)' \in SUBSET Handlers
        BY DEF CustomerCleared, InStage
    <3>8. Cardinality(CustomerCleared(d, m)') \in Nat /\ Width \in Nat
          /\ Cardinality(CustomerCleared(d, m)') <= Width
        BY <3>7, SomeHandlers
    <3> HIDE DEF c, k
    <3> QED BY <2>4, <2>2, <3>2, <3>4, <3>5, <3>8, <1>a
  <2> QED BY <2>3, <2>4
<1> QED BY <1>1, <1>2, <1>3, <1>4, <1>5, <1>6 DEF IInv, Bounds

(* The foreign keys find the coupon in place. *)
LEMMA InsertRowsIInv ==
  ASSUME IInv, NEW h \in Handlers, InsertRows(h) PROVE IInv'
<1>a. /\ stage' = [stage EXCEPT ![h] = "inserted"] /\ tx' = tx
      /\ UNCHANGED <<coupons, orders, usages, ceiling>>
      /\ stage[h] = "cleared" /\ TypeOK /\ tx[h] \in Tx
      /\ coupons[tx[h].coupon].row = "live"
    BY DEF InsertRows, IInv, TypeOK
<1>c. /\ stage'[h] = "inserted"
      /\ \A g \in Handlers : g # h => stage'[g] = stage[g]
    BY <1>a DEF TypeOK
<1>1. TypeOK'
    BY <1>a DEF TypeOK, Stages
<1>2. Rows' /\ IsFiniteSet(usages)'
    BY <1>a, SameRows DEF IInv
<1>3. CouponOutlivesCheckout'
    BY <1>a, <1>c DEF IInv, CouponOutlivesCheckout, InStage, Live
<1>4. InFlightFacts' /\ CounterLock'
    BY <1>a, <1>c DEF IInv, InFlightFacts, CounterLock
<1>5. Bounds'
  <2>1. \A c \in Coupons : InStage(Checked, c)' \subseteq InStage(Checked, c)
      BY <1>a, <1>c DEF InStage, Checked
  <2>2. \A c \in Coupons, k \in Customers :
          CustomerCleared(c, k)' \subseteq CustomerCleared(c, k)
      BY <1>a, <1>c DEF CustomerCleared, InStage, Cleared, Checked
  <2> QED BY <1>a, <2>1, <2>2, FewerPending
<1> QED BY <1>1, <1>2, <1>3, <1>4, <1>5 DEF IInv

(* The increment reads the counter under the row lock. *)
LEMMA IncrementCounterIInv ==
  ASSUME IInv, NEW h \in Handlers, IncrementCounter(h) PROVE IInv'
<1> DEFINE n == coupons[tx[h].coupon].used + 1
<1>a. /\ stage' = [stage EXCEPT ![h] = "incremented"]
      /\ tx' = [tx EXCEPT ![h].newUsed = n]
      /\ UNCHANGED <<coupons, orders, usages, ceiling>>
      /\ stage[h] = "inserted" /\ TypeOK /\ tx[h] \in Tx
      /\ InStage({"incremented"}, tx[h].coupon) = {}
    BY DEF IncrementCounter, RowLocked, IInv, TypeOK
<1>b. n \in Nat
    BY <1>a DEF TypeOK, Tx, CouponRow
<1>c. /\ stage'[h] = "incremented"
      /\ tx'[h] = [tx[h] EXCEPT !.newUsed = n]
      /\ \A g \in Handlers : g # h => stage'[g] = stage[g] /\ tx'[g] = tx[g]
    BY <1>a DEF TypeOK
<1>d. /\ tx'[h] \in Tx /\ tx'[h].newUsed = n
      /\ \A g \in Handlers : stage[g] # "idle" =>
           /\ tx'[g].order = tx[g].order /\ tx'[g].coupon = tx[g].coupon
           /\ tx'[g].customer = tx[g].customer /\ tx'[g].per = tx[g].per
    BY <1>a, <1>b, <1>c DEF Tx
<1> HIDE DEF n
<1>1. TypeOK'
    BY <1>a, <1>c, <1>d DEF TypeOK, Stages
<1>2. Rows' /\ IsFiniteSet(usages)'
    BY <1>a, SameRows DEF IInv
<1>3. CouponOutlivesCheckout'
  <2>1. \A c \in Coupons : InStage({"inserted", "incremented"}, c)'
                             \subseteq InStage({"inserted", "incremented"}, c)
      BY <1>a, <1>c, <1>d DEF InStage
  <2> QED BY <2>1, <1>a DEF IInv, CouponOutlivesCheckout, Live
<1>4. InFlightFacts'
    BY <1>a, <1>c, <1>d DEF IInv, InFlightFacts
<1>5. CounterLock'
  <2>1. \A g \in Handlers : stage[g] = "incremented" => tx[g].coupon # tx[h].coupon
      BY <1>a DEF InStage
  <2>2. n = coupons[tx[h].coupon].used + 1
      BY DEF n
  <2> QED BY <1>a, <1>c, <1>d, <2>1, <2>2 DEF IInv, CounterLock
<1>6. Bounds'
  <2>1. \A c \in Coupons : InStage(Checked, c)' \subseteq InStage(Checked, c)
      BY <1>a, <1>c, <1>d DEF InStage, Checked
  <2>2. \A c \in Coupons, k \in Customers :
          CustomerCleared(c, k)' \subseteq CustomerCleared(c, k)
      BY <1>a, <1>c, <1>d DEF CustomerCleared, InStage, Cleared, Checked
  <2> QED BY <1>a, <2>1, <2>2, FewerPending
<1> QED BY <1>1, <1>2, <1>3, <1>4, <1>5, <1>6 DEF IInv

(* An abandoned checkout leaves no row and no lock behind. *)
LEMMA AbortIInv ==
  ASSUME IInv, NEW h \in Handlers, Abort(h) PROVE IInv'
<1>a. /\ stage' = [stage EXCEPT ![h] = "idle"] /\ tx' = [tx EXCEPT ![h] = NoTx]
      /\ UNCHANGED <<coupons, orders, usages, ceiling>> /\ TypeOK
    BY DEF Abort, IInv
<1>c. \A g \in Handlers : stage'[g] # "idle" =>
        g # h /\ stage'[g] = stage[g] /\ tx'[g] = tx[g]
    BY <1>a DEF TypeOK
<1>1. TypeOK'
    BY <1>a DEF TypeOK, Stages
<1>2. Rows' /\ IsFiniteSet(usages)'
    BY <1>a, SameRows DEF IInv
<1>3. CouponOutlivesCheckout'
    BY <1>a, <1>c DEF IInv, CouponOutlivesCheckout, InStage, Live
<1>4. InFlightFacts' /\ CounterLock'
    BY <1>a, <1>c DEF IInv, InFlightFacts, CounterLock
<1>5. Bounds'
  <2>1. \A c \in Coupons : InStage(Checked, c)' \subseteq InStage(Checked, c)
      BY <1>a, <1>c DEF InStage, Checked
  <2>2. \A c \in Coupons, k \in Customers :
          CustomerCleared(c, k)' \subseteq CustomerCleared(c, k)
      BY <1>a, <1>c DEF CustomerCleared, InStage, Cleared, Checked
  <2> QED BY <1>a, <2>1, <2>2, FewerPending
<1> QED BY <1>1, <1>2, <1>3, <1>4, <1>5 DEF IInv

(* A commit moves one checkout from in flight to redeemed. *)
LEMMA CommitIInv ==
  ASSUME IInv, NEW h \in Handlers, Commit(h) PROVE IInv'
<1> DEFINE t == tx[h]
           new == [order |-> t.order, customer |-> t.customer, coupon |-> t.coupon]
<1>a. /\ TypeOK /\ stage[h] = "incremented" /\ t \in Tx
      /\ t.order \in Orders /\ t.customer \in Customers /\ t.coupon \in Coupons
      /\ t.newUsed \in Nat
    BY DEF Commit, IInv, TypeOK, Tx
<1>b. /\ coupons' = [coupons EXCEPT ![t.coupon].used = t.newUsed]
      /\ orders' = [orders EXCEPT ![t.order] =
                      [customer |-> t.customer, coupon |-> t.coupon]]
      /\ usages' = usages \cup {new}
      /\ stage' = [stage EXCEPT ![h] = "idle"] /\ tx' = [tx EXCEPT ![h] = NoTx]
      /\ ceiling' = ceiling
    BY DEF Commit
<1>c. t.coupon \in Live /\ orders[t.order] = NoOrder
      /\ t.newUsed = coupons[t.coupon].used + 1
    BY <1>a DEF IInv, CouponOutlivesCheckout, InStage, InFlightFacts, CounterLock
<1>d. new \in UsageRow /\ new \notin usages
      /\ new.coupon = t.coupon /\ new.customer = t.customer /\ new.order = t.order
  <2>1. new \in UsageRow
      BY <1>a DEF UsageRow
  <2>2. [customer |-> t.customer, coupon |-> t.coupon] # NoOrder
      BY <1>a, MarkersAssumption
  <2>3. new \in usages => orders[t.order] = [customer |-> t.customer, coupon |-> t.coupon]
      BY DEF IInv, Rows, Ledger
  <2> QED BY <2>1, <2>2, <2>3, <1>c
<1>e. /\ \A c \in Coupons : c # t.coupon => coupons'[c] = coupons[c]
      /\ \A c \in Coupons : /\ coupons'[c].row = coupons[c].row
                             /\ coupons'[c].limits = coupons[c].limits
      /\ coupons'[t.coupon].used = t.newUsed
      /\ coupons'[t.coupon] \in CouponRow
    BY <1>a, <1>b DEF TypeOK, CouponRow
<1>f. Live' = Live
    BY <1>e DEF Live
<1>g. \A g \in Handlers : stage'[g] # "idle" =>
        g # h /\ stage'[g] = stage[g] /\ tx'[g] = tx[g]
    BY <1>a, <1>b DEF TypeOK
<1>h. /\ orders'[t.order] = [customer |-> t.customer, coupon |-> t.coupon]
      /\ \A o \in Orders : o # t.order => orders'[o] = orders[o]
      /\ [customer |-> t.customer, coupon |-> t.coupon] # NoOrder
      /\ [customer |-> t.customer, coupon |-> t.coupon] \in OrderRow
    BY <1>a, <1>b, MarkersAssumption DEF TypeOK, OrderRow
<1>i. IsFiniteSet(usages)'
    BY <1>b, FS_AddElement DEF IInv
<1> HIDE DEF t, new
<1>1. TypeOK'
  <2>1. coupons' \in [Coupons -> CouponRow] /\ usages' \subseteq UsageRow
      BY <1>a, <1>b, <1>d, <1>e DEF TypeOK
  <2>2. orders' \in [Orders -> OrderRow \cup {NoOrder}]
      BY <1>a, <1>b, <1>h DEF TypeOK
  <2> QED BY <2>1, <2>2, <1>a, <1>b DEF TypeOK, Stages
<1>2. CounterExact'
  <2> SUFFICES ASSUME NEW c \in Live
               PROVE  coupons'[c].used = Cardinality(Redemptions(c)')
      BY <1>f DEF CounterExact
  <2>0. c \in Coupons /\ coupons[c].used = Cardinality(Redemptions(c))
      BY DEF IInv, Rows, CounterExact, Live
  <2>1. CASE c # t.coupon
    <3>1. Redemptions(c)' = Redemptions(c)
        BY <2>1, <1>b, <1>d DEF Redemptions
    <3> QED BY <3>1, <2>0, <2>1, <1>e
  <2>2. CASE c = t.coupon
    <3>1. Redemptions(c)' = Redemptions(c) \cup {new}
        BY <2>2, <1>b, <1>d DEF Redemptions
    <3>2. Redemptions(c) \in SUBSET usages /\ new \notin Redemptions(c)
        BY <1>d DEF Redemptions
    <3>3. Cardinality(Redemptions(c)') = Cardinality(Redemptions(c)) + 1
        BY <3>1, <3>2, SomeUsages, FS_AddElement DEF IInv
    <3> QED BY <3>3, <2>0, <2>2, <1>c, <1>e
  <2> QED BY <2>1, <2>2
<1>3. Ledger'
  <2>1. \A u \in usages : u.order # t.order
    <3> SUFFICES ASSUME NEW u \in usages PROVE u.order # t.order
        OBVIOUS
    <3>1. u \in UsageRow /\ orders[u.order] = [customer |-> u.customer, coupon |-> u.coupon]
        BY <1>a DEF IInv, Rows, Ledger, TypeOK
    <3>2. [customer |-> u.customer, coupon |-> u.coupon] # NoOrder
        BY <3>1, MarkersAssumption DEF UsageRow
    <3> QED BY <3>1, <3>2, <1>c
  <2>2. \A u \in usages' : orders'[u.order] = [customer |-> u.customer, coupon |-> u.coupon]
    <3> SUFFICES ASSUME NEW u \in usages'
                 PROVE  orders'[u.order] = [customer |-> u.customer, coupon |-> u.coupon]
        OBVIOUS
    <3>1. CASE u = new
        BY <3>1, <1>d, <1>h
    <3>2. CASE u # new
      <4>1. u \in usages /\ u.order \in Orders /\ u.order # t.order
          BY <3>2, <2>1, <1>a, <1>b DEF TypeOK, UsageRow
      <4> QED BY <4>1, <1>h DEF IInv, Rows, Ledger
    <3> QED BY <3>1, <3>2
  <2>3. \A o \in Redeeming' :
          [order |-> o, customer |-> orders'[o].customer, coupon |-> orders'[o].coupon]
            \in usages'
    <3> SUFFICES ASSUME NEW o \in Redeeming'
                 PROVE  [order |-> o, customer |-> orders'[o].customer,
                         coupon |-> orders'[o].coupon] \in usages'
        OBVIOUS
    <3>1. CASE o = t.order
        BY <3>1, <1>b, <1>h DEF new
    <3>2. CASE o # t.order
      <4>1. orders'[o] = orders[o] /\ o \in Redeeming
          BY <3>2, <1>h DEF Redeeming
      <4> QED BY <4>1, <1>b DEF IInv, Rows, Ledger
    <3> QED BY <3>1, <3>2
  <2>4. \A u \in usages' : u.coupon \in Live'
      BY <1>b, <1>c, <1>d, <1>f DEF IInv, Rows, Ledger
  <2> QED BY <2>2, <2>3, <2>4 DEF Ledger
<1>4. Ceilings'
    BY <1>b, <1>e, <1>f DEF IInv, Rows, Ceilings, Live
<1>5. CouponOutlivesCheckout'
  <2>1. \A c \in Coupons : InStage({"inserted", "incremented"}, c)'
                             \subseteq InStage({"inserted", "incremented"}, c)
      BY <1>g DEF InStage
  <2> QED BY <2>1, <1>f DEF IInv, CouponOutlivesCheckout
<1>6. InFlightFacts'
  <2>1. \A g \in Handlers : stage'[g] # "idle" =>
          tx[g].order # t.order /\ tx[g].order \in Orders /\ tx[g].coupon \in Coupons
      BY <1>a, <1>g DEF IInv, InFlightFacts, TypeOK, Tx, t
  <2> QED BY <2>1, <1>b, <1>e, <1>g, <1>h DEF IInv, InFlightFacts
<1>7. CounterLock'
  <2>1. \A g \in Handlers : stage'[g] = "incremented" =>
          tx[g].coupon # t.coupon /\ tx[g].coupon \in Coupons
      BY <1>a, <1>g DEF IInv, CounterLock, TypeOK, Tx, t
  <2> QED BY <2>1, <1>e, <1>g DEF IInv, CounterLock
<1>8. TotalOvershootBounded'
  <2> SUFFICES ASSUME NEW c \in Live, ceiling[c].total # Unlimited
               PROVE  coupons'[c].used + Cardinality(InStage(Checked, c)')
                        < ceiling[c].total + Width
      BY <1>b, <1>f DEF TotalOvershootBounded, Width
  <2>0. /\ coupons[c].used + Cardinality(InStage(Checked, c)) < ceiling[c].total + Width
        /\ InStage(Checked, c) \in SUBSET Handlers /\ c \in Coupons
      BY DEF IInv, Bounds, TotalOvershootBounded, InStage, Live
  <2>1. CASE c # t.coupon
    <3>1. InStage(Checked, c)' = InStage(Checked, c)
      <4>1. \A g \in Handlers : g # h => stage'[g] = stage[g] /\ tx'[g] = tx[g]
          BY <1>a, <1>b DEF TypeOK
      <4>2. stage'[h] = "idle" /\ "idle" \notin Checked /\ tx[h].coupon # c
          BY <2>1, <1>a, <1>b DEF TypeOK, Checked, t
      <4> QED BY <4>1, <4>2 DEF InStage
    <3> QED BY <3>1, <2>0, <2>1, <1>e
  <2>2. CASE c = t.coupon
    <3>1. InStage(Checked, c)' = InStage(Checked, c) \ {h} /\ h \in InStage(Checked, c)
      <4>1. \A g \in Handlers : g # h => stage'[g] = stage[g] /\ tx'[g] = tx[g]
          BY <1>a, <1>b DEF TypeOK
      <4>2. stage'[h] = "idle" /\ "idle" \notin Checked /\ tx[h].coupon = c
            /\ stage[h] \in Checked
          BY <2>2, <1>a, <1>b DEF TypeOK, Checked, t
      <4> QED BY <4>1, <4>2 DEF InStage
    <3>2. Cardinality(InStage(Checked, c)') = Cardinality(InStage(Checked, c)) - 1
          /\ Cardinality(InStage(Checked, c)) \in Nat
        BY <3>1, <2>0, SomeHandlers, FS_RemoveElement
    <3>3. coupons'[c].used = coupons[c].used + 1 /\ coupons[c].used \in Nat
        BY <2>0, <2>2, <1>a, <1>c, <1>e DEF TypeOK, CouponRow
    <3> QED BY <3>2, <3>3, <2>0
  <2> QED BY <2>1, <2>2
<1>9. PerCustomerOvershootBounded'
  <2> SUFFICES ASSUME NEW c \in Live, NEW k \in Customers, ceiling[c].per # Unlimited
               PROVE  Cardinality(RedemptionsBy(c, k)') + Cardinality(CustomerCleared(c, k)')
                        < ceiling[c].per + Width
      BY <1>b, <1>f DEF PerCustomerOvershootBounded, Width
  <2>0. /\ Cardinality(RedemptionsBy(c, k)) + Cardinality(CustomerCleared(c, k))
             < ceiling[c].per + Width
        /\ CustomerCleared(c, k) \in SUBSET Handlers /\ RedemptionsBy(c, k) \in SUBSET usages
      BY DEF IInv, Bounds, PerCustomerOvershootBounded, CustomerCleared, InStage, RedemptionsBy
  <2>1. CASE ~(c = t.coupon /\ k = t.customer)
    <3>1. CustomerCleared(c, k)' = CustomerCleared(c, k)
      <4>1. \A g \in Handlers : g # h => stage'[g] = stage[g] /\ tx'[g] = tx[g]
          BY <1>a, <1>b DEF TypeOK
      <4>2. stage'[h] = "idle" /\ "idle" \notin Cleared
            /\ ~(tx[h].coupon = c /\ tx[h].customer = k)
          BY <2>1, <1>a, <1>b DEF TypeOK, Cleared, Checked, t
      <4> QED BY <4>1, <4>2 DEF CustomerCleared, InStage
    <3>2. RedemptionsBy(c, k)' = RedemptionsBy(c, k)
        BY <2>1, <1>b, <1>d DEF RedemptionsBy
    <3> QED BY <3>1, <3>2, <2>0
  <2>2. CASE c = t.coupon /\ k = t.customer
    <3>1. CustomerCleared(c, k)' = CustomerCleared(c, k) \ {h}
          /\ h \in CustomerCleared(c, k)
      <4>1. \A g \in Handlers : g # h => stage'[g] = stage[g] /\ tx'[g] = tx[g]
          BY <1>a, <1>b DEF TypeOK
      <4>2. stage'[h] = "idle" /\ "idle" \notin Cleared /\ stage[h] \in Cleared
            /\ tx[h].coupon = c /\ tx[h].customer = k
          BY <2>2, <1>a, <1>b DEF TypeOK, Cleared, Checked, t
      <4> QED BY <4>1, <4>2 DEF CustomerCleared, InStage
    <3>2. Cardinality(CustomerCleared(c, k)') = Cardinality(CustomerCleared(c, k)) - 1
          /\ Cardinality(CustomerCleared(c, k)) \in Nat
        BY <3>1, <2>0, SomeHandlers, FS_RemoveElement
    <3>3. RedemptionsBy(c, k)' = RedemptionsBy(c, k) \cup {new}
        BY <2>2, <1>b, <1>d DEF RedemptionsBy
    <3>4. new \notin RedemptionsBy(c, k)
        BY <1>d DEF RedemptionsBy
    <3>5. Cardinality(RedemptionsBy(c, k)') = Cardinality(RedemptionsBy(c, k)) + 1
          /\ Cardinality(RedemptionsBy(c, k)) \in Nat
        BY <3>3, <3>4, <2>0, SomeUsages, FS_AddElement DEF IInv
    <3> QED BY <3>2, <3>5, <2>0
  <2> QED BY <2>1, <2>2
<1> QED BY <1>1, <1>2, <1>3, <1>4, <1>5, <1>6, <1>7, <1>8, <1>9, <1>i
        DEF IInv, Rows, Bounds

(* The larger of two limits is a limit, at least as high as each. *)
LEMMA HigherIsAnUpperBound ==
  ASSUME NEW l \in AnyLimit, NEW m \in AnyLimit
  PROVE  /\ Higher(l, m) \in AnyLimit
         /\ AtMost(l, Higher(l, m)) /\ AtMost(m, Higher(l, m))
         /\ \A j \in AnyLimit : AtMost(j, l) => AtMost(j, Higher(l, m))
<1>1. \A j \in AnyLimit : j # Unlimited => j \in Nat
    BY LimitsAssumption DEF AnyLimit
<1> QED BY <1>1 DEF Higher, AtMost, AnyLimit

(* A new coupon has no usage and no checkout. *)
LEMMA CreateCouponIInv ==
  ASSUME IInv, NEW c \in Coupons, NEW limits \in LimitPair, NEW usable \in BOOLEAN,
         CreateCoupon(c, limits, usable)
  PROVE  IInv'
<1> DEFINE new == [row |-> "live", usable |-> usable, used |-> 0, limits |-> limits]
<1>a. /\ coupons' = [coupons EXCEPT ![c] = new]
      /\ ceiling' = [ceiling EXCEPT ![c] = limits]
      /\ UNCHANGED <<orders, usages, stage, tx>>
      /\ TypeOK /\ coupons[c].row = "absent"
      /\ new.row = "live" /\ new.used = 0 /\ new.limits = limits /\ new \in CouponRow
    BY DEF CreateCoupon, IInv, CouponRow
<1>b. /\ coupons'[c] = new /\ ceiling'[c] = limits
      /\ \A d \in Coupons : d # c => coupons'[d] = coupons[d] /\ ceiling'[d] = ceiling[d]
    BY <1>a DEF TypeOK
<1>c. Live' = Live \cup {c} /\ c \notin Live
    BY <1>a, <1>b DEF Live
<1>d. /\ \A u \in usages : u.coupon # c
      /\ \A h \in Handlers : stage[h] # "idle" =>
           tx[h].coupon # c /\ tx[h].coupon \in Coupons
  <2>1. \A u \in usages : u.coupon # c
      BY <1>c DEF IInv, Rows, Ledger
  <2>2. \A h \in Handlers : stage[h] # "idle" => tx[h].coupon # c
      BY <1>a DEF IInv, InFlightFacts
  <2> QED BY <2>1, <2>2, <1>a DEF TypeOK, Tx
<1> HIDE DEF new
<1>1. TypeOK'
    BY <1>a DEF TypeOK
<1>2. CounterExact'
  <2> SUFFICES ASSUME NEW d \in Live'
               PROVE  coupons'[d].used = Cardinality(Redemptions(d)')
      BY DEF CounterExact
  <2>1. CASE d = c
    <3>1. Redemptions(c)' = {}
        BY <1>a, <1>d DEF Redemptions
    <3> QED BY <2>1, <3>1, <1>a, <1>b, FS_EmptySet
  <2>2. CASE d # c
    <3>1. d \in Live /\ d \in Coupons /\ Redemptions(d)' = Redemptions(d)
        BY <2>2, <1>a, <1>c DEF Live, Redemptions
    <3> QED BY <2>2, <3>1, <1>b DEF IInv, Rows, CounterExact
  <2> QED BY <2>1, <2>2
<1>3. Ledger'
    BY <1>a, <1>c DEF IInv, Rows, Ledger, Redeeming
<1>4. Ceilings'
  <2>1. \A l \in AnyLimit : AtMost(l, l)
    <3>1. \A l \in AnyLimit : l = Unlimited \/ l \in Nat
        BY LimitsAssumption DEF AnyLimit
    <3> QED BY <3>1 DEF AtMost
  <2>2. limits.total \in AnyLimit /\ limits.per \in AnyLimit
      BY DEF LimitPair
  <2> QED BY <2>1, <2>2, <1>a, <1>b, <1>c DEF IInv, Rows, Ceilings, Live
<1>5. CouponOutlivesCheckout'
    BY <1>a, <1>c DEF IInv, CouponOutlivesCheckout, InStage
<1>6. InFlightFacts' /\ CounterLock'
    BY <1>a, <1>b, <1>d DEF IInv, InFlightFacts, CounterLock
<1>7. TotalOvershootBounded'
  <2> SUFFICES ASSUME NEW d \in Live', ceiling'[d].total # Unlimited
               PROVE  coupons'[d].used + Cardinality(InStage(Checked, d)')
                        < ceiling'[d].total + Width
      BY DEF TotalOvershootBounded, Width
  <2>1. InStage(Checked, d)' = InStage(Checked, d)
      BY <1>a DEF InStage
  <2>2. CASE d = c
    <3>1. InStage(Checked, d) \in SUBSET Handlers
        BY DEF InStage
    <3>2. limits.total \in Nat \ {0}
        BY <2>2, <1>b, LimitsAssumption DEF LimitPair, AnyLimit
    <3> QED BY <2>1, <2>2, <3>1, <3>2, <1>a, <1>b, SomeHandlers
  <2>3. CASE d # c
      BY <2>1, <2>3, <1>b, <1>c DEF IInv, Bounds, TotalOvershootBounded, Live
  <2> QED BY <2>2, <2>3
<1>8. PerCustomerOvershootBounded'
  <2> SUFFICES ASSUME NEW d \in Live', NEW k \in Customers, ceiling'[d].per # Unlimited
               PROVE  Cardinality(RedemptionsBy(d, k)') + Cardinality(CustomerCleared(d, k)')
                        < ceiling'[d].per + Width
      BY DEF PerCustomerOvershootBounded, Width
  <2>1. CustomerCleared(d, k)' = CustomerCleared(d, k)
        /\ RedemptionsBy(d, k)' = RedemptionsBy(d, k)
      BY <1>a DEF InStage, CustomerCleared, RedemptionsBy
  <2>2. CASE d = c
    <3>1. CustomerCleared(d, k) \in SUBSET Handlers
        BY DEF InStage, CustomerCleared
    <3>2. limits.per \in Nat \ {0}
        BY <2>2, <1>b, LimitsAssumption DEF LimitPair, AnyLimit
    <3>3. RedemptionsBy(d, k) = {}
        BY <2>2, <1>d DEF RedemptionsBy
    <3> QED BY <2>1, <2>2, <3>1, <3>2, <3>3, <1>a, <1>b, SomeHandlers, FS_EmptySet
  <2>3. CASE d # c
      BY <2>1, <2>3, <1>b, <1>c DEF IInv, Bounds, PerCustomerOvershootBounded, Live
  <2> QED BY <2>2, <2>3
<1> QED BY <1>1, <1>2, <1>3, <1>4, <1>5, <1>6, <1>7, <1>8, <1>a
        DEF IInv, Rows, Bounds

(* An edit leaves the counter alone and can only raise the ceilings. *)
LEMMA UpdateCouponIInv ==
  ASSUME IInv, NEW c \in Coupons, NEW limits \in LimitPair, NEW usable \in BOOLEAN,
         UpdateCoupon(c, limits, usable)
  PROVE  IInv'
<1> DEFINE high == [total |-> Higher(ceiling[c].total, limits.total),
                    per |-> Higher(ceiling[c].per, limits.per)]
<1>a. /\ coupons' = [coupons EXCEPT ![c].limits = limits, ![c].usable = usable]
      /\ ceiling' = [ceiling EXCEPT ![c] = high]
      /\ UNCHANGED <<orders, usages, stage, tx>> /\ TypeOK
    BY DEF UpdateCoupon, IInv, TypeOK
<1>g. /\ coupons'[c] = [coupons[c] EXCEPT !.limits = limits, !.usable = usable]
      /\ \A d \in Coupons : d # c => coupons'[d] = coupons[d]
      /\ ceiling'[c] = high
      /\ \A d \in Coupons : d # c => ceiling'[d] = ceiling[d]
    BY <1>a DEF TypeOK
<1>h. /\ coupons'[c].row = coupons[c].row /\ coupons'[c].used = coupons[c].used
      /\ coupons'[c].limits = limits /\ coupons'[c] \in CouponRow
  <2>1. coupons[c] \in CouponRow
      BY <1>a DEF TypeOK
  <2>2. /\ coupons'[c].row = coupons[c].row /\ coupons'[c].used = coupons[c].used
        /\ coupons'[c].limits = limits
      BY <2>1, <1>g DEF CouponRow
  <2>3. coupons'[c] \in CouponRow
      BY <2>1, <1>g, Zenon DEF CouponRow
  <2> QED BY <2>2, <2>3
<1>b. \A d \in Coupons : coupons'[d].row = coupons[d].row /\ coupons'[d].used = coupons[d].used
    BY <1>g, <1>h
<1>c. Live' = Live
    BY <1>b DEF Live
<1>d. /\ ceiling[c].total \in AnyLimit /\ ceiling[c].per \in AnyLimit
      /\ limits.total \in AnyLimit /\ limits.per \in AnyLimit
    BY <1>a DEF TypeOK, LimitPair
<1>e. high \in LimitPair /\ high.total = Higher(ceiling[c].total, limits.total)
      /\ high.per = Higher(ceiling[c].per, limits.per)
    BY <1>d, HigherIsAnUpperBound DEF LimitPair
<1> HIDE DEF high
<1>f. \A d \in Coupons : /\ AtMost(ceiling[d].total, ceiling'[d].total)
                         /\ AtMost(ceiling[d].per, ceiling'[d].per)
  <2> TAKE d \in Coupons
  <2>1. CASE d = c
      BY <2>1, <1>g, <1>d, <1>e, HigherIsAnUpperBound
  <2>2. CASE d # c
      BY <2>2, <1>a, <1>g, LimitsAssumption DEF AtMost, TypeOK, LimitPair, AnyLimit
  <2> QED BY <2>1, <2>2
<1>1. TypeOK'
  <2>1. coupons' \in [Coupons -> CouponRow]
      BY <1>a, <1>h DEF TypeOK
  <2> QED BY <2>1, <1>a, <1>e DEF TypeOK
<1>2. CounterExact' /\ Ledger'
    BY <1>a, <1>b, <1>c DEF IInv, Rows, CounterExact, Redemptions, Ledger, Redeeming, Live
<1>3. Ceilings'
  <2> SUFFICES ASSUME NEW d \in Live
               PROVE  /\ AtMost(coupons'[d].limits.total, ceiling'[d].total)
                      /\ AtMost(coupons'[d].limits.per, ceiling'[d].per)
      BY <1>c DEF Ceilings
  <2>1. CASE d = c
      BY <2>1, <1>g, <1>h, <1>d, <1>e, HigherIsAnUpperBound
  <2>2. CASE d # c
      BY <2>2, <1>g DEF IInv, Rows, Ceilings, Live
  <2> QED BY <2>1, <2>2
<1>4. CouponOutlivesCheckout'
    BY <1>a, <1>c DEF IInv, CouponOutlivesCheckout, InStage
<1>5. InFlightFacts'
  <2>1. ASSUME NEW h \in Handlers, stage[h] # "idle"
        PROVE  AtMost(tx[h].per, ceiling'[tx[h].coupon].per)
    <3>1. tx[h] \in Tx
        BY <2>1, <1>a DEF TypeOK
    <3>2. AtMost(tx[h].per, ceiling[tx[h].coupon].per)
        BY <2>1 DEF IInv, InFlightFacts
    <3>3. tx[h].coupon \in Coupons /\ tx[h].per \in AnyLimit
        BY <3>1 DEF Tx
    <3>4. CASE tx[h].coupon = c
        BY <3>2, <3>3, <3>4, <1>g, <1>d, <1>e, HigherIsAnUpperBound
    <3>5. CASE tx[h].coupon # c
        BY <3>2, <3>3, <3>5, <1>g
    <3> QED BY <3>4, <3>5
  <2>2. \A h \in Handlers : stage[h] # "idle" => tx[h].coupon \in Coupons
      BY <1>a DEF TypeOK, Tx
  <2> QED BY <2>1, <2>2, <1>a, <1>b DEF IInv, InFlightFacts
<1>6. CounterLock'
  <2>1. \A h \in Handlers : stage[h] = "incremented" => tx[h].coupon \in Coupons
      BY <1>a DEF TypeOK, Tx
  <2> QED BY <2>1, <1>a, <1>b DEF IInv, CounterLock
<1>7. TotalOvershootBounded'
  <2> SUFFICES ASSUME NEW d \in Live, ceiling'[d].total # Unlimited
               PROVE  coupons'[d].used + Cardinality(InStage(Checked, d)')
                        < ceiling'[d].total + Width
      BY <1>c DEF TotalOvershootBounded, Width
  <2>1. InStage(Checked, d)' = InStage(Checked, d) /\ d \in Coupons
      BY <1>a DEF InStage, Live
  <2>2. ceiling[d].total # Unlimited /\ ceiling[d].total <= ceiling'[d].total
      BY <2>1, <1>f DEF AtMost
  <2>3. coupons[d].used + Cardinality(InStage(Checked, d)) < ceiling[d].total + Width
      BY <2>2 DEF IInv, Bounds, TotalOvershootBounded
  <2>4. /\ ceiling[d].total \in Nat /\ ceiling'[d].total \in Nat
        /\ coupons[d].used \in Nat
      BY <2>1, <2>2, <1>a, <1>1, LimitsAssumption
      DEF TypeOK, LimitPair, AnyLimit, CouponRow
  <2>5. InStage(Checked, d) \in SUBSET Handlers
      BY DEF InStage
  <2>6. Cardinality(InStage(Checked, d)) \in Nat /\ Width \in Nat
      BY <2>5, SomeHandlers
  <2> QED BY <2>1, <2>2, <2>3, <2>4, <2>6, <1>b
<1>8. PerCustomerOvershootBounded'
  <2> SUFFICES ASSUME NEW d \in Live, NEW k \in Customers, ceiling'[d].per # Unlimited
               PROVE  Cardinality(RedemptionsBy(d, k)') + Cardinality(CustomerCleared(d, k)')
                        < ceiling'[d].per + Width
      BY <1>c DEF PerCustomerOvershootBounded, Width
  <2>1. /\ CustomerCleared(d, k)' = CustomerCleared(d, k) /\ d \in Coupons
        /\ RedemptionsBy(d, k)' = RedemptionsBy(d, k)
      BY <1>a DEF CustomerCleared, InStage, RedemptionsBy, Live
  <2>2. ceiling[d].per # Unlimited /\ ceiling[d].per <= ceiling'[d].per
      BY <2>1, <1>f DEF AtMost
  <2>3. Cardinality(RedemptionsBy(d, k)) + Cardinality(CustomerCleared(d, k))
          < ceiling[d].per + Width
      BY <2>2 DEF IInv, Bounds, PerCustomerOvershootBounded
  <2>4. ceiling[d].per \in Nat /\ ceiling'[d].per \in Nat
      BY <2>1, <2>2, <1>a, <1>1, LimitsAssumption DEF TypeOK, LimitPair, AnyLimit
  <2>5. CustomerCleared(d, k) \in SUBSET Handlers /\ RedemptionsBy(d, k) \in SUBSET usages
      BY DEF CustomerCleared, InStage, RedemptionsBy
  <2>6. /\ Cardinality(CustomerCleared(d, k)) \in Nat /\ Width \in Nat
        /\ Cardinality(RedemptionsBy(d, k)) \in Nat
      BY <2>5, SomeHandlers, SomeUsages DEF IInv
  <2> QED BY <2>1, <2>2, <2>3, <2>4, <2>6
<1> QED BY <1>1, <1>2, <1>3, <1>4, <1>5, <1>6, <1>7, <1>8, <1>a
        DEF IInv, Rows, Bounds

(* Expiry only withdraws the coupon from new checkouts. *)
LEMMA ExpireIInv == ASSUME IInv, NEW c \in Coupons, Expire(c) PROVE IInv'
<1>a. /\ coupons' = [coupons EXCEPT ![c].usable = FALSE]
      /\ UNCHANGED <<orders, usages, stage, tx, ceiling>> /\ TypeOK
    BY DEF Expire, IInv
<1>b. \A d \in Coupons : /\ coupons'[d].row = coupons[d].row
                         /\ coupons'[d].used = coupons[d].used
                         /\ coupons'[d].limits = coupons[d].limits
    BY <1>a DEF TypeOK, CouponRow
<1>c. Live' = Live
    BY <1>b DEF Live
<1>1. TypeOK'
    BY <1>a DEF TypeOK, CouponRow
<1>2. Rows'
    BY <1>a, <1>b, <1>c
    DEF IInv, Rows, CounterExact, Redemptions, Ledger, Redeeming, Ceilings, Live
<1>3. CouponOutlivesCheckout'
    BY <1>a, <1>c DEF IInv, CouponOutlivesCheckout, InStage
<1>4. InFlightFacts' /\ CounterLock'
  <2>1. \A h \in Handlers : stage[h] # "idle" => tx[h].coupon \in Coupons
      BY <1>a DEF TypeOK, Tx
  <2> QED BY <2>1, <1>a, <1>b DEF IInv, InFlightFacts, CounterLock
<1>5. TotalOvershootBounded'
    BY <1>a, <1>b, <1>c DEF IInv, Bounds, TotalOvershootBounded, InStage, Live, Width
<1>6. PerCustomerOvershootBounded'
    BY <1>a, <1>b, <1>c
    DEF IInv, Bounds, PerCustomerOvershootBounded, CustomerCleared, InStage,
        RedemptionsBy, Width
<1> QED BY <1>1, <1>2, <1>3, <1>4, <1>5, <1>6, <1>a DEF IInv, Bounds

(* Deletion takes the coupon out of both sides of the ledger at once. *)
LEMMA DeleteCouponsIInv ==
  ASSUME IInv, NEW C \in SUBSET Coupons, DeleteCoupons(C) PROVE IInv'
<1> DEFINE dead == [Absent EXCEPT !.row = "deleted"]
<1>a. /\ coupons' = [c \in Coupons |-> IF c \in C THEN dead ELSE coupons[c]]
      /\ usages' = usages \ UNION {Redemptions(c) : c \in C}
      /\ orders' = [o \in Orders |->
                      IF orders[o] # NoOrder /\ orders[o].coupon \in C
                      THEN [orders[o] EXCEPT !.coupon = NoCoupon] ELSE orders[o]]
      /\ UNCHANGED <<stage, tx, ceiling>> /\ TypeOK
      /\ \A c \in C : InStage({"inserted", "incremented"}, c) = {}
    BY DEF DeleteCoupons, Forgotten, IInv
<1>b. dead.row = "deleted" /\ dead \in CouponRow
    BY DEF Absent, CouponRow, LimitPair, AnyLimit
<1>c. /\ \A c \in C : coupons'[c] = dead
      /\ \A d \in Coupons \ C : coupons'[d] = coupons[d]
    BY <1>a DEF TypeOK
<1>d. Live' = Live \ C
    BY <1>b, <1>c DEF Live
<1> HIDE DEF dead
<1>1. TypeOK'
  <2>1. orders' \in [Orders -> OrderRow \cup {NoOrder}]
    <3> SUFFICES ASSUME NEW o \in Orders PROVE orders'[o] \in OrderRow \cup {NoOrder}
        BY <1>a
    <3>1. orders[o] # NoOrder => [orders[o] EXCEPT !.coupon = NoCoupon] \in OrderRow
        BY <1>a DEF TypeOK, OrderRow
    <3> QED BY <3>1, <1>a DEF TypeOK
  <2> QED BY <2>1, <1>a, <1>b DEF TypeOK
<1>2. IsFiniteSet(usages)'
  <2>1. usages' \in SUBSET usages
      BY <1>a
  <2> QED BY <2>1, FS_Subset DEF IInv
<1>3. CounterExact'
  <2> SUFFICES ASSUME NEW d \in Live' PROVE coupons'[d].used = Cardinality(Redemptions(d)')
      BY DEF CounterExact
  <2>1. d \notin C /\ d \in Live /\ d \in Coupons
      BY <1>d DEF Live
  <2>2. Redemptions(d)' = Redemptions(d)
      BY <2>1, <1>a DEF Redemptions
  <2> QED BY <2>1, <2>2, <1>c DEF IInv, Rows, CounterExact
<1>4. Ledger'
  <2>1. ASSUME NEW u \in usages'
        PROVE  /\ orders'[u.order] = [customer |-> u.customer, coupon |-> u.coupon]
               /\ u.coupon \in Live'
    <3>1. u \in usages /\ u.coupon \notin C /\ u.order \in Orders
        BY <2>1, <1>a DEF Redemptions, TypeOK, UsageRow
    <3>2. orders[u.order] = [customer |-> u.customer, coupon |-> u.coupon]
          /\ u.coupon \in Live
        BY <3>1 DEF IInv, Rows, Ledger
    <3>3. orders'[u.order] = orders[u.order]
        BY <3>1, <3>2, <1>a
    <3> QED BY <3>1, <3>2, <3>3, <1>d
  <2>2. ASSUME NEW o \in Redeeming'
        PROVE  [order |-> o, customer |-> orders'[o].customer,
                coupon |-> orders'[o].coupon] \in usages'
    <3>1. o \in Orders /\ orders'[o] # NoOrder /\ orders'[o].coupon # NoCoupon
        BY DEF Redeeming
    <3>2. orders[o] # NoOrder /\ orders[o].coupon \notin C /\ orders'[o] = orders[o]
      <4>1. CASE orders[o] # NoOrder /\ orders[o].coupon \in C
        <5>1. orders'[o].coupon = NoCoupon
            BY <4>1, <3>1, <1>a DEF TypeOK, OrderRow
        <5> QED BY <5>1, <3>1
      <4> QED BY <4>1, <3>1, <1>a
    <3>3. o \in Redeeming
        BY <3>1, <3>2 DEF Redeeming
    <3>4. [order |-> o, customer |-> orders[o].customer, coupon |-> orders[o].coupon]
            \in usages
        BY <3>3 DEF IInv, Rows, Ledger
    <3> QED BY <3>2, <3>4, <1>a DEF Redemptions
  <2> QED BY <2>1, <2>2 DEF Ledger
<1>5. Ceilings'
    BY <1>a, <1>c, <1>d DEF IInv, Rows, Ceilings, Live
<1>6. CouponOutlivesCheckout'
    BY <1>a, <1>d DEF IInv, CouponOutlivesCheckout, InStage
<1>7. InFlightFacts'
  <2>1. \A o \in Orders : orders[o] = NoOrder => orders'[o] = NoOrder
      BY <1>a
  <2>2. \A d \in Coupons : coupons[d].row # "absent" => coupons'[d].row # "absent"
      BY <1>b, <1>c
  <2>3. \A h \in Handlers : stage[h] # "idle" => tx[h].order \in Orders
                                                  /\ tx[h].coupon \in Coupons
      BY <1>a DEF TypeOK, Tx
  <2> QED BY <2>1, <2>2, <2>3, <1>a DEF IInv, InFlightFacts
<1>8. CounterLock'
  <2>1. \A h \in Handlers : stage[h] = "incremented" =>
          tx[h].coupon \in Coupons /\ tx[h].coupon \notin C
      BY <1>a DEF TypeOK, Tx, InStage
  <2> QED BY <2>1, <1>a, <1>c DEF IInv, CounterLock
<1>9. TotalOvershootBounded'
  <2> SUFFICES ASSUME NEW d \in Live', ceiling'[d].total # Unlimited
               PROVE  coupons'[d].used + Cardinality(InStage(Checked, d)')
                        < ceiling'[d].total + Width
      BY DEF TotalOvershootBounded, Width
  <2>1. d \notin C /\ d \in Live /\ d \in Coupons /\ InStage(Checked, d)' = InStage(Checked, d)
      BY <1>a, <1>d DEF InStage, Live
  <2> QED BY <2>1, <1>a, <1>c DEF IInv, Bounds, TotalOvershootBounded
<1>10. PerCustomerOvershootBounded'
  <2> SUFFICES ASSUME NEW d \in Live', NEW k \in Customers, ceiling'[d].per # Unlimited
               PROVE  Cardinality(RedemptionsBy(d, k)') + Cardinality(CustomerCleared(d, k)')
                        < ceiling'[d].per + Width
      BY DEF PerCustomerOvershootBounded, Width
  <2>1. /\ d \notin C /\ d \in Live
        /\ CustomerCleared(d, k)' = CustomerCleared(d, k)
        /\ RedemptionsBy(d, k)' = RedemptionsBy(d, k)
      BY <1>a, <1>d DEF InStage, CustomerCleared, RedemptionsBy, Redemptions
  <2> QED BY <2>1, <1>a DEF IInv, Bounds, PerCustomerOvershootBounded
<1> QED BY <1>1, <1>2, <1>3, <1>4, <1>5, <1>6, <1>7, <1>8, <1>9, <1>10
        DEF IInv, Rows, Bounds

(* Every step of a checkout or an owner preserves the inductive invariant. *)
LEMMA NextIInv == IInv /\ [Next]_vars => IInv'
<1> SUFFICES ASSUME IInv, [Next]_vars PROVE IInv'
    OBVIOUS
<1>1. ASSUME NEW h \in Handlers, Checkout(h) PROVE IInv'
    BY <1>1, ReadCouponIInv, CountUsagesIInv, InsertRowsIInv, IncrementCounterIInv,
       CommitIInv, AbortIInv DEF Checkout
<1>2. ASSUME NEW c \in Coupons, Manage(c) PROVE IInv'
    BY <1>2, CreateCouponIInv, UpdateCouponIInv, ExpireIInv DEF Manage
<1>3. ASSUME NEW C \in SUBSET Coupons, DeleteCoupons(C) PROVE IInv'
    BY <1>3, DeleteCouponsIInv
<1>4. CASE UNCHANGED vars
  <2>1. UNCHANGED <<coupons, orders, usages, ceiling>> /\ stage' = stage /\ tx' = tx
      BY <1>4 DEF vars
  <2>2. TypeOK' /\ Rows' /\ IsFiniteSet(usages)'
      BY <2>1, SameRows DEF IInv, TypeOK
  <2>3. CouponOutlivesCheckout' /\ InFlightFacts' /\ CounterLock'
      BY <2>1 DEF IInv, CouponOutlivesCheckout, InStage, Live, InFlightFacts, CounterLock
  <2>4. Bounds'
      BY <2>1, FewerPending DEF InStage, CustomerCleared
  <2> QED BY <2>2, <2>3, <2>4 DEF IInv
<1> QED BY <1>1, <1>2, <1>3, <1>4 DEF Next

(* The inductive invariant holds in every reachable state. *)
THEOREM Invariance == Spec => []IInv
<1> QED BY InitIInv, NextIInv, PTL DEF Spec

(* Rows and requests keep their shape, for any number of either. *)
THEOREM TypeCorrect == Spec => []TypeOK
<1>1. IInv => TypeOK
    BY DEF IInv
<1> QED BY <1>1, Invariance, PTL

(* A coupon's counter never loses or invents a redemption. *)
THEOREM CounterIsExact == Spec => []CounterExact
<1>1. IInv => CounterExact
    BY DEF IInv, Rows
<1> QED BY <1>1, Invariance, PTL

(* The usage rows are exactly the redemptions the orders show. *)
THEOREM LedgerIsConsistent == Spec => []UsagesMatchOrders
<1>1. IInv => UsagesMatchOrders
  <2> SUFFICES ASSUME IInv PROVE UsagesMatchOrders
      OBVIOUS
  <2>1. ASSUME NEW u \in usages
        PROVE  \E o \in Redeeming : u = [order |-> o, customer |-> orders[o].customer,
                                         coupon |-> orders[o].coupon]
    <3>1. u \in UsageRow
        BY DEF IInv, TypeOK
    <3>2. orders[u.order] = [customer |-> u.customer, coupon |-> u.coupon]
        BY DEF IInv, Rows, Ledger
    <3>3. u.order \in Redeeming
        BY <3>1, <3>2, MarkersAssumption DEF UsageRow, Redeeming
    <3>4. u = [order |-> u.order, customer |-> orders[u.order].customer,
               coupon |-> orders[u.order].coupon]
        BY <3>1, <3>2 DEF UsageRow
    <3> QED BY <3>3, <3>4
  <2> QED BY <2>1 DEF IInv, Rows, Ledger, UsagesMatchOrders
<1> QED BY <1>1, Invariance, PTL

(* No coupon is deleted under a checkout that has inserted its rows. *)
THEOREM NoDeletionUnderCheckout == Spec => []CouponOutlivesCheckout
<1>1. IInv => CouponOutlivesCheckout
    BY DEF IInv
<1> QED BY <1>1, Invariance, PTL

(* Checkouts that run at once overshoot a coupon's total limit by fewer    *)
(* than they are.                                                          *)
THEOREM OvershootIsBounded == Spec => []TotalOvershootBounded
<1>1. IInv => TotalOvershootBounded
    BY DEF IInv, Bounds
<1> QED BY <1>1, Invariance, PTL

(* The same of what one customer redeems. *)
THEOREM CustomersOvershootIsBounded == Spec => []PerCustomerOvershootBounded
<1>1. IInv => PerCustomerOvershootBounded
    BY DEF IInv, Bounds
<1> QED BY <1>1, Invariance, PTL

(* Neither limit is overshot by as many as run at once. *)
THEOREM LimitsAreNearlyKept == Spec => []OvershootBounded
<1> QED BY OvershootIsBounded, CustomersOvershootIsBounded, PTL DEF OvershootBounded

(* With one checkout at a time both limits hold exactly. *)
THEOREM SerialLimits ==
  ASSUME Width = 1
  PROVE  Spec => [](TotalLimitHolds /\ PerCustomerLimitHolds)
<1>1. IInv => TotalLimitHolds
  <2> SUFFICES ASSUME IInv, NEW c \in Live, ceiling[c].total # Unlimited
               PROVE  coupons[c].used <= ceiling[c].total
      BY DEF TotalLimitHolds
  <2>1. coupons[c].used + Cardinality(InStage(Checked, c)) < ceiling[c].total + 1
      BY DEF IInv, Bounds, TotalOvershootBounded
  <2>2. coupons[c].used \in Nat /\ ceiling[c].total \in Nat
      BY LimitsAssumption DEF IInv, TypeOK, CouponRow, LimitPair, AnyLimit, Live
  <2>3. InStage(Checked, c) \in SUBSET Handlers
      BY DEF InStage
  <2> QED BY <2>1, <2>2, <2>3, SomeHandlers
<1>2. IInv => PerCustomerLimitHolds
  <2> SUFFICES ASSUME IInv, NEW c \in Live, NEW k \in Customers,
                      ceiling[c].per # Unlimited
               PROVE  Cardinality(RedemptionsBy(c, k)) <= ceiling[c].per
      BY DEF PerCustomerLimitHolds
  <2>1. Cardinality(RedemptionsBy(c, k)) + Cardinality(CustomerCleared(c, k))
          < ceiling[c].per + 1
      BY DEF IInv, Bounds, PerCustomerOvershootBounded
  <2>2. ceiling[c].per \in Nat
      BY LimitsAssumption DEF IInv, TypeOK, LimitPair, AnyLimit, Live
  <2>3. CustomerCleared(c, k) \in SUBSET Handlers /\ RedemptionsBy(c, k) \in SUBSET usages
      BY DEF CustomerCleared, InStage, RedemptionsBy
  <2>4. Cardinality(CustomerCleared(c, k)) \in Nat /\ Cardinality(RedemptionsBy(c, k)) \in Nat
      BY <2>3, SomeHandlers, SomeUsages DEF IInv
  <2> QED BY <2>1, <2>2, <2>4
<1> QED BY <1>1, <1>2, Invariance, PTL

-----------------------------------------------------------------------------
(* The ledger *)

LEMMA BookCardinality == \A S : Book!Cardinality(S) = Cardinality(S)
<1> QED BY DEF Book!Cardinality, Cardinality

(* An order has one usage at most, so usages are counted by their orders.  *)
LEMMA CountedByOrders ==
  ASSUME TypeOK, Ledger, IsFiniteSet(usages), NEW U \in SUBSET usages
  PROVE  Cardinality({u.order : u \in U}) = Cardinality(U)
<1> DEFINE O == {u.order : u \in U}
           f == [u \in U |-> u.order]
<1>1. \A u, v \in U : u.order = v.order => u = v
  <2> SUFFICES ASSUME NEW u \in U, NEW v \in U, u.order = v.order PROVE u = v
      OBVIOUS
  <2>1. u \in UsageRow /\ v \in UsageRow
      BY DEF TypeOK
  <2>2. [customer |-> u.customer, coupon |-> u.coupon]
          = [customer |-> v.customer, coupon |-> v.coupon]
      BY DEF Ledger
  <2>3. u.customer = v.customer /\ u.coupon = v.coupon
      BY <2>2
  <2> QED BY <2>1, <2>3 DEF UsageRow
<1>2. f \in Bijection(U, O)
    BY <1>1 DEF Bijection, Injection, Surjection, IsInjective
<1>3. IsFiniteSet(U)
    BY FS_Subset
<1> QED BY <1>2, <1>3, FS_Bijection DEF ExistsBijection

LEMMA BookCounts ==
  ASSUME IInv, NEW c \in Coupons
  PROVE  /\ Cardinality(Book!OrdersWith(c)) = Cardinality(Redemptions(c))
         /\ \A k \in Customers :
              Cardinality(Book!OrdersOf(c, k)) = Cardinality(RedemptionsBy(c, k))
<1>0. TypeOK /\ Ledger /\ IsFiniteSet(usages)
    BY DEF IInv, Rows
<1>1. Book!OrdersWith(c) = {u.order : u \in Redemptions(c)}
  <2>1. ASSUME NEW u \in Redemptions(c) PROVE u.order \in Book!OrdersWith(c)
    <3>1. u \in UsageRow /\ u.coupon = c
        BY <1>0 DEF Redemptions, TypeOK
    <3>2. orders[u.order] = [customer |-> u.customer, coupon |-> u.coupon]
        BY <1>0 DEF Redemptions, Ledger
    <3> QED BY <3>1, <3>2, MarkersAssumption DEF UsageRow, Book!OrdersWith
  <2>2. ASSUME NEW o \in Book!OrdersWith(c) PROVE \E u \in Redemptions(c) : u.order = o
    <3>1. o \in Redeeming /\ orders[o].coupon = c
        BY MarkersAssumption DEF Book!OrdersWith, Redeeming
    <3>2. [order |-> o, customer |-> orders[o].customer, coupon |-> orders[o].coupon] \in usages
        BY <1>0, <3>1 DEF Ledger
    <3> QED BY <3>1, <3>2 DEF Redemptions
  <2> QED BY <2>1, <2>2
<1>2. ASSUME NEW k \in Customers
      PROVE  Book!OrdersOf(c, k) = {u.order : u \in RedemptionsBy(c, k)}
  <2>1. ASSUME NEW u \in Redemptions(c) PROVE orders[u.order].customer = u.customer
    <3>1. orders[u.order] = [customer |-> u.customer, coupon |-> u.coupon]
        BY <1>0 DEF Redemptions, Ledger
    <3> QED BY <3>1
  <2> QED BY <1>1, <2>1 DEF Book!OrdersOf, Redemptions, RedemptionsBy
<1>3. Redemptions(c) \in SUBSET usages /\ \A k : RedemptionsBy(c, k) \in SUBSET usages
    BY DEF Redemptions, RedemptionsBy
<1> QED BY <1>0, <1>1, <1>2, <1>3, CountedByOrders

LEMMA SameState ==
  ASSUME \A c \in Coupons : coupons'[c].row = coupons[c].row
  PROVE  State' = State
<1> QED BY DEF State

(* The commit is the redemption: what the checks found is still so. *)
LEMMA CommitRedeems ==
  ASSUME IInv, NEW h \in Handlers, Commit(h) PROVE Book!Next
<1> DEFINE t == tx[h]
           c == t.coupon
           k == t.customer
<1>0. /\ TypeOK /\ stage[h] = "incremented" /\ t \in Tx /\ IsFiniteSet(usages)
    BY DEF Commit, IInv, TypeOK
<1>1. c \in Coupons /\ k \in Customers /\ t.order \in Orders
    BY <1>0 DEF Tx
<1>2. c \in Live /\ orders[t.order] = NoOrder
    BY <1>0, <1>1 DEF IInv, CouponOutlivesCheckout, InStage, InFlightFacts
<1>3. /\ h \in InStage(Checked, c) /\ InStage(Checked, c) \in SUBSET Handlers
      /\ h \in CustomerCleared(c, k) /\ CustomerCleared(c, k) \in SUBSET Handlers
    BY <1>0 DEF InStage, Checked, Cleared, CustomerCleared
<1>4. ASSUME NEW S \in SUBSET Handlers, h \in S PROVE Cardinality(S) \in Nat \ {0}
    BY <1>4, SomeHandlers, FS_EmptySet
<1>5. Book!Room(Book!Cardinality(Book!OrdersWith(c)), ceiling[c].total)
  <2> SUFFICES ASSUME ceiling[c].total # Unlimited
               PROVE  Cardinality(Redemptions(c)) + 1 < ceiling[c].total + Width
      BY <1>1, BookCounts, BookCardinality DEF Book!Room
  <2>1. coupons[c].used + Cardinality(InStage(Checked, c)) < ceiling[c].total + Width
      BY <1>2 DEF IInv, Bounds, TotalOvershootBounded
  <2>2. coupons[c].used = Cardinality(Redemptions(c)) /\ coupons[c].used \in Nat
      BY <1>0, <1>1, <1>2 DEF IInv, Rows, CounterExact, TypeOK, CouponRow
  <2>3. ceiling[c].total \in Nat /\ Width \in Nat
      BY <1>0, <1>1, LimitsAssumption, SomeHandlers DEF TypeOK, LimitPair, AnyLimit
  <2>4. Cardinality(InStage(Checked, c)) \in Nat \ {0}
      BY <1>3, <1>4
  <2> QED BY <2>1, <2>2, <2>3, <2>4
<1>6. Book!Room(Book!Cardinality(Book!OrdersOf(c, k)), ceiling[c].per)
  <2> SUFFICES ASSUME ceiling[c].per # Unlimited
               PROVE  Cardinality(RedemptionsBy(c, k)) + 1 < ceiling[c].per + Width
      BY <1>1, BookCounts, BookCardinality DEF Book!Room
  <2>1. Cardinality(RedemptionsBy(c, k)) + Cardinality(CustomerCleared(c, k))
          < ceiling[c].per + Width
      BY <1>1, <1>2 DEF IInv, Bounds, PerCustomerOvershootBounded
  <2>2. Cardinality(RedemptionsBy(c, k)) \in Nat
      BY <1>0, SomeUsages DEF RedemptionsBy
  <2>3. ceiling[c].per \in Nat /\ Width \in Nat
      BY <1>0, <1>1, LimitsAssumption, SomeHandlers DEF TypeOK, LimitPair, AnyLimit
  <2>4. Cardinality(CustomerCleared(c, k)) \in Nat \ {0}
      BY <1>3, <1>4
  <2> QED BY <2>1, <2>2, <2>3, <2>4
<1>7. /\ \A d \in Coupons : coupons'[d].row = coupons[d].row
      /\ orders' = [orders EXCEPT ![t.order] = [customer |-> k, coupon |-> c]]
      /\ UNCHANGED ceiling
    BY <1>0 DEF Commit, TypeOK, CouponRow
<1>8. Book!Redeem(t.order, k, c)
    BY <1>1, <1>2, <1>5, <1>6, <1>7, SameState DEF Live, State, Book!Redeem
<1> QED BY <1>1, <1>8 DEF Book!Next

(* What the owner does is a step of the ledger, or none. *)
LEMMA ManageRefinesLedger ==
  ASSUME IInv, NEW c \in Coupons, Manage(c) PROVE [Book!Next]_(Book!vars)
<1>0. TypeOK
    BY DEF IInv
<1>1. ASSUME NEW limits \in LimitPair, NEW usable \in BOOLEAN, CreateCoupon(c, limits, usable)
      PROVE  Book!Issue(c, limits)
    BY <1>0, <1>1 DEF CreateCoupon, TypeOK, State, Book!Issue
<1>2. ASSUME NEW limits \in LimitPair, NEW usable \in BOOLEAN, UpdateCoupon(c, limits, usable)
      PROVE  \E high \in LimitPair : Book!Raise(c, high)
  <2> DEFINE high == [total |-> Higher(ceiling[c].total, limits.total),
                      per |-> Higher(ceiling[c].per, limits.per)]
  <2>1. /\ ceiling[c].total \in AnyLimit /\ limits.total \in AnyLimit
        /\ ceiling[c].per \in AnyLimit /\ limits.per \in AnyLimit
      BY <1>0 DEF TypeOK, LimitPair
  <2>2. high \in LimitPair
      BY <2>1, HigherIsAnUpperBound DEF LimitPair
  <2>3. Book!Covers(high.total, ceiling[c].total) /\ Book!Covers(high.per, ceiling[c].per)
      BY <2>1, HigherIsAnUpperBound DEF AtMost, Book!Covers
  <2>4. ceiling' = [ceiling EXCEPT ![c] = high]
      BY <1>0, <1>2 DEF UpdateCoupon, TypeOK
  <2>5. UNCHANGED <<State, orders>> /\ State[c] = "live"
    <3>1. \A d \in Coupons : coupons'[d].row = coupons[d].row
        BY <1>0, <1>2 DEF UpdateCoupon, TypeOK, CouponRow
    <3> QED BY <1>2, <3>1 DEF UpdateCoupon, State
  <2> QED BY <2>2, <2>3, <2>4, <2>5 DEF Book!Raise
<1>3. ASSUME Expire(c) PROVE UNCHANGED Book!vars
  <2>1. \A d \in Coupons : coupons'[d].row = coupons[d].row
      BY <1>0, <1>3 DEF Expire, TypeOK, CouponRow
  <2> QED BY <1>3, <2>1 DEF Expire, State, Book!vars
<1>4. LimitPair = Book!LimitPair
    BY DEF LimitPair, AnyLimit, Book!LimitPair
<1> QED BY <1>1, <1>2, <1>3, <1>4 DEF Manage, Book!Next

(* The orders forget what is deleted in the step that deletes it. *)
LEMMA DeletionWithdraws ==
  ASSUME IInv, NEW C \in SUBSET Coupons, DeleteCoupons(C) PROVE Book!Withdraw(C)
<1>1. \A c \in Coupons : coupons'[c].row = IF c \in C THEN "deleted" ELSE coupons[c].row
    BY DEF DeleteCoupons, Absent
<1>2. State' = [c \in Coupons |-> IF c \in C THEN "deleted" ELSE State[c]]
    BY <1>1 DEF State
<1>3. orders' = [o \in Orders |->
                   IF \E c \in C : o \in Book!OrdersWith(c)
                   THEN [orders[o] EXCEPT !.coupon = NoCoupon] ELSE orders[o]]
    BY DEF DeleteCoupons, Forgotten, Book!OrdersWith
<1>4. \A c \in C : State[c] = "live"
    BY DEF DeleteCoupons, State
<1> QED BY <1>2, <1>3, <1>4 DEF DeleteCoupons, Book!Withdraw

(* The ledger sees of a checkout its commit, and of its owner's requests   *)
(* everything but the switches and the counter.                            *)
LEMMA StepRefinesLedger == IInv /\ [Next]_vars => [Book!Next]_(Book!vars)
<1> SUFFICES ASSUME IInv, [Next]_vars PROVE [Book!Next]_(Book!vars)
    OBVIOUS
<1>1. ASSUME NEW h \in Handlers, Checkout(h) PROVE [Book!Next]_(Book!vars)
  <2>1. ASSUME UNCHANGED <<coupons, orders, ceiling>> PROVE UNCHANGED Book!vars
      BY <2>1 DEF State, Book!vars
  <2> QED BY <1>1, <2>1, CommitRedeems
      DEF Checkout, ReadCoupon, CountUsages, InsertRows, IncrementCounter, Abort
<1>2. ASSUME NEW C \in SUBSET Coupons, DeleteCoupons(C) PROVE Book!Next
    BY <1>2, DeletionWithdraws DEF Book!Next
<1>3. CASE UNCHANGED vars
    BY <1>3 DEF vars, State, Book!vars
<1> QED BY <1>1, <1>2, <1>3, ManageRefinesLedger DEF Next

(* Checkouts of several statements, that overlap and fail, implement a     *)
(* ledger in which an order redeems its coupon in one step.                *)
THEOREM RefinesLedger == Spec => ImplementsLedger
<1>1. Init => Book!Init
    BY DEF Init, Absent, State, Book!Init
<1> QED BY <1>1, StepRefinesLedger, Invariance, PTL DEF Spec, ImplementsLedger, Book!Spec
=============================================================================
