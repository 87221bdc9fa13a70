-------------------------- MODULE Standalone_proofs --------------------------
(***************************************************************************)
(* Theorems of Pricing, Server and Browsing, the components that share no  *)
(* state with another one.  Their modules prefix what every module has,    *)
(* the initial state, the steps, the specification and the types, so that  *)
(* one module can extend the three.                                        *)
(***************************************************************************)
EXTENDS Pricing, Server, Browsing, FiniteSetTheorems, WellFoundedInduction, TLAPS

-----------------------------------------------------------------------------
(* Pricing, for amounts of any size and any finite number of meals         *)

(* A subtotal is a sum over the meals of a basket.  MapThenSumSet takes    *)
(* the function that sums every part of the basket; that there is such a   *)
(* function, and that its sums are natural numbers, is argued from a       *)
(* smallest basket that would not have it.                                 *)
Pick(s) == CHOOSE x \in s : TRUE

Sums(w, S, f) ==
  /\ f \in [SUBSET S -> Nat]
  /\ \A s \in SUBSET S : f[s] = IF s = {} THEN 0 ELSE w[Pick(s)] + f[s \ {Pick(s)}]

(* What is picked from a set is in it. *)
LEMMA PickIn == \A s : s # {} => Pick(s) \in s
  BY DEF Pick

(* A family of finite sets has a member all of whose parts by one element  *)
(* less are not in the family.                                             *)
LEMMA Smallest ==
  ASSUME NEW S, IsFiniteSet(S), NEW T \in SUBSET (SUBSET S), T # {}
  PROVE  \E m \in T : \A x \in m : m \ {x} \notin T
<1>1. FiniteSubsetsOf(S) = SUBSET S
    BY FS_FiniteSubsetsOfFinite
<1>2. IsWellFoundedOn(StrictSubsetOrdering(S), SUBSET S)
    BY <1>1, FS_StrictSubsetOrderingWellFounded
<1>3. PICK m \in T : \A y \in T : ~(<<y, m>> \in StrictSubsetOrdering(S))
    BY <1>2, WFMin
<1>4. ASSUME NEW x \in m, m \ {x} \in T PROVE FALSE
  <2>1. <<m \ {x}, m>> \in (SUBSET S) \X (SUBSET S)
      BY <1>4
  <2>2. m \ {x} \subseteq m /\ m \ {x} # m
      BY <1>4
  <2>3. <<m \ {x}, m>> \in StrictSubsetOrdering(S)
      BY <2>1, <2>2 DEF StrictSubsetOrdering
  <2> QED BY <1>3, <1>4, <2>3
<1> QED BY <1>4

(* What sums the parts of a set sums any part of it, as what sums only     *)
(* the parts of that part.                                                 *)
LEMMA SumsAgree ==
  ASSUME NEW w, NEW A, NEW S, IsFiniteSet(S), S \subseteq A,
         NEW f, NEW g, Sums(w, A, f), Sums(w, S, g)
  PROVE  f[S] = g[S]
<1> DEFINE T == {s \in SUBSET S : f[s] # g[s]}
<1> SUFFICES ASSUME T # {} PROVE FALSE
    OBVIOUS
<1>1. PICK m \in T : \A x \in m : m \ {x} \notin T
    BY Smallest
<1>2. m \in SUBSET A /\ m \in SUBSET S /\ f[m] # g[m]
    OBVIOUS
<1>3. CASE m = {}
    BY <1>2, <1>3 DEF Sums
<1>4. CASE m # {}
  <2>1. Pick(m) \in m
      BY <1>4, PickIn
  <2>2. m \ {Pick(m)} \in SUBSET S /\ m \ {Pick(m)} \notin T
      BY <1>1, <2>1
  <2>3. f[m \ {Pick(m)}] = g[m \ {Pick(m)}]
      BY <2>2
  <2> QED BY <1>2, <1>4, <2>3 DEF Sums
<1> QED BY <1>3, <1>4

(* Every finite set of weights has a function that sums its parts. *)
LEMMA SumsExist ==
  ASSUME NEW S, IsFiniteSet(S), NEW w \in [S -> Nat]
  PROVE  \E f : Sums(w, S, f)
<1> DEFINE T == {s \in SUBSET S : ~ \E f : Sums(w, s, f)}
<1> SUFFICES ASSUME T # {} PROVE FALSE
  <2>1. S \notin T => \E f : Sums(w, S, f)
      OBVIOUS
  <2> QED BY <2>1
<1>1. PICK m \in T : \A x \in m : m \ {x} \notin T
    BY Smallest
<1>2. m \in SUBSET S /\ ~ \E f : Sums(w, m, f)
    OBVIOUS
<1>3. ASSUME NEW s \in SUBSET m, s # m PROVE \E f : Sums(w, s, f)
  <2>1. PICK x \in m : x \notin s
      BY <1>3
  <2>2. m \ {x} \in SUBSET S /\ m \ {x} \notin T
      BY <1>1, <1>2
  <2>3. PICK f : Sums(w, m \ {x}, f)
      BY <2>2
  <2> DEFINE r == [t \in SUBSET s |-> f[t]]
  <2>4. s \subseteq m \ {x}
      BY <2>1
  <2>5. r \in [SUBSET s -> Nat]
      BY <2>3, <2>4 DEF Sums
  <2>6. ASSUME NEW t \in SUBSET s
        PROVE  r[t] = IF t = {} THEN 0 ELSE w[Pick(t)] + r[t \ {Pick(t)}]
    <3>1. t \in SUBSET (m \ {x}) /\ t \ {Pick(t)} \in SUBSET s
        BY <2>4
    <3>2. f[t] = IF t = {} THEN 0 ELSE w[Pick(t)] + f[t \ {Pick(t)}]
        BY <2>3, <3>1 DEF Sums
    <3>3. r[t] = f[t] /\ r[t \ {Pick(t)}] = f[t \ {Pick(t)}]
        BY <3>1
    <3> QED BY <3>2, <3>3
  <2> HIDE DEF r
  <2>7. Sums(w, s, r)
      BY <2>5, <2>6 DEF Sums
  <2> QED BY <2>7
<1> DEFINE F(s) == CHOOSE f : Sums(w, s, f)
           G(s) == IF s = {} THEN 0 ELSE w[Pick(s)] + F(s \ {Pick(s)})[s \ {Pick(s)}]
           g == [s \in SUBSET m |-> G(s)]
<1>4. \A s \in SUBSET m : s # m => Sums(w, s, F(s))
    BY <1>3
<1> HIDE DEF F
<1>5. ASSUME NEW s \in SUBSET m, s # {}
      PROVE  /\ Pick(s) \in s /\ s \ {Pick(s)} \in SUBSET m /\ s \ {Pick(s)} # m
             /\ w[Pick(s)] \in Nat /\ F(s \ {Pick(s)})[s \ {Pick(s)}] \in Nat
  <2>1. Pick(s) \in s
      BY <1>5, PickIn
  <2>2. s \ {Pick(s)} \in SUBSET m /\ s \ {Pick(s)} # m
      BY <2>1
  <2>3. Sums(w, s \ {Pick(s)}, F(s \ {Pick(s)}))
      BY <1>4, <2>2
  <2>4. F(s \ {Pick(s)})[s \ {Pick(s)}] \in Nat
      BY <2>3 DEF Sums
  <2> QED BY <1>2, <2>1, <2>2, <2>4
<1>6. g \in [SUBSET m -> Nat]
    BY <1>5
<1>7. ASSUME NEW s \in SUBSET m, s # m PROVE g[s] = F(s)[s]
  <2>1. Sums(w, s, F(s))
      BY <1>4, <1>7
  <2>2. F(s)[s] = IF s = {} THEN 0 ELSE w[Pick(s)] + F(s)[s \ {Pick(s)}]
      BY <2>1 DEF Sums
  <2>3. CASE s = {}
      BY <2>2, <2>3
  <2>4. CASE s # {}
    <3>1. Pick(s) \in s /\ s \ {Pick(s)} \in SUBSET m /\ s \ {Pick(s)} # m
        BY <1>5, <2>4
    <3>2. Sums(w, s \ {Pick(s)}, F(s \ {Pick(s)}))
        BY <1>4, <3>1
    <3>3. IsFiniteSet(s \ {Pick(s)}) /\ s \ {Pick(s)} \subseteq s
        BY <1>2, FS_Subset
    <3>4. F(s)[s \ {Pick(s)}] = F(s \ {Pick(s)})[s \ {Pick(s)}]
      <4>1. PICK u, f1, f2 : u = s \ {Pick(s)} /\ f1 = F(s) /\ f2 = F(u)
          OBVIOUS
      <4>2. Sums(w, s, f1) /\ Sums(w, u, f2) /\ IsFiniteSet(u) /\ u \subseteq s
          BY <2>1, <3>2, <3>3, <4>1
      <4>3. f1[u] = f2[u]
          BY <4>2, SumsAgree
      <4> QED BY <4>1, <4>3
    <3> QED BY <2>2, <2>4, <3>4
  <2> QED BY <2>3, <2>4
<1>8. ASSUME NEW s \in SUBSET m
      PROVE  g[s] = IF s = {} THEN 0 ELSE w[Pick(s)] + g[s \ {Pick(s)}]
    BY <1>5, <1>7
<1> HIDE DEF g
<1>9. Sums(w, m, g)
    BY <1>6, <1>8 DEF Sums
<1> QED BY <1>2, <1>9

(* The subtotal of a finite basket is a natural number. *)
LEMMA SubtotalIsCount ==
  ASSUME NEW quantity, IsFiniteSet(DOMAIN quantity),
         \A m \in DOMAIN quantity : price[m] * quantity[m] \in Nat
  PROVE  Subtotal(quantity) \in Nat
<1> DEFINE D == DOMAIN quantity
           w == [m \in D |-> price[m] * quantity[m]]
           Eq(iter) == iter = [s \in SUBSET DOMAIN quantity |->
                                 IF s = {} THEN 0
                                 ELSE LET x == CHOOSE x \in s : TRUE
                                      IN  price[x] * quantity[x] + iter[s \ {x}]]
           f == CHOOSE iter : Eq(iter)
<1>1. Subtotal(quantity) = f[D]
    BY Zenon DEF Subtotal, MapThenSumSet, MapThenFoldSet
<1>2. w \in [D -> Nat]
    OBVIOUS
<1>3. PICK g : Sums(w, D, g)
    BY <1>2, SumsExist
<1>4. Eq(g)
  <2>1. ASSUME NEW s \in SUBSET D, s # {} PROVE w[Pick(s)] = price[Pick(s)] * quantity[Pick(s)]
      BY <2>1, PickIn
  <2> HIDE DEF w
  <2> QED BY <1>3, <2>1 DEF Sums, Pick
<1>5. Eq(f)
  <2> HIDE DEF Eq
  <2>1. \E h : Eq(h)
      BY <1>4
  <2> QED BY <2>1, Zenon
<1> HIDE DEF f
<1>6. ASSUME NEW s \in SUBSET D
      PROVE  f[s] = IF s = {} THEN 0 ELSE price[Pick(s)] * quantity[Pick(s)] + f[s \ {Pick(s)}]
    BY <1>5 DEF Pick
<1> HIDE DEF Eq
<1> DEFINE T == {s \in SUBSET D : f[s] \notin Nat}
<1>7. T = {}
  <2> SUFFICES ASSUME T # {} PROVE FALSE
      OBVIOUS
  <2>1. PICK m \in T : \A x \in m : m \ {x} \notin T
      BY Smallest
  <2>2. m \in SUBSET D /\ f[m] \notin Nat
      OBVIOUS
  <2>3. f[m] = IF m = {} THEN 0 ELSE price[Pick(m)] * quantity[Pick(m)] + f[m \ {Pick(m)}]
      BY <1>6, <2>2, Zenon
  <2>4. m # {}
      BY <2>2, <2>3
  <2>5. Pick(m) \in m
      BY <2>4, PickIn
  <2>6. f[m \ {Pick(m)}] \in Nat
      BY <2>1, <2>2, <2>5
  <2>7. price[Pick(m)] * quantity[Pick(m)] \in Nat
      BY <2>2, <2>5
  <2> QED BY <2>2, <2>3, <2>4, <2>6, <2>7
<1> QED BY <1>1, <1>7

(* Rounding yields the natural number within half a cent, upper half up. *)
LEMMA RoundedIsNearest ==
  ASSUME NEW x \in Nat
  PROVE  /\ Rounded(x) \in Nat
         /\ 2 * x - Unit < 2 * Unit * Rounded(x)
         /\ 2 * Unit * Rounded(x) <= 2 * x + Unit
<1>1. PICK n \in Nat : n = 2 * x + Unit
    BY DEF Unit
<1>2. n \div 20000 \in Nat /\ 20000 * (n \div 20000) <= n
      /\ n < 20000 * (n \div 20000) + 20000
    OBVIOUS
<1>3. Rounded(x) = n \div 20000
    BY <1>1 DEF Rounded, Unit
<1> QED BY <1>1, <1>2, <1>3 DEF Unit

(* A percentage of an amount is never negative nor more than the amount. *)
LEMMA DiscountIsAShare ==
  ASSUME NEW s \in Nat, NEW p \in Nat, p <= 10000
  PROVE  Discount(s, p) \in Nat /\ Discount(s, p) <= s * Unit
<1>1. s * p \in Nat
    OBVIOUS
<1>2. s * p <= s * 10000
  <2>1. s * (10000 - p) \in Nat
      OBVIOUS
  <2>2. s * (10000 - p) = s * 10000 - s * p
      OBVIOUS
  <2> QED BY <2>1, <2>2
<1> QED BY <1>1, <1>2 DEF Discount, Unit

(* The four stored amounts, for any subtotal, percentage and tip. *)
LEMMA StoredAmounts ==
  ASSUME NEW s \in Nat, NEW p \in Nat, p <= 10000, NEW t \in Nat
  PROVE  LET row == StoredRow(s, p, t) IN
           /\ row.subtotal \in Nat /\ row.discount \in Nat
           /\ row.tip \in Nat /\ row.total \in Nat /\ row.percent = p
           /\ row.total - Parts(row) \in {-1, 0, 1}
           /\ row.total >= row.tip /\ row.discount <= row.subtotal
           /\ p = 0 => row.total = Parts(row)
<1>1. PICK d \in Nat : d = Discount(s, p) /\ d <= s * 10000
  <2>1. Discount(s, p) \in Nat /\ Discount(s, p) <= s * Unit
      BY DiscountIsAShare
  <2> QED BY <2>1 DEF Unit
<1>2. PICK x \in Int : x = Total(s, p, t) /\ x = s * 10000 - d + t
    BY <1>1 DEF Total, Unit
<1>3. x \in Nat /\ x >= t
    BY <1>1, <1>2
<1>4. p = 0 => d = 0
    BY <1>1 DEF Discount
<1>5. PICK a \in Nat : /\ a = Rounded(d)
                      /\ 2 * d - 10000 < 20000 * a /\ 20000 * a <= 2 * d + 10000
  <2>1. /\ Rounded(d) \in Nat
        /\ 2 * d - Unit < 2 * Unit * Rounded(d)
        /\ 2 * Unit * Rounded(d) <= 2 * d + Unit
      BY <1>1, RoundedIsNearest
  <2>2. PICK n \in Nat : n = Rounded(d)
      BY <2>1
  <2>3. 2 * d - 10000 < 20000 * n /\ 20000 * n <= 2 * d + 10000
      BY <1>1, <2>1, <2>2 DEF Unit
  <2> QED BY <2>2, <2>3
<1>6. PICK b \in Nat : /\ b = Rounded(t)
                      /\ 2 * t - 10000 < 20000 * b /\ 20000 * b <= 2 * t + 10000
  <2>1. /\ Rounded(t) \in Nat
        /\ 2 * t - Unit < 2 * Unit * Rounded(t)
        /\ 2 * Unit * Rounded(t) <= 2 * t + Unit
      BY RoundedIsNearest
  <2>2. PICK n \in Nat : n = Rounded(t)
      BY <2>1
  <2>3. 2 * t - 10000 < 20000 * n /\ 20000 * n <= 2 * t + 10000
      BY <2>1, <2>2 DEF Unit
  <2> QED BY <2>2, <2>3
<1>7. PICK c \in Nat : /\ c = Rounded(x)
                      /\ 2 * x - 10000 < 20000 * c /\ 20000 * c <= 2 * x + 10000
  <2>1. /\ Rounded(x) \in Nat
        /\ 2 * x - Unit < 2 * Unit * Rounded(x)
        /\ 2 * Unit * Rounded(x) <= 2 * x + Unit
      BY <1>3, RoundedIsNearest
  <2>2. PICK n \in Nat : n = Rounded(x)
      BY <2>1
  <2>3. 2 * x - 10000 < 20000 * n /\ 20000 * n <= 2 * x + 10000
      BY <1>3, <2>1, <2>2 DEF Unit
  <2> QED BY <2>2, <2>3
<1>8. /\ c - (s - a + b) \in {-1, 0, 1} /\ c >= b /\ a <= s
      /\ p = 0 => c = s - a + b
  <2>1. /\ x = s * 10000 - d + t /\ x >= t /\ d <= s * 10000 /\ (p = 0 => d = 0)
        /\ 2 * d - 10000 < 20000 * a /\ 20000 * a <= 2 * d + 10000
        /\ 2 * t - 10000 < 20000 * b /\ 20000 * b <= 2 * t + 10000
        /\ 2 * x - 10000 < 20000 * c /\ 20000 * c <= 2 * x + 10000
      BY <1>1, <1>2, <1>3, <1>4, <1>5, <1>6, <1>7
  <2>2. -2 < c - (s - a + b) /\ c - (s - a + b) < 2 /\ c - (s - a + b) \in Int
      BY <2>1
  <2>3. c - (s - a + b) \in {-1, 0, 1}
      BY <2>2
  <2>4. c >= b /\ a <= s
      BY <2>1
  <2>5. ASSUME p = 0 PROVE c = s - a + b
      BY <2>1, <2>5
  <2> QED BY <2>3, <2>4, <2>5
<1>9. StoredRow(s, p, t) = [subtotal |-> s, discount |-> a, tip |-> b, total |-> c,
                            percent |-> p]
    BY <1>1, <1>2, <1>5, <1>6, <1>7 DEF StoredRow
<1> QED BY <1>5, <1>6, <1>7, <1>8, <1>9 DEF Parts

(* The meals have prices and the order is a row, whatever is ordered. *)
PriceAndOrder == price \in [Meals -> Prices] /\ order \in OrderRow \cup {NoOrder}

(* Prices are natural numbers. *)
LEMMA PricesAreCounts == \A x \in Prices : x \in Nat
  BY AmountsAssumption

(* So are quantities. *)
LEMMA QuantitiesAreCounts == \A x \in Quantities : x \in Nat
  BY AmountsAssumption

(* And tips. *)
LEMMA TipsAreCounts == \A x \in Tips : x \in Nat
  BY AmountsAssumption

(* Every basket that can be ordered has a subtotal of whole cents. *)
LEMMA BasketsHaveSubtotals ==
  ASSUME price \in [Meals -> Prices]
  PROVE  SubtotalsAreCounts
<1> SUFFICES ASSUME NEW quantity \in Baskets PROVE Subtotal(quantity) \in Nat
    BY DEF SubtotalsAreCounts
<1>1. PICK S \in SUBSET Meals : quantity \in [S -> Quantities]
    BY DEF Baskets
<1>2. DOMAIN quantity = S /\ IsFiniteSet(DOMAIN quantity)
    BY <1>1, MealsAssumption, FS_Subset
<1>3. ASSUME NEW m \in DOMAIN quantity PROVE price[m] * quantity[m] \in Nat
  <2>1. m \in Meals /\ price[m] \in Prices /\ quantity[m] \in Quantities
      BY <1>1, <1>2
  <2>2. price[m] \in Nat /\ quantity[m] \in Nat
      BY <2>1, PricesAreCounts, QuantitiesAreCounts, Zenon
  <2> QED BY <2>2
<1> QED BY <1>2, <1>3, SubtotalIsCount

(* What a step does to the order: nothing, or it stores a row of amounts.  *)
LEMMA OrderSteps ==
  ASSUME price \in [Meals -> Prices], [PricingNext]_pricingVars
  PROVE  /\ price' \in [Meals -> Prices]
         /\ \/ order' = order
            \/ \E s \in Nat, p \in Percents, t \in Tips : order' = StoredRow(s, p, t)
<1>1. ASSUME NEW quantity \in Baskets, NEW percent \in Percents, NEW tip \in Tips,
             PlaceOrder(quantity, percent, tip)
      PROVE  /\ price' = price
             /\ \E s \in Nat, p \in Percents, t \in Tips : order' = StoredRow(s, p, t)
  <2>1. Subtotal(quantity) \in Nat
      BY BasketsHaveSubtotals, Zenon DEF SubtotalsAreCounts
  <2>2. price' = price /\ order' = StoredRow(Subtotal(quantity), percent, tip)
      BY <1>1 DEF PlaceOrder
  <2> QED BY <2>1, <2>2
<1>2. ASSUME NEW m \in Meals, NEW p \in Prices, UpdateMeal(m, p)
      PROVE  price' \in [Meals -> Prices] /\ order' = order
    BY <1>2 DEF UpdateMeal
<1>3. CASE UNCHANGED pricingVars
    BY <1>3 DEF pricingVars
<1> QED BY <1>1, <1>2, <1>3 DEF PricingNext

(* The stored row has whole amounts of cents and its coupon's percentage. *)
LEMMA StoredRowIsSound ==
  ASSUME NEW s \in Nat, NEW p \in Percents, NEW t \in Tips, NEW row, row = StoredRow(s, p, t)
  PROVE  /\ row \in OrderRow
         /\ row.total - Parts(row) \in {-1, 0, 1}
         /\ row.total >= row.tip /\ row.discount <= row.subtotal
         /\ row.percent = 0 => row.total = Parts(row)
<1>1. p \in 0 .. 10000
    BY AmountsAssumption
<1>2. p \in Nat /\ p <= 10000
    BY <1>1
<1>3. t \in Nat
    BY TipsAreCounts
<1>4. /\ row.subtotal \in Nat /\ row.discount \in Nat
      /\ row.tip \in Nat /\ row.total \in Nat /\ row.percent = p
      /\ row.total - Parts(row) \in {-1, 0, 1}
      /\ row.total >= row.tip /\ row.discount <= row.subtotal
      /\ p = 0 => row.total = Parts(row)
  <2>1. LET r == StoredRow(s, p, t) IN
          /\ r.subtotal \in Nat /\ r.discount \in Nat
          /\ r.tip \in Nat /\ r.total \in Nat /\ r.percent = p
          /\ r.total - Parts(r) \in {-1, 0, 1}
          /\ r.total >= r.tip /\ r.discount <= r.subtotal
          /\ p = 0 => r.total = Parts(r)
      BY <1>2, <1>3, StoredAmounts
  <2> QED BY <2>1, Zenon
<1>5. row = [subtotal |-> row.subtotal, discount |-> row.discount, tip |-> row.tip,
             total |-> row.total, percent |-> row.percent]
    BY DEF StoredRow
<1>6. row \in OrderRow
    BY <1>4, <1>5 DEF OrderRow
<1> QED BY <1>4, <1>6, Zenon

(* Prices are prices and stored amounts are whole numbers of cents, none   *)
(* below 0, and every basket of meals has a subtotal, for any prices.      *)
THEOREM PricingTypeCorrect == PricingSpec => []PricingTypeOK
<1>1. PricingInit => PriceAndOrder
    BY DEF PricingInit, PriceAndOrder
<1>2. PriceAndOrder /\ [PricingNext]_pricingVars => PriceAndOrder'
  <2> SUFFICES ASSUME PriceAndOrder, [PricingNext]_pricingVars PROVE PriceAndOrder'
      OBVIOUS
  <2>1. /\ price' \in [Meals -> Prices]
        /\ \/ order' = order
           \/ \E s \in Nat, p \in Percents, t \in Tips : order' = StoredRow(s, p, t)
      BY OrderSteps DEF PriceAndOrder
  <2>2. order' = order \/ order' \in OrderRow
      BY <2>1, StoredRowIsSound
  <2> QED BY <2>1, <2>2 DEF PriceAndOrder
<1>3. PriceAndOrder => PricingTypeOK
    BY BasketsHaveSubtotals DEF PriceAndOrder, PricingTypeOK
<1> QED BY <1>1, <1>2, <1>3, PTL DEF PricingSpec

Sound == TotalWithinACent /\ TotalCoversTip /\ ExactWithoutCoupon

(* Whatever is ordered, at whatever prices, with whatever coupon and tip:  *)
(* the stored total is within a cent of its parts, covers the tip, and is  *)
(* exact when no coupon is used.                                           *)
THEOREM StoredTotals ==
  PricingSpec => [](TotalWithinACent /\ TotalCoversTip /\ ExactWithoutCoupon)
<1>1. PricingInit => Sound
    BY DEF PricingInit, Sound, TotalWithinACent, TotalCoversTip, ExactWithoutCoupon
<1>2. Sound /\ PricingTypeOK /\ [PricingNext]_pricingVars => Sound'
  <2> SUFFICES ASSUME Sound, PricingTypeOK, [PricingNext]_pricingVars PROVE Sound'
      OBVIOUS
  <2>1. CASE order' = order
      BY <2>1 DEF Sound, TotalWithinACent, TotalCoversTip, ExactWithoutCoupon
  <2>2. ASSUME NEW s \in Nat, NEW p \in Percents, NEW t \in Tips, order' = StoredRow(s, p, t)
        PROVE  Sound'
    <3>1. /\ order'.total - Parts(order') \in {-1, 0, 1}
          /\ order'.total >= order'.tip /\ order'.discount <= order'.subtotal
          /\ order'.percent = 0 => order'.total = Parts(order')
        BY <2>2, StoredRowIsSound, Zenon
    <3> QED BY <3>1, Zenon DEF Sound, TotalWithinACent, TotalCoversTip, ExactWithoutCoupon
  <2> QED BY <2>1, <2>2, OrderSteps DEF PricingTypeOK
<1> QED BY <1>1, <1>2, PricingTypeCorrect, PTL DEF PricingSpec, Sound

(* No coupon, however high, reaches the tip, or takes more than the meals. *)
THEOREM TipIsPaid == PricingSpec => []TotalCoversTip
<1>1. PricingSpec => [](TotalWithinACent /\ TotalCoversTip /\ ExactWithoutCoupon)
    BY StoredTotals
<1> QED BY <1>1, PTL

-----------------------------------------------------------------------------
(* Server, for any number of connections and signals and any deadline      *)

(* Before the server listens nothing has happened. *)
NothingYet ==
  process = "starting" =>
    /\ signals = 0 /\ closers = {} /\ working = {}
    /\ \A c \in Connections : connection[c] = "none"

(* The server listens until the first signal, and only a signal waits for  *)
(* the 'close' event; from the second on one of them carries an error.     *)
SignalsClose ==
  process = "running" =>
    /\ listening <=> signals = 0
    /\ listening => closers = {}
    /\ signals > 1 => "late" \in closers

(* The database is left once the last connection has ended. *)
DatabaseLast ==
  /\ database # "connected" => signals > 0 /\ \A c \in Connections : connection[c] = "none"
  /\ database = "disconnected" => process = "done"

(* The timers of the signals so far run, and the first is never behind. *)
FirstTimerLeads ==
  \A s \in 1 .. MaxSignals :
    /\ s <= signals => timers[s] <= Deadline /\ timers[1] <= timers[s]
    /\ s > signals => timers[s] = Off

ServerIInv ==
  /\ ServerTypeOK /\ NothingYet /\ SignalsClose /\ DatabaseLast /\ FirstTimerLeads
  /\ ShutdownIsGraceful

(* The program starts. *)
LEMMA ServerInitIInv == ServerInit => ServerIInv
<1> SUFFICES ASSUME ServerInit PROVE ServerIInv
    OBVIOUS
<1> USE DEF ServerInit
<1>0. Deadline \in Nat /\ MaxSignals \in Nat /\ Off \in 0 .. Off /\ 0 \in 0 .. MaxSignals
    BY DeadlineAssumption DEF Off
<1>1. ServerTypeOK
  <2>1. timers \in [1 .. MaxSignals -> 0 .. Off]
      BY <1>0
  <2>2. Waiting \subseteq working
      BY DEF Waiting
  <2> QED BY <1>0, <2>1, <2>2 DEF ServerTypeOK
<1>2. NothingYet /\ SignalsClose /\ DatabaseLast /\ ShutdownIsGraceful
    BY DEF NothingYet, SignalsClose, DatabaseLast, ShutdownIsGraceful
<1>3. FirstTimerLeads
    BY DEF FirstTimerLeads
<1> QED BY <1>1, <1>2, <1>3 DEF ServerIInv

(* Requests leave the signals, the timers and the database alone. *)
LEMMA RequestsIInv ==
  ASSUME ServerIInv, NEW c \in Connections, Receive(c) \/ Answer(c) \/ Disconnect(c)
  PROVE  ServerIInv'
<1>0. ServerIInv
    OBVIOUS
<1> USE DEF ServerIInv, Running, shutdown
<1>1. ServerTypeOK'
  <2>1. CASE Receive(c)
      BY <1>0, <2>1 DEF ServerTypeOK, Waiting, Receive
  <2>2. CASE Answer(c)
      BY <1>0, <2>2 DEF ServerTypeOK, Waiting, Answer
  <2>3. CASE Disconnect(c)
      BY <1>0, <2>3 DEF ServerTypeOK, Waiting, Disconnect
  <2> QED BY <2>1, <2>2, <2>3
<1>2. /\ process = "running" /\ UNCHANGED <<process, listening, signals, closers, timers, database>>
      /\ (\A d \in Connections : connection[d] = "none") /\ ~listening
           => \A d \in Connections : connection'[d] = "none"
    BY <1>0 DEF Receive, Answer, Disconnect, ServerTypeOK
<1>3. NothingYet' /\ SignalsClose' /\ DatabaseLast' /\ ShutdownIsGraceful'
    BY <1>0, <1>2 DEF NothingYet, SignalsClose, DatabaseLast, ShutdownIsGraceful, ServerTypeOK
<1>4. FirstTimerLeads'
    BY <1>0, <1>2 DEF FirstTimerLeads, Off
<1> QED BY <1>1, <1>3, <1>4

(* The server listens, and nothing has happened. *)
LEMMA StartIInv == ServerIInv /\ Start => ServerIInv'
<1> SUFFICES ASSUME ServerIInv, Start PROVE ServerIInv'
    OBVIOUS
<1> USE DEF ServerIInv, Start, Exit, clients, shutdown
<1>1. ServerTypeOK'
    BY DEF ServerTypeOK, Waiting
<1>2. NothingYet' /\ SignalsClose' /\ DatabaseLast' /\ ShutdownIsGraceful'
    BY DEF NothingYet, SignalsClose, DatabaseLast, ShutdownIsGraceful, ServerTypeOK, Waiting
<1>3. FirstTimerLeads'
    BY DEF FirstTimerLeads, Off
<1> QED BY <1>1, <1>2, <1>3

(* A signal arms the next timer with the whole deadline. *)
LEMMA SignalIInv == ServerIInv /\ HandleShutdown => ServerIInv'
<1> SUFFICES ASSUME ServerIInv, HandleShutdown PROVE ServerIInv'
    OBVIOUS
<1> USE DEF ServerIInv, HandleShutdown, Running
<1>0. signals \in Nat /\ MaxSignals \in Nat /\ Deadline \in Nat /\ Off = Deadline + 1
    BY DeadlineAssumption DEF ServerTypeOK, Off
<1>1. signals + 1 \in 1 .. MaxSignals /\ signals' \in 0 .. MaxSignals
    BY <1>0
<1>2. ServerTypeOK'
  <2>1. timers' \in [1 .. MaxSignals -> 0 .. Off]
      BY <1>0, <1>1 DEF ServerTypeOK
  <2>2. connection' \in [Connections -> {"none", "idle", "busy"}] /\ Waiting' \subseteq working'
      BY DEF ServerTypeOK, Waiting
  <2> QED BY <1>1, <2>1, <2>2 DEF ServerTypeOK
<1>3. NothingYet' /\ ShutdownIsGraceful'
    BY DEF NothingYet, ShutdownIsGraceful
<1>4. SignalsClose'
    BY <1>0 DEF SignalsClose, ServerTypeOK
<1>5. DatabaseLast'
    BY <1>0 DEF DatabaseLast, ServerTypeOK
<1>6. FirstTimerLeads'
  <2> SUFFICES ASSUME NEW s \in 1 .. MaxSignals
               PROVE  /\ s <= signals' => timers'[s] <= Deadline /\ timers'[1] <= timers'[s]
                      /\ s > signals' => timers'[s] = Off
      BY DEF FirstTimerLeads, Off
  <2>1. timers'[s] = IF s = signals + 1 THEN Deadline ELSE timers[s]
      BY <1>1 DEF ServerTypeOK
  <2>2. 1 \in 1 .. MaxSignals /\ timers'[1] = IF signals = 0 THEN Deadline ELSE timers[1]
      BY <1>0, <1>1 DEF ServerTypeOK
  <2>3. s <= signals => timers[s] <= Deadline /\ timers[1] <= timers[s]
      BY DEF FirstTimerLeads
  <2>4. signals > 0 => timers[1] <= Deadline
      BY <1>0, <2>2 DEF FirstTimerLeads
  <2>5. s > signals => timers[s] = Off
      BY DEF FirstTimerLeads
  <2> QED BY <1>0, <2>1, <2>2, <2>3, <2>4, <2>5
<1> QED BY <1>2, <1>3, <1>4, <1>5, <1>6

(* The 'close' event and the end of the disconnection find no connection. *)
LEMMA ClosedIInv == ServerIInv /\ (Closed \/ Disconnected) => ServerIInv'
<1> SUFFICES ASSUME ServerIInv, Closed \/ Disconnected PROVE ServerIInv'
    OBVIOUS
<1> USE DEF ServerIInv, Closed, Disconnected, Running, Exit, clients
<1>0. signals \in Nat
    BY DeadlineAssumption DEF ServerTypeOK
<1>1. ServerTypeOK'
    BY DEF ServerTypeOK, Waiting
<1>2. \A c \in Connections : connection'[c] = "none"
    BY DEF DatabaseLast
<1>3. NothingYet' /\ DatabaseLast'
    BY <1>0, <1>2 DEF NothingYet, DatabaseLast, SignalsClose
<1>4. SignalsClose'
    BY <1>0 DEF SignalsClose, NothingYet
<1>5. ShutdownIsGraceful'
    BY <1>0, <1>2 DEF ShutdownIsGraceful, SignalsClose, DatabaseLast, Waiting
<1>6. FirstTimerLeads'
    BY DEF FirstTimerLeads, Off
<1> QED BY <1>1, <1>3, <1>4, <1>5, <1>6

(* The timer that is due is the first signal's, or it is due with it. *)
LEMMA TimesOutIInv == ServerIInv /\ TimesOut => ServerIInv'
<1> SUFFICES ASSUME ServerIInv, TimesOut PROVE ServerIInv'
    OBVIOUS
<1> USE DEF ServerIInv, TimesOut, Running, Exit, clients, shutdown
<1>0. signals \in Nat /\ MaxSignals \in Nat /\ Deadline \in Nat /\ Off = Deadline + 1
    BY DeadlineAssumption DEF ServerTypeOK, Off
<1>1. ServerTypeOK'
    BY DEF ServerTypeOK, Waiting
<1>2. NothingYet' /\ SignalsClose' /\ DatabaseLast'
    BY DEF NothingYet, SignalsClose, DatabaseLast
<1>3. timers[1] = 0
  <2>1. PICK s \in Armed : timers[s] = 0
      OBVIOUS
  <2>2. s \in 1 .. MaxSignals /\ 1 \in 1 .. MaxSignals
      BY <1>0, <2>1 DEF Armed, ServerTypeOK
  <2>3. s <= signals
      BY <1>0, <2>1, <2>2 DEF FirstTimerLeads
  <2>4. timers[1] <= timers[s] /\ timers[1] \in 0 .. Off
      BY <2>2, <2>3 DEF FirstTimerLeads, ServerTypeOK
  <2> QED BY <1>0, <2>1, <2>4
<1>4. ShutdownIsGraceful'
    BY <1>3 DEF ShutdownIsGraceful
<1>5. FirstTimerLeads'
    BY DEF FirstTimerLeads, Off
<1> QED BY <1>1, <1>2, <1>4, <1>5

(* Time passes for all the timers that are set. *)
LEMMA TickIInv == ServerIInv /\ Tick => ServerIInv'
<1> SUFFICES ASSUME ServerIInv, Tick PROVE ServerIInv'
    OBVIOUS
<1> USE DEF ServerIInv, Tick, Running, clients
<1>0. signals \in Nat /\ MaxSignals \in Nat /\ Deadline \in Nat /\ Off = Deadline + 1
    BY DeadlineAssumption DEF ServerTypeOK, Off
<1>1. \A s \in 1 .. MaxSignals :
        /\ timers[s] \in 0 .. Off
        /\ timers[s] # Off => timers[s] > 0
        /\ timers'[s] = IF timers[s] = Off THEN Off ELSE timers[s] - 1
    BY DEF Armed, ServerTypeOK
<1>2. timers' \in [1 .. MaxSignals -> 0 .. Off]
  <2>1. timers' = [s \in 1 .. MaxSignals |-> IF timers[s] = Off THEN Off ELSE timers[s] - 1]
      BY DEF Armed, ServerTypeOK
  <2>2. \A s \in 1 .. MaxSignals : (IF timers[s] = Off THEN Off ELSE timers[s] - 1) \in 0 .. Off
      BY <1>0, <1>1
  <2> QED BY <2>1, <2>2
<1>3. ServerTypeOK'
    BY <1>2 DEF ServerTypeOK, Waiting, Off
<1>4. NothingYet' /\ SignalsClose' /\ DatabaseLast' /\ ShutdownIsGraceful'
    BY DEF NothingYet, SignalsClose, DatabaseLast, ShutdownIsGraceful
<1>5. FirstTimerLeads'
  <2> SUFFICES ASSUME NEW s \in 1 .. MaxSignals
               PROVE  /\ s <= signals => timers'[s] <= Deadline /\ timers'[1] <= timers'[s]
                      /\ s > signals => timers'[s] = Off
      BY DEF FirstTimerLeads, Off
  <2>1. 1 \in 1 .. MaxSignals
      BY <1>0
  <2>2. s <= signals => timers[s] <= Deadline /\ timers[1] <= timers[s]
      BY DEF FirstTimerLeads
  <2>3. s > signals => timers[s] = Off
      BY DEF FirstTimerLeads
  <2>4. /\ timers[s] \in 0 .. Off /\ timers[1] \in 0 .. Off
        /\ timers'[s] = IF timers[s] = Off THEN Off ELSE timers[s] - 1
        /\ timers'[1] = IF timers[1] = Off THEN Off ELSE timers[1] - 1
      BY <1>1, <2>1
  <2>5. CASE s <= signals
    <3>1. timers'[s] = timers[s] - 1 /\ timers'[1] = timers[1] - 1
        BY <1>0, <2>2, <2>4, <2>5
    <3> QED BY <1>0, <2>2, <2>4, <2>5, <3>1
  <2>6. CASE s > signals
      BY <1>0, <2>3, <2>4, <2>6
  <2> QED BY <1>0, <2>5, <2>6
<1> QED BY <1>3, <1>4, <1>5

(* What holds of the process until it is done. *)
LEMMA ServerInvariance == ServerSpec => []ServerIInv
<1>1. ServerIInv /\ [ServerNext]_serverVars => ServerIInv'
  <2> SUFFICES ASSUME ServerIInv, [ServerNext]_serverVars PROVE ServerIInv'
      OBVIOUS
  <2>1. CASE UNCHANGED serverVars
      BY <2>1 DEF serverVars, ServerIInv, ServerTypeOK, NothingYet, SignalsClose, DatabaseLast,
                  FirstTimerLeads, ShutdownIsGraceful, Waiting, Off
  <2> QED BY <2>1, StartIInv, RequestsIInv, SignalIInv, ClosedIInv, TimesOutIInv, TickIInv
          DEF ServerNext
<1> QED BY <1>1, ServerInitIInv, PTL DEF ServerSpec

(* A client waits only while its request is handled, and every variable    *)
(* keeps its type.                                                         *)
THEOREM ServerTypeCorrect == ServerSpec => []ServerTypeOK
<1>1. ServerIInv => ServerTypeOK
    BY DEF ServerIInv
<1> QED BY <1>1, ServerInvariance, PTL

(* However many signals and connections there are: an exit with 0 left no  *)
(* client waiting and no database connection, and only the first signal's  *)
(* deadline takes an answer from a client.                                 *)
THEOREM GracefulShutdown == ServerSpec => []ShutdownIsGraceful
<1>1. ServerIInv => ShutdownIsGraceful
    BY DEF ServerIInv
<1> QED BY <1>1, ServerInvariance, PTL

-----------------------------------------------------------------------------
(* Browsing, for any number of rows and any limits                         *)

(* A function takes finitely many positions to finitely many ids. *)
LEMMA IdsAreFinite ==
  ASSUME NEW t, NEW n \in Nat, NEW P \in SUBSET (1 .. n)
  PROVE  /\ IsFiniteSet({t[i].id : i \in P})
         /\ Cardinality({t[i].id : i \in P}) \in Nat
         /\ IsFiniteSet(P)
         /\ Cardinality({t[i].id : i \in P}) <= Cardinality(P)
<1> DEFINE f == [i \in P |-> t[i].id]
           T == {t[i].id : i \in P}
<1>1. IsFiniteSet(P)
  <2>1. IsFiniteSet(1 .. n)
      BY FS_Interval
  <2> QED BY <2>1, FS_Subset
<1>2. f \in Surjection(P, T)
    BY DEF Surjection
<1>3. IsFiniteSet(T) /\ Cardinality(T) <= Cardinality(P)
    BY <1>1, <1>2, FS_Surjection
<1>4. Cardinality(T) \in Nat
    BY <1>3, FS_CardinalityType
<1> QED BY <1>1, <1>3, <1>4

(* What a list matches is a finite set, and so is every part of it. *)
LEMMA MatchesAreFinite ==
  ASSUME table \in Seq(Row), NEW P \in SUBSET DOMAIN table
  PROVE  IsFiniteSet(Ids(P)) /\ Cardinality(Ids(P)) \in Nat
<1>1. DOMAIN table = 1 .. Len(table) /\ Len(table) \in Nat
    OBVIOUS
<1> QED BY <1>1, IdsAreFinite DEF Ids

(* A place is a number from 1 up to the number of rows that match. *)
LEMMA PlaceIsAPosition ==
  ASSUME table \in Seq(Row), NEW k \in Listing
  PROVE  /\ Place(k) \in Nat /\ Place(k) >= 1
         /\ IsFiniteSet(Matches) /\ Cardinality(Matches) \in Nat
         /\ Place(k) <= Cardinality(Matches)
<1> DEFINE P == {j \in Listing : Precedes(j, k)}
<1>1. P \in SUBSET DOMAIN table /\ Listing \in SUBSET DOMAIN table /\ P \subseteq Listing
    BY DEF Listing
<1>2. IsFiniteSet(Ids(P)) /\ Place(k) \in Nat
    BY <1>1, MatchesAreFinite DEF Place, UpTo
<1>3. IsFiniteSet(Matches) /\ Cardinality(Matches) \in Nat
    BY <1>1, MatchesAreFinite DEF Matches
<1>4. Ids(P) \subseteq Matches
    BY <1>1 DEF Ids, Matches
<1>5. Place(k) <= Cardinality(Matches)
    BY <1>3, <1>4, FS_Subset DEF Place, UpTo
<1>6. k \in P
  <2>1. k \in Int
      BY DEF Listing
  <2> QED BY <2>1 DEF Precedes
<1>7. Ids(P) # {}
    BY <1>6 DEF Ids
<1>8. Place(k) # 0
    BY <1>2, <1>7, FS_EmptySet DEF Place, UpTo
<1> QED BY <1>2, <1>3, <1>5, <1>8

(* No two rows share a place. *)
LEMMA PlacesDiffer ==
  ASSUME table \in Seq(Row), \A i, j \in DOMAIN table : table[i].id = table[j].id => i = j,
         NEW i \in Listing, NEW j \in Listing, Place(i) = Place(j)
  PROVE  i = j
<1>1. ASSUME NEW x \in Listing, NEW y \in Listing, Precedes(x, y), x # y
      PROVE  Place(x) # Place(y)
  <2> DEFINE X == {n \in Listing : Precedes(n, x)}
             Y == {n \in Listing : Precedes(n, y)}
  <2>1. \A n \in Listing : n \in DOMAIN table /\ n \in Int
      BY DEF Listing
  <2>2. X \subseteq Y /\ y \in Y /\ y \notin X
      BY <1>1, <2>1 DEF Precedes
  <2>3. table[y].id \in Ids(Y) /\ Ids(X) \subseteq Ids(Y)
      BY <2>2 DEF Ids
  <2>4. table[y].id \notin Ids(X)
      BY <2>1, <2>2 DEF Ids
  <2>5. IsFiniteSet(Ids(Y))
      BY <2>1, MatchesAreFinite
  <2>6. Cardinality(Ids(X)) # Cardinality(Ids(Y))
      BY <2>3, <2>4, <2>5, FS_Subset
  <2> QED BY <2>6 DEF Place, UpTo
<1>2. i \in Int /\ j \in Int
    BY DEF Listing
<1>3. Precedes(i, j) \/ Precedes(j, i)
    BY <1>2 DEF Precedes
<1> QED BY <1>1, <1>3

(* A page is never longer than its limit. *)
LEMMA PageFits ==
  ASSUME table \in Seq(Row), \A i, j \in DOMAIN table : table[i].id = table[j].id => i = j,
         NEW m \in Nat, NEW l \in Nat
  PROVE  Cardinality(Ids({i \in Listing : m < Place(i) /\ Place(i) <= m + l})) <= l
<1> DEFINE P == {i \in Listing : m < Place(i) /\ Place(i) <= m + l}
           T == m + 1 .. m + l
           f == [i \in P |-> Place(i)]
<1>1. P \in SUBSET DOMAIN table /\ DOMAIN table = 1 .. Len(table) /\ Len(table) \in Nat
    BY DEF Listing
<1>2. IsFiniteSet(P) /\ Cardinality(Ids(P)) <= Cardinality(P) /\ Cardinality(Ids(P)) \in Nat
    BY <1>1, IdsAreFinite DEF Ids
<1>3. \A i \in P : Place(i) \in T
    BY PlaceIsAPosition
<1>4. f \in Injection(P, T)
  <2>1. f \in [P -> T]
      BY <1>3
  <2>2. \A i, j \in P : f[i] = f[j] => i = j
      BY PlacesDiffer
  <2> QED BY <2>1, <2>2 DEF Injection, IsInjective
<1>5. IsFiniteSet(T) /\ Cardinality(T) = l
  <2>1. /\ IsFiniteSet(m + 1 .. m + l)
        /\ Cardinality(m + 1 .. m + l) = IF m + 1 > m + l THEN 0 ELSE (m + l) - (m + 1) + 1
      BY FS_Interval
  <2> QED BY <2>1
<1>6. Cardinality(P) <= l
    BY <1>4, <1>5, FS_Injection
<1>7. Cardinality(P) \in Nat
    BY <1>2, FS_CardinalityType
<1> QED BY <1>2, <1>6, <1>7

(* The ids listed after the first n. *)
Behind(n) == Ids({i \in Listing : Place(i) > n})

Outside ==
  /\ stage # "paging" => found = Unknown /\ total = Unknown
  /\ stage = "before" => owed = {} /\ page = 1

OwedIsListed == owed \subseteq Matches

(* What is owed and was not shown stands behind the pages that were read. *)
Ahead ==
  stage = "paging" /\ ~excused =>
    /\ found = Unknown => owed \ seen \subseteq Behind(Skip)
    /\ found # Unknown => owed \ (seen \cup found) \subseteq Behind(Skip + list.limit)

(* Nothing is behind a last page, nor will be behind one that is read      *)
(* after its total was counted.                                            *)
LastPage ==
  stage = "paging" /\ ~excused =>
    /\ found # Unknown /\ total # Unknown /\ page >= TotalPages => owed \subseteq seen \cup found
    /\ Outdated => Cardinality(Matches) <= total

BrowsingIInv ==
  /\ BrowsingTypeOK /\ Outside /\ OwedIsListed /\ Ahead /\ LastPage /\ NothingMissed

(* Nothing is listed yet, and nobody was shown anything. *)
LEMMA BrowsingInitIInv == BrowsingInit => BrowsingIInv
<1> SUFFICES ASSUME BrowsingInit PROVE BrowsingIInv
    OBVIOUS
<1>1. list.limit \in 1 .. MaxLimit
  <2>1. \A n \in Limits : Limit(n) \in 1 .. MaxLimit
      BY LimitsAssumption DEF Limit, AtLeast, AtMost
  <2> QED BY <2>1 DEF BrowsingInit
<1>2. /\ table = <<>> /\ used = {} /\ stage = "before" /\ page = 1 /\ found = Unknown
      /\ total = Unknown /\ seen = {} /\ owed = {} /\ excused = FALSE
    BY DEF BrowsingInit
<1>3. BrowsingTypeOK
  <2>1. table \in Seq(Row) /\ DOMAIN table = {} /\ Ids(DOMAIN table) = {}
      BY <1>2 DEF Ids
  <2>2. \A i, j \in DOMAIN table : table[i].id = table[j].id => i = j
      BY <2>1
  <2>3. /\ used \subseteq Rows /\ Ids(DOMAIN table) \subseteq used
        /\ seen \subseteq used /\ owed \subseteq Ids(DOMAIN table)
      BY <1>2, <2>1
  <2>4. stage \in {"before", "paging", "done"} /\ page \in Nat \ {0}
      BY <1>2
  <2>5. excused \in BOOLEAN /\ found = Unknown /\ total = Unknown
      BY <1>2
  <2> QED BY <1>1, <2>1, <2>2, <2>3, <2>4, <2>5, Zenon DEF BrowsingTypeOK
<1> QED BY <1>2, <1>3 DEF BrowsingIInv, Outside, OwedIsListed, Ahead, LastPage, NothingMissed

(* The same list and the same table have the same rows at the same places. *)
LEMMA SameListing ==
  ASSUME UNCHANGED <<list, table>>
  PROVE  /\ Listing' = Listing /\ Matches' = Matches
         /\ \A P : Ids(P)' = Ids(P)
         /\ \A i : Place(i)' = Place(i)
         /\ \A n : Behind(n)' = Behind(n)
<1>1. \A i \in DOMAIN table : Listed(table[i])' <=> Listed(table[i])
    BY DEF Listed, ListedRestaurant, ListedMeal, ListedOrder
<1>2. Listing' = Listing
    BY <1>1 DEF Listing
<1>3. \A P : Ids(P)' = Ids(P)
    BY DEF Ids
<1>4. \A i : UpTo(i)' = UpTo(i)
    BY <1>2, <1>3 DEF UpTo, Precedes
<1>5. \A i : Place(i)' = Place(i)
    BY <1>4 DEF Place
<1>6. \A n : Behind(n)' = Behind(n)
    BY <1>2, <1>3, <1>5 DEF Behind
<1> QED BY <1>2, <1>3, <1>5, <1>6 DEF Matches

(* Places are numbers in the changed table too. *)
LEMMA NextPlaceIsANumber ==
  ASSUME table' \in Seq(Row), NEW k
  PROVE  Place(k)' \in Nat
<1> DEFINE P == {j \in Listing' : Precedes(j, k)'}
<1>1. P \in SUBSET (1 .. Len(table')) /\ Len(table') \in Nat
    BY DEF Listing
<1>2. Place(k)' = Cardinality({table'[i].id : i \in P})
    BY DEF Place, UpTo, Ids
<1> QED BY <1>1, <1>2, IdsAreFinite

(* The table changes while the client pages: every row that is owed keeps  *)
(* its place or is moved back, and an outdated total is no row short.      *)
LEMMA TableIInv ==
  ASSUME BrowsingIInv, BrowsingTypeOK', stage # "done",
         UNCHANGED <<list, stage, page, found, total, seen>>,
         owed' \subseteq owed, excused => excused',
         \A k \in Listing : table[k].id \in owed' =>
           \E n \in Listing' :
             /\ table'[n].id = table[k].id
             /\ stage = "paging" /\ ~excused' => Place(k) <= Place(n)',
         stage = "paging" /\ ~excused' /\ Outdated => Matches' \subseteq Matches
  PROVE  BrowsingIInv'
<1> USE DEF BrowsingIInv
<1>1. /\ table \in Seq(Row) /\ list.limit \in Nat /\ page \in Nat /\ page - 1 \in Nat
      /\ table' \in Seq(Row)
    BY LimitsAssumption DEF BrowsingTypeOK
<1>2. OwedIsListed'
  <2> SUFFICES ASSUME NEW r \in owed' PROVE r \in Matches'
      BY DEF OwedIsListed
  <2>1. r \in Matches
      BY DEF OwedIsListed
  <2>2. PICK k \in Listing : table[k].id = r
      BY <2>1 DEF Matches, Ids
  <2>3. PICK n \in Listing' : table'[n].id = r
      BY <2>2
  <2> QED BY <2>3 DEF Matches, Ids
<1>3. ASSUME stage = "paging", ~excused', NEW m \in Nat, NEW r \in owed', r \in Behind(m)
      PROVE  r \in Behind(m)'
  <2>1. PICK k \in Listing : table[k].id = r /\ Place(k) > m
      BY <1>3 DEF Behind, Ids
  <2>2. PICK n \in Listing' : table'[n].id = r /\ Place(k) <= Place(n)'
      BY <1>3, <2>1
  <2>3. Place(k) \in Nat
      BY <1>1, PlaceIsAPosition
  <2>4. Place(n)' \in Nat
      BY <1>1, NextPlaceIsANumber
  <2>5. Place(n)' > m
      BY <2>1, <2>2, <2>3, <2>4
  <2> QED BY <2>2, <2>5 DEF Behind, Ids
<1>4. Outside'
    BY DEF Outside
<1>5. NothingMissed'
    BY DEF NothingMissed
<1>6. Ahead'
  <2> SUFFICES ASSUME stage = "paging", ~excused'
               PROVE  /\ found = Unknown => owed' \ seen \subseteq Behind(Skip)'
                      /\ found # Unknown =>
                           owed' \ (seen \cup found) \subseteq Behind(Skip + list.limit)'
      BY DEF Ahead
  <2>1. PICK a \in Nat, b \in Nat : a = Skip /\ b = Skip + list.limit
      BY <1>1 DEF Skip
  <2>2. a = Skip' /\ b = (Skip + list.limit)'
      BY <2>1 DEF Skip
  <2>3. /\ found = Unknown => owed \ seen \subseteq Behind(a)
        /\ found # Unknown => owed \ (seen \cup found) \subseteq Behind(b)
      BY <2>1 DEF Ahead
  <2>4. /\ found = Unknown => owed' \ seen \subseteq Behind(a)'
        /\ found # Unknown => owed' \ (seen \cup found) \subseteq Behind(b)'
      BY <1>3, <2>3
  <2> QED BY <2>2, <2>4 DEF Behind
<1>7. LastPage'
  <2> SUFFICES ASSUME stage = "paging", ~excused'
               PROVE  /\ found # Unknown /\ total # Unknown /\ page >= TotalPages
                           => owed' \subseteq seen \cup found
                      /\ Outdated => Cardinality(Matches') <= total
      BY DEF LastPage, Outdated, TotalPages
  <2>1. found # Unknown /\ total # Unknown /\ page >= TotalPages => owed' \subseteq seen \cup found
      BY DEF LastPage
  <2>2. ASSUME Outdated PROVE Cardinality(Matches') <= total
    <3>1. Cardinality(Matches) <= total /\ Matches' \subseteq Matches /\ total \in Nat
        BY <2>2 DEF LastPage, BrowsingTypeOK, Outdated
    <3>2. IsFiniteSet(Matches) /\ Cardinality(Matches) \in Nat
        BY <1>1, MatchesAreFinite DEF Matches, Listing
    <3>3. Cardinality(Matches') \in Nat /\ Cardinality(Matches') <= Cardinality(Matches)
        BY <3>1, <3>2, FS_Subset, FS_CardinalityType
    <3> QED BY <3>1, <3>2, <3>3
  <2> QED BY <2>1, <2>2
<1> QED BY <1>2, <1>4, <1>5, <1>6, <1>7

(* Whatever precedes the row in the old list precedes it in the new one:   *)
(* then its place grew or stayed.                                          *)
LEMMA PlaceGrows ==
  ASSUME table \in Seq(Row), table' \in Seq(Row), NEW k \in Listing, NEW n \in Listing',
         \A i \in Listing : Precedes(i, k) =>
           \E j \in Listing' : table'[j].id = table[i].id /\ Precedes(j, n)'
  PROVE  Place(k) <= Place(n)'
<1> DEFINE P == {i \in Listing : Precedes(i, k)}
           Q == {j \in Listing' : Precedes(j, n)'}
           New == {table'[j].id : j \in Q}
<1>1. UpTo(k) \subseteq New
    BY DEF UpTo, Ids
<1>2. Q \in SUBSET (1 .. Len(table')) /\ Len(table') \in Nat
    BY DEF Listing
<1>3. IsFiniteSet(New)
    BY <1>2, IdsAreFinite
<1>4. Cardinality(UpTo(k)) <= Cardinality(New)
    BY <1>1, <1>3, FS_Subset
<1>5. Place(n)' = Cardinality(New)
    BY DEF Place, UpTo, Ids
<1> QED BY <1>4, <1>5 DEF Place

(* One list behind another. *)
LEMMA Concatenated ==
  ASSUME NEW S, NEW a \in Seq(S), NEW b \in Seq(S)
  PROVE  /\ a \o b \in Seq(S)
         /\ Len(a \o b) = Len(a) + Len(b)
         /\ \A j \in 1 .. Len(a) + Len(b) :
              (a \o b)[j] = IF j <= Len(a) THEN a[j] ELSE b[j - Len(a)]
  OBVIOUS

(* Removing a position moves those behind it one to the front. *)
LEMMA Removed ==
  ASSUME NEW S, NEW s \in Seq(S), NEW i \in 1 .. Len(s)
  PROVE  /\ RemoveAt(s, i) \in Seq(S)
         /\ Len(RemoveAt(s, i)) = Len(s) - 1
         /\ \A j \in 1 .. Len(s) - 1 : RemoveAt(s, i)[j] = IF j < i THEN s[j] ELSE s[j + 1]
<1> DEFINE a == SubSeq(s, 1, i - 1)
           b == SubSeq(s, i + 1, Len(s))
           c == a \o b
<1>1. Len(s) \in Nat /\ i \in Nat /\ i >= 1 /\ i <= Len(s)
    OBVIOUS
<1>2. a \in Seq(S) /\ Len(a) = i - 1 /\ \A j \in 1 .. i - 1 : a[j] = s[j]
    OBVIOUS
<1>3. b \in Seq(S) /\ Len(b) = Len(s) - i /\ \A j \in 1 .. Len(s) - i : b[j] = s[i + j]
    OBVIOUS
<1>4. RemoveAt(s, i) = c
    BY DEF RemoveAt
<1> HIDE DEF a, b
<1>5. /\ c \in Seq(S) /\ Len(c) = Len(a) + Len(b)
      /\ \A j \in 1 .. Len(a) + Len(b) : c[j] = IF j <= Len(a) THEN a[j] ELSE b[j - Len(a)]
    BY <1>2, <1>3, Concatenated, Zenon
<1> HIDE DEF c
<1>6. Len(c) = Len(s) - 1 /\ Len(a) + Len(b) = Len(s) - 1
    BY <1>1, <1>2, <1>3, <1>5
<1>7. ASSUME NEW j \in 1 .. Len(s) - 1 PROVE c[j] = IF j < i THEN s[j] ELSE s[j + 1]
  <2>1. j \in Nat /\ c[j] = IF j <= Len(a) THEN a[j] ELSE b[j - Len(a)]
      BY <1>1, <1>5, <1>6
  <2>2. CASE j < i
      BY <1>1, <1>2, <2>1, <2>2
  <2>3. CASE j >= i
    <3>1. c[j] = b[j - (i - 1)] /\ j - (i - 1) \in 1 .. Len(s) - i
        BY <1>1, <1>2, <2>1, <2>3
    <3>2. b[j - (i - 1)] = s[i + (j - (i - 1))]
        BY <1>3, <3>1
    <3>3. i + (j - (i - 1)) = j + 1
        BY <1>1, <2>1
    <3> QED BY <1>1, <2>1, <2>3, <3>1, <3>2, <3>3
  <2> QED BY <1>1, <2>1, <2>2, <2>3
<1> QED BY <1>4, <1>5, <1>6, <1>7

(* A row is listed by what it holds, as long as the list is the same one. *)
LEMMA ListedRows ==
  ASSUME list' = list, NEW j
  PROVE  j \in Listing' <=> j \in DOMAIN table' /\ Listed(table'[j])
    BY DEF Listing, Listed, ListedRestaurant, ListedMeal, ListedOrder

(* Where a position goes when position i is removed, and where it was. *)
Shift(x, i) == IF x < i THEN x ELSE x - 1
Back(j, i) == IF j < i THEN j ELSE j + 1

(* Removing position i keeps every other element, in the same order. *)
LEMMA Shifted ==
  ASSUME NEW S, NEW s \in Seq(S), NEW i \in 1 .. Len(s)
  PROVE  /\ RemoveAt(s, i) \in Seq(S) /\ Len(RemoveAt(s, i)) = Len(s) - 1
         /\ \A x \in DOMAIN s : x # i =>
              Shift(x, i) \in 1 .. Len(s) - 1 /\ RemoveAt(s, i)[Shift(x, i)] = s[x]
         /\ \A j \in 1 .. Len(s) - 1 :
              Back(j, i) \in DOMAIN s /\ Back(j, i) # i /\ RemoveAt(s, i)[j] = s[Back(j, i)]
<1>1. Len(s) \in Nat /\ DOMAIN s = 1 .. Len(s) /\ i \in Nat /\ i >= 1 /\ i <= Len(s)
    OBVIOUS
<1>2. PICK t \in Seq(S) : /\ t = RemoveAt(s, i) /\ Len(t) = Len(s) - 1
                          /\ \A j \in 1 .. Len(s) - 1 : t[j] = IF j < i THEN s[j] ELSE s[j + 1]
    BY Removed
<1>3. ASSUME NEW x \in DOMAIN s, x # i
      PROVE  Shift(x, i) \in 1 .. Len(s) - 1 /\ t[Shift(x, i)] = s[x]
  <2>1. CASE x < i
      BY <1>1, <1>2, <2>1 DEF Shift
  <2>2. CASE x > i
    <3>1. Shift(x, i) = x - 1 /\ x - 1 \in 1 .. Len(s) - 1 /\ ~(x - 1 < i) /\ (x - 1) + 1 = x
        BY <1>1, <2>2 DEF Shift
    <3>2. t[x - 1] = s[(x - 1) + 1]
        BY <1>2, <3>1
    <3> QED BY <3>1, <3>2
  <2> QED BY <1>1, <1>3, <2>1, <2>2
<1>4. ASSUME NEW j \in 1 .. Len(s) - 1
      PROVE  Back(j, i) \in DOMAIN s /\ Back(j, i) # i /\ t[j] = s[Back(j, i)]
    BY <1>1, <1>2 DEF Back
<1> QED BY <1>2, <1>3, <1>4

(* What a change of the table must keep for the types to stay right. *)
LEMMA TableTypeOK ==
  ASSUME BrowsingTypeOK, UNCHANGED <<list, stage, page, found, total, seen>>,
         table' \in Seq(Row),
         \A i, j \in DOMAIN table' : table'[i].id = table'[j].id => i = j,
         used \subseteq used', used' \subseteq Rows,
         \A j \in DOMAIN table' : table'[j].id \in used',
         \A r \in owed' : \E j \in DOMAIN table' : table'[j].id = r,
         excused' \in BOOLEAN
  PROVE  BrowsingTypeOK'
<1>1. Ids(DOMAIN table)' \subseteq used' /\ owed' \subseteq Ids(DOMAIN table)'
    BY DEF Ids
<1>2. /\ list'.limit \in 1 .. MaxLimit /\ stage' \in {"before", "paging", "done"}
      /\ page' \in Nat \ {0} /\ seen' \subseteq used'
    BY DEF BrowsingTypeOK
<1>3. found' # Unknown => found' \subseteq used' /\ Cardinality(found') <= list'.limit
    BY DEF BrowsingTypeOK
<1>4. total' # Unknown => total' \in Nat
    BY DEF BrowsingTypeOK
<1> QED BY <1>1, <1>2, <1>3, <1>4, Zenon DEF BrowsingTypeOK

(* Create adds its row at the end. *)
LEMMA CreateIInv ==
  ASSUME BrowsingIInv, NEW id \in Rows, NEW open \in BOOLEAN, NEW mine \in BOOLEAN,
         Create(id, open, mine)
  PROVE  BrowsingIInv'
<1> DEFINE row == [id |-> id, open |-> open, mine |-> mine]
<1>1. /\ id \notin used /\ used' = used \cup {id} /\ table' = Append(table, row)
      /\ UNCHANGED <<list, stage, page, found, total, seen, owed>> /\ stage # "done"
      /\ excused' = (excused \/ (stage = "paging" /\ Listed(row) /\ Outdated))
    BY DEF Create, Disturb
<1>2. /\ table \in Seq(Row) /\ Len(table) \in Nat /\ DOMAIN table = 1 .. Len(table)
      /\ \A i, j \in DOMAIN table : table[i].id = table[j].id => i = j
      /\ used \subseteq Rows /\ excused \in BOOLEAN
      /\ \A i \in DOMAIN table : table[i].id \in used
      /\ \A r \in owed : \E j \in DOMAIN table : table[j].id = r
    BY DEF BrowsingIInv, BrowsingTypeOK, Ids
<1>3. row \in Row /\ row.id = id
    BY DEF Row
<1> HIDE DEF row
<1>4. /\ table' \in Seq(Row) /\ DOMAIN table' = 1 .. Len(table) + 1
      /\ \A j \in DOMAIN table : table'[j] = table[j]
      /\ table'[Len(table) + 1] = row
    BY <1>1, <1>2, <1>3
<1>5. \A j \in DOMAIN table' : j \in DOMAIN table \/ j = Len(table) + 1
    BY <1>2, <1>4
<1>6. \A j \in DOMAIN table : j \in DOMAIN table'
    BY <1>2, <1>4
<1>7. BrowsingTypeOK'
  <2>1. \A i, j \in DOMAIN table' : table'[i].id = table'[j].id => i = j
      BY <1>1, <1>2, <1>3, <1>4, <1>5
  <2>2. \A j \in DOMAIN table' : table'[j].id \in used'
      BY <1>1, <1>2, <1>3, <1>4, <1>5
  <2>3. \A r \in owed' : \E j \in DOMAIN table' : table'[j].id = r
      BY <1>1, <1>2, <1>4, <1>6
  <2>4. used \subseteq used' /\ used' \subseteq Rows /\ excused' \in BOOLEAN
      BY <1>1, <1>2
  <2> QED BY <1>1, <1>4, <2>1, <2>2, <2>3, <2>4, TableTypeOK DEF BrowsingIInv
<1>8. \A j \in Listing : j \in Listing' /\ table'[j].id = table[j].id
    BY <1>1, <1>4, <1>6, ListedRows DEF Listing
<1>9. \A k \in Listing : Place(k) <= Place(k)'
    BY <1>1, <1>2, <1>4, <1>8, PlaceGrows DEF Precedes
<1>10. ASSUME stage = "paging", ~excused', Outdated PROVE Matches' \subseteq Matches
  <2>1. ~Listed(row)
      BY <1>1, <1>10
  <2>2. ASSUME NEW j \in Listing' PROVE j \in Listing /\ table'[j] = table[j]
      BY <1>1, <1>4, <1>5, <2>1, ListedRows DEF Listing
  <2> QED BY <2>2 DEF Matches, Ids
<1> QED BY <1>1, <1>7, <1>8, <1>9, <1>10, TableIInv

(* Delete takes a row out of the table. *)
LEMMA DeleteIInv ==
  ASSUME BrowsingIInv, NEW i \in DOMAIN table, Delete(i)
  PROVE  BrowsingIInv'
<1>1. /\ table' = RemoveAt(table, i) /\ owed' = owed \ {table[i].id} /\ stage # "done"
      /\ UNCHANGED <<list, used, stage, page, found, total, seen>>
      /\ excused' = (excused \/ (stage = "paging" /\ Listed(table[i])))
    BY DEF Delete, Disturb
<1>2. /\ table \in Seq(Row) /\ Len(table) \in Nat /\ DOMAIN table = 1 .. Len(table)
      /\ \A x, y \in DOMAIN table : table[x].id = table[y].id => x = y
      /\ used \subseteq Rows /\ excused \in BOOLEAN
      /\ \A x \in DOMAIN table : table[x].id \in used
      /\ \A r \in owed : \E j \in DOMAIN table : table[j].id = r
    BY DEF BrowsingIInv, BrowsingTypeOK, Ids
<1>3. /\ table' \in Seq(Row) /\ DOMAIN table' = 1 .. Len(table) - 1
      /\ \A x \in DOMAIN table : x # i =>
           Shift(x, i) \in DOMAIN table' /\ table'[Shift(x, i)] = table[x]
      /\ \A j \in DOMAIN table' :
           Back(j, i) \in DOMAIN table /\ Back(j, i) # i /\ table'[j] = table[Back(j, i)]
  <2>1. /\ table' \in Seq(Row) /\ Len(table') = Len(table) - 1
        /\ \A x \in DOMAIN table : x # i =>
             Shift(x, i) \in 1 .. Len(table) - 1 /\ table'[Shift(x, i)] = table[x]
        /\ \A j \in 1 .. Len(table) - 1 :
             Back(j, i) \in DOMAIN table /\ Back(j, i) # i /\ table'[j] = table[Back(j, i)]
    <3>1. i \in 1 .. Len(table) /\ table \in Seq(Row)
        BY <1>2
    <3>2. /\ RemoveAt(table, i) \in Seq(Row) /\ Len(RemoveAt(table, i)) = Len(table) - 1
          /\ \A x \in DOMAIN table : x # i =>
               Shift(x, i) \in 1 .. Len(table) - 1 /\ RemoveAt(table, i)[Shift(x, i)] = table[x]
          /\ \A j \in 1 .. Len(table) - 1 :
               /\ Back(j, i) \in DOMAIN table /\ Back(j, i) # i
               /\ RemoveAt(table, i)[j] = table[Back(j, i)]
        BY <3>1, Shifted, Zenon
    <3> QED BY <1>1, <3>2, Zenon
  <2>2. DOMAIN table' = 1 .. Len(table) - 1
      BY <2>1
  <2> QED BY <2>1, <2>2
<1>4. \A x, y \in DOMAIN table' : Back(x, i) = Back(y, i) => x = y
    BY <1>2, <1>3 DEF Back
<1>5. BrowsingTypeOK'
  <2>1. \A x, y \in DOMAIN table' : table'[x].id = table'[y].id => x = y
      BY <1>2, <1>3, <1>4
  <2>2. \A j \in DOMAIN table' : table'[j].id \in used'
      BY <1>1, <1>2, <1>3
  <2>3. \A r \in owed' : \E j \in DOMAIN table' : table'[j].id = r
      BY <1>1, <1>2, <1>3
  <2>4. used \subseteq used' /\ used' \subseteq Rows /\ excused' \in BOOLEAN
      BY <1>1, <1>2
  <2> QED BY <1>1, <1>3, <2>1, <2>2, <2>3, <2>4, TableTypeOK DEF BrowsingIInv
<1>6. \A x \in Listing : x # i => Shift(x, i) \in Listing' /\ table'[Shift(x, i)] = table[x]
    BY <1>1, <1>3, ListedRows DEF Listing
<1>7. ASSUME stage = "paging", ~excused', NEW k \in Listing, k # i
      PROVE  Place(k) <= Place(Shift(k, i))'
  <2>1. i \notin Listing
      BY <1>1, <1>7 DEF Listing
  <2>2. \A x \in Listing : Precedes(x, k) => Precedes(Shift(x, i), Shift(k, i))'
      BY <1>1, <1>2, <1>7, <2>1 DEF Precedes, Shift, Listing
  <2> QED BY <1>1, <1>2, <1>3, <1>6, <1>7, <2>1, <2>2, PlaceGrows
<1>8. Matches' \subseteq Matches
  <2>1. ASSUME NEW j \in Listing' PROVE Back(j, i) \in Listing /\ table'[j] = table[Back(j, i)]
      BY <1>1, <1>3, ListedRows DEF Listing
  <2> QED BY <2>1 DEF Matches, Ids
<1>9. \A k \in Listing : table[k].id \in owed' => k # i
    BY <1>1
<1> QED BY <1>1, <1>5, <1>6, <1>7, <1>8, <1>9, TableIInv

(* What an edit does, and what is known of the row it writes. *)
LEMMA EditFacts ==
  ASSUME BrowsingIInv, NEW i \in DOMAIN table, NEW open \in BOOLEAN, Edit(i, open)
  PROVE  LET row == [table[i] EXCEPT !.open = open]
         IN  /\ row \in Row /\ row.id = table[i].id
             /\ stage # "done"
             /\ UNCHANGED <<list, used, stage, page, found, total, seen>>
             /\ excused => excused'
             /\ ~excused' /\ stage = "paging" =>
                  /\ Listed(table[i]) => Listed(row)
                  /\ ~(Listed(table[i]) /\ list.sortBy = "updatedAt" /\ list.sortOrder = "asc")
                  /\ ~(Listed(row) /\ (list.sortBy = "updatedAt" \/ ~Listed(table[i])) /\ Outdated)
             /\ excused' \in BOOLEAN
             /\ owed' \subseteq owed
             /\ Listed(table[i]) /\ row.id \in owed' => Listed(row) /\ list.sortBy # "updatedAt"
             /\ list.sortBy = "updatedAt" => row.id \notin owed'
             /\ table' = IF list.sortBy = "updatedAt" THEN Append(RemoveAt(table, i), row)
                                                      ELSE [table EXCEPT ![i] = row]
<1> DEFINE row == [table[i] EXCEPT !.open = open]
<1>1. row \in Row /\ row.id = table[i].id
  <2>1. table[i] \in Row
      BY DEF BrowsingIInv, BrowsingTypeOK
  <2> QED BY <2>1 DEF Row
<1>2. excused \in BOOLEAN
    BY DEF BrowsingIInv, BrowsingTypeOK
<1> HIDE DEF row
<1>3. /\ table' = IF list.sortBy = "updatedAt" THEN Append(RemoveAt(table, i), row)
                                               ELSE [table EXCEPT ![i] = row]
      /\ owed' = IF list.sortBy = "updatedAt" \/ (Listed(table[i]) /\ ~Listed(row))
                 THEN owed \ {row.id} ELSE owed
      /\ stage # "done"
      /\ excused' = (\/ excused
                     \/ /\ stage = "paging"
                        /\ \/ Listed(table[i]) /\ ~Listed(row)
                           \/ /\ Listed(table[i])
                              /\ list.sortBy = "updatedAt" /\ list.sortOrder = "asc"
                           \/ /\ Listed(row) /\ (list.sortBy = "updatedAt" \/ ~Listed(table[i]))
                              /\ Outdated)
      /\ UNCHANGED <<list, used, stage, page, found, total, seen>>
    BY DEF Edit, Disturb, row
<1>4. /\ excused => excused'
      /\ ~excused' /\ stage = "paging" =>
           /\ Listed(table[i]) => Listed(row)
           /\ ~(Listed(table[i]) /\ list.sortBy = "updatedAt" /\ list.sortOrder = "asc")
           /\ ~(Listed(row) /\ (list.sortBy = "updatedAt" \/ ~Listed(table[i])) /\ Outdated)
    BY <1>2, <1>3, Zenon
<1>5. excused' \in BOOLEAN
    BY <1>2, <1>3
<1>6. /\ owed' \subseteq owed
      /\ Listed(table[i]) /\ row.id \in owed' => Listed(row) /\ list.sortBy # "updatedAt"
      /\ list.sortBy = "updatedAt" => row.id \notin owed'
    BY <1>3
<1> QED BY <1>1, <1>3, <1>4, <1>5, <1>6 DEF row

(* An edit leaves the row where it is, if the list is not sorted by it. *)
LEMMA EditInPlaceIInv ==
  ASSUME BrowsingIInv, NEW i \in DOMAIN table, NEW open \in BOOLEAN, Edit(i, open),
         list.sortBy # "updatedAt"
  PROVE  BrowsingIInv'
<1> DEFINE row == [table[i] EXCEPT !.open = open]
<1>1. /\ row \in Row /\ row.id = table[i].id /\ stage # "done"
      /\ UNCHANGED <<list, used, stage, page, found, total, seen>>
      /\ excused => excused'
      /\ ~excused' /\ stage = "paging" =>
           /\ Listed(table[i]) => Listed(row)
           /\ ~(Listed(row) /\ ~Listed(table[i]) /\ Outdated)
      /\ excused' \in BOOLEAN /\ owed' \subseteq owed
      /\ Listed(table[i]) /\ row.id \in owed' => Listed(row)
      /\ table' = [table EXCEPT ![i] = row]
    BY EditFacts
<1> HIDE DEF row
<1>2. /\ table \in Seq(Row) /\ Len(table) \in Nat /\ DOMAIN table = 1 .. Len(table)
      /\ \A x, y \in DOMAIN table : table[x].id = table[y].id => x = y
      /\ used \subseteq Rows
      /\ \A x \in DOMAIN table : table[x].id \in used
      /\ \A r \in owed : \E j \in DOMAIN table : table[j].id = r
    BY DEF BrowsingIInv, BrowsingTypeOK, Ids
<1>3. /\ table' \in Seq(Row) /\ DOMAIN table' = DOMAIN table /\ table'[i] = row
      /\ \A j \in DOMAIN table : j # i => table'[j] = table[j]
      /\ \A j \in DOMAIN table : table'[j].id = table[j].id
    BY <1>1, <1>2
<1>4. BrowsingTypeOK'
  <2>1. /\ \A x, y \in DOMAIN table' : table'[x].id = table'[y].id => x = y
        /\ \A j \in DOMAIN table' : table'[j].id \in used'
        /\ \A r \in owed' : \E j \in DOMAIN table' : table'[j].id = r
        /\ used \subseteq used' /\ used' \subseteq Rows
      BY <1>1, <1>2, <1>3
  <2> QED BY <1>1, <1>3, <2>1, TableTypeOK DEF BrowsingIInv
<1>5. \A j \in Listing : (j = i => Listed(row)) => j \in Listing'
    BY <1>1, <1>3, ListedRows DEF Listing
<1>6. \A k \in Listing : table[k].id \in owed' => k \in Listing'
    BY <1>1, <1>5 DEF Listing
<1>7. ASSUME stage = "paging", ~excused', NEW k \in Listing PROVE Place(k) <= Place(k)'
  <2>1. \A j \in Listing : j \in Listing'
      BY <1>1, <1>5, <1>7 DEF Listing
  <2> QED BY <1>1, <1>2, <1>3, <2>1, PlaceGrows DEF Precedes, Listing
<1>8. ASSUME stage = "paging", ~excused', Outdated PROVE Matches' \subseteq Matches
  <2>1. \A j \in Listing' : j \in Listing
      BY <1>1, <1>3, <1>8, ListedRows DEF Listing
  <2> QED BY <1>3, <2>1 DEF Matches, Ids, Listing
<1>9. \A k \in Listing : table'[k].id = table[k].id
    BY <1>3 DEF Listing
<1> QED BY <1>1, <1>4, <1>6, <1>7, <1>8, <1>9, TableIInv

(* An edit moves the row to the end of a table that is sorted by it. *)
LEMMA EditMovesIInv ==
  ASSUME BrowsingIInv, NEW i \in DOMAIN table, NEW open \in BOOLEAN, Edit(i, open),
         list.sortBy = "updatedAt"
  PROVE  BrowsingIInv'
<1> DEFINE row == [table[i] EXCEPT !.open = open]
<1>1. /\ row \in Row /\ row.id = table[i].id /\ stage # "done"
      /\ UNCHANGED <<list, used, stage, page, found, total, seen>>
      /\ excused => excused'
      /\ ~excused' /\ stage = "paging" =>
           /\ Listed(table[i]) => Listed(row)
           /\ ~(Listed(table[i]) /\ list.sortOrder = "asc")
           /\ ~(Listed(row) /\ Outdated)
      /\ excused' \in BOOLEAN /\ owed' \subseteq owed
      /\ row.id \notin owed'
      /\ table' = Append(RemoveAt(table, i), row)
    BY EditFacts
<1> HIDE DEF row
<1>2. PICK n \in Nat :
      /\ table \in Seq(Row) /\ n = Len(table) /\ DOMAIN table = 1 .. n
      /\ i \in 1 .. n /\ n >= 1
      /\ \A x, y \in DOMAIN table : table[x].id = table[y].id => x = y
      /\ used \subseteq Rows
      /\ \A x \in DOMAIN table : table[x].id \in used
      /\ \A r \in owed : \E j \in DOMAIN table : table[j].id = r
    BY DEF BrowsingIInv, BrowsingTypeOK, Ids
<1>3. /\ table' \in Seq(Row) /\ DOMAIN table' = DOMAIN table /\ table'[n] = row
      /\ \A x \in DOMAIN table : x # i =>
           Shift(x, i) \in 1 .. n - 1 /\ table'[Shift(x, i)] = table[x]
      /\ \A j \in 1 .. n - 1 :
           Back(j, i) \in DOMAIN table /\ Back(j, i) # i /\ table'[j] = table[Back(j, i)]
  <2>1. i \in 1 .. Len(table) /\ table \in Seq(Row)
      BY <1>2
  <2>2. /\ RemoveAt(table, i) \in Seq(Row) /\ Len(RemoveAt(table, i)) = Len(table) - 1
        /\ \A x \in DOMAIN table : x # i =>
             Shift(x, i) \in 1 .. Len(table) - 1 /\ RemoveAt(table, i)[Shift(x, i)] = table[x]
        /\ \A j \in 1 .. Len(table) - 1 :
             /\ Back(j, i) \in DOMAIN table /\ Back(j, i) # i
             /\ RemoveAt(table, i)[j] = table[Back(j, i)]
      BY <2>1, Shifted, Zenon
  <2>3. PICK t : /\ t = RemoveAt(table, i) /\ t \in Seq(Row) /\ Len(t) = Len(table) - 1
                 /\ \A x \in DOMAIN table : x # i =>
                      Shift(x, i) \in 1 .. Len(table) - 1 /\ t[Shift(x, i)] = table[x]
                 /\ \A j \in 1 .. Len(table) - 1 :
                      Back(j, i) \in DOMAIN table /\ Back(j, i) # i /\ t[j] = table[Back(j, i)]
      BY <2>2, Zenon
  <2>4. table' = Append(t, row)
      BY <1>1, <2>3
  <2>5. /\ table' \in Seq(Row) /\ DOMAIN table' = 1 .. (Len(table) - 1) + 1
        /\ table'[(Len(table) - 1) + 1] = row
        /\ \A j \in 1 .. Len(table) - 1 : table'[j] = t[j]
      BY <1>1, <2>3, <2>4
  <2>6. (n - 1) + 1 = n
      BY <1>2
  <2> QED BY <1>2, <2>3, <2>5, <2>6
<1>4. \A j \in DOMAIN table' : j \in 1 .. n - 1 \/ j = n
    BY <1>2, <1>3
<1>5. n \in DOMAIN table' /\ \A j \in 1 .. n - 1 : j \in DOMAIN table' /\ j # n
  <2>1. n \in 1 .. n /\ \A j \in 1 .. n - 1 : j \in 1 .. n /\ j # n
      BY <1>2
  <2>2. DOMAIN table' = 1 .. n
      BY <1>2, <1>3
  <2> QED BY <2>1, <2>2
<1>6. \A x, y \in 1 .. n - 1 : Back(x, i) = Back(y, i) => x = y
    BY <1>2 DEF Back
<1>7. BrowsingTypeOK'
  <2>1. ASSUME NEW x \in DOMAIN table', NEW y \in DOMAIN table', table'[x].id = table'[y].id
        PROVE  x = y
    <3>1. CASE x \in 1 .. n - 1 /\ y \in 1 .. n - 1
      <4>1. /\ Back(x, i) \in DOMAIN table /\ table'[x] = table[Back(x, i)]
            /\ Back(y, i) \in DOMAIN table /\ table'[y] = table[Back(y, i)]
          BY <1>3, <3>1
      <4>2. table[Back(x, i)].id = table[Back(y, i)].id
          BY <2>1, <4>1
      <4>3. Back(x, i) = Back(y, i)
          BY <1>2, <4>1, <4>2
      <4> QED BY <1>6, <3>1, <4>3
    <3>2. CASE x = n /\ y = n
        BY <3>2
    <3>3. ASSUME NEW z \in 1 .. n - 1 PROVE table'[z].id # table'[n].id
      <4>1. /\ Back(z, i) \in DOMAIN table /\ Back(z, i) # i /\ table'[z] = table[Back(z, i)]
            /\ table'[n].id = table[i].id
          BY <1>1, <1>3
      <4>2. table[Back(z, i)].id # table[i].id
          BY <1>2, <4>1
      <4> QED BY <4>1, <4>2
    <3> QED BY <1>4, <2>1, <3>1, <3>2, <3>3
  <2>2. \A j \in DOMAIN table' : table'[j].id \in used'
      BY <1>1, <1>2, <1>3, <1>4
  <2>3. \A r \in owed' : \E j \in DOMAIN table' : table'[j].id = r
    <3> SUFFICES ASSUME NEW r \in owed' PROVE \E j \in DOMAIN table' : table'[j].id = r
        OBVIOUS
    <3>1. PICK j \in DOMAIN table : table[j].id = r /\ j # i
        BY <1>1, <1>2
    <3>2. Shift(j, i) \in DOMAIN table' /\ table'[Shift(j, i)] = table[j]
        BY <1>3, <1>5, <3>1
    <3> QED BY <3>1, <3>2
  <2>4. used \subseteq used' /\ used' \subseteq Rows
      BY <1>1, <1>2
  <2> QED BY <1>1, <1>3, <2>1, <2>2, <2>3, <2>4, TableTypeOK DEF BrowsingIInv
<1>8. \A x \in Listing : x # i => Shift(x, i) \in Listing' /\ table'[Shift(x, i)] = table[x]
    BY <1>1, <1>3, <1>5, ListedRows DEF Listing
<1>9. ASSUME stage = "paging", ~excused', NEW k \in Listing, k # i
      PROVE  Place(k) <= Place(Shift(k, i))'
  <2>1. \A x \in Listing : Precedes(x, k) /\ x # i => Precedes(Shift(x, i), Shift(k, i))'
      BY <1>1, <1>2, <1>9 DEF Precedes, Shift, Listing
  <2>2. i \in Listing => n \in Listing' /\ table'[n].id = table[i].id /\ Precedes(n, Shift(k, i))'
    <3>1. SUFFICES ASSUME i \in Listing
                   PROVE  n \in Listing' /\ table'[n].id = table[i].id /\ Precedes(n, Shift(k, i))'
        OBVIOUS
    <3>2. Listed(row) /\ list.sortOrder # "asc"
        BY <1>1, <1>9, <3>1 DEF Listing
    <3>3. n \in Listing' /\ table'[n].id = table[i].id
        BY <1>1, <1>3, <1>5, <3>2, ListedRows
    <3>4. Shift(k, i) \in 1 .. n - 1
        BY <1>3, <1>9 DEF Listing
    <3> QED BY <1>1, <1>2, <3>2, <3>3, <3>4 DEF Precedes
  <2>3. \A x \in Listing : Precedes(x, k) =>
          \E j \in Listing' : table'[j].id = table[x].id /\ Precedes(j, Shift(k, i))'
      BY <1>8, <2>1, <2>2
  <2> QED BY <1>2, <1>3, <1>8, <1>9, <2>3, PlaceGrows
<1>10. ASSUME stage = "paging", ~excused', Outdated PROVE Matches' \subseteq Matches
  <2>1. ASSUME NEW j \in Listing' PROVE Back(j, i) \in Listing /\ table'[j] = table[Back(j, i)]
      BY <1>1, <1>3, <1>4, <1>10, ListedRows DEF Listing
  <2> QED BY <2>1 DEF Matches, Ids
<1>11. \A k \in Listing : table[k].id \in owed' => k # i
    BY <1>1
<1> QED BY <1>1, <1>7, <1>8, <1>9, <1>10, <1>11, TableIInv

(* The last of the pages of t rows, or a later one, ends behind them all. *)
LEMMA PagesHoldTheRows ==
  ASSUME NEW t \in Nat, NEW l \in Nat, l >= 1, NEW p \in Nat, p >= (t + l - 1) \div l
  PROVE  t <= p * l
<1> DEFINE q == (t + l - 1) \div l
<1>1. q \in Nat /\ t + l - 1 < l * q + l /\ p - q \in Nat
    OBVIOUS
<1> HIDE DEF q
<1>2. l * q \in Nat /\ t <= l * q
    BY <1>1
<1>3. (p - q) * l \in Nat
    BY <1>1
<1>4. (p - q) * l = p * l - l * q
    BY <1>1
<1>5. p * l \in Nat
    OBVIOUS
<1> QED BY <1>2, <1>3, <1>4, <1>5

(* Where pages begin and end. *)
LEMMA SkipIsANumber ==
  ASSUME BrowsingTypeOK
  PROVE  /\ list.limit \in Nat /\ list.limit >= 1 /\ page \in Nat /\ page >= 1
         /\ Skip \in Nat /\ Skip + list.limit = page * list.limit /\ page * list.limit \in Nat
<1>1. PICK p \in Nat, l \in Nat : p = page /\ l = list.limit /\ p >= 1 /\ l >= 1
    BY LimitsAssumption DEF BrowsingTypeOK
<1>2. p - 1 \in Nat /\ (p - 1) * l \in Nat /\ (p - 1) * l + l = p * l /\ p * l \in Nat
    BY <1>1
<1> QED BY <1>1, <1>2 DEF Skip

(* No row is behind the last page of a total that is not too small. *)
LEMMA NothingBehindTheLast ==
  ASSUME BrowsingTypeOK, NEW t \in Nat, Cardinality(Matches) <= t,
         page >= (t + list.limit - 1) \div list.limit,
         NEW k \in Listing
  PROVE  Place(k) <= Skip + list.limit
<1>1. table \in Seq(Row)
    BY DEF BrowsingTypeOK
<1>2. /\ list.limit \in Nat /\ list.limit >= 1 /\ page \in Nat
      /\ Skip + list.limit = page * list.limit /\ page * list.limit \in Nat
    BY SkipIsANumber
<1>3. t <= page * list.limit
    BY <1>2, PagesHoldTheRows
<1>4. Place(k) \in Nat /\ Place(k) <= Cardinality(Matches) /\ Cardinality(Matches) \in Nat
    BY <1>1, PlaceIsAPosition
<1> QED BY <1>2, <1>3, <1>4

(* The client begins: all that it is owed is ahead of it. *)
LEMMA BeginIInv ==
  ASSUME BrowsingIInv, Begin
  PROVE  BrowsingIInv'
<1> USE DEF BrowsingIInv
<1>1. /\ stage = "before" /\ stage' = "paging" /\ owed' = Matches
      /\ UNCHANGED <<list, table, used, page, found, total, seen, excused>>
      /\ found = Unknown /\ total = Unknown /\ page = 1
    BY DEF Begin, Outside
<1>2. table \in Seq(Row) /\ list.limit \in Nat
    BY LimitsAssumption DEF BrowsingTypeOK
<1>3. Matches \subseteq Ids(DOMAIN table) /\ Matches' = Matches
  <2>1. Matches \subseteq Ids(DOMAIN table)
      BY DEF Matches, Ids, Listing
  <2> QED BY <1>1, <2>1, SameListing
<1>4. BrowsingTypeOK'
  <2>1. owed' \subseteq Ids(DOMAIN table)' /\ Ids(DOMAIN table)' \subseteq used'
    <3>1. Ids(DOMAIN table)' = Ids(DOMAIN table)
        BY <1>1 DEF Ids
    <3> QED BY <1>1, <1>3, <3>1 DEF BrowsingTypeOK
  <2>2. /\ list'.limit \in 1 .. MaxLimit /\ table' \in Seq(Row) /\ used' \subseteq Rows
        /\ \A i, j \in DOMAIN table' : table'[i].id = table'[j].id => i = j
        /\ page' \in Nat \ {0} /\ seen' \subseteq used' /\ excused' \in BOOLEAN
      BY <1>1 DEF BrowsingTypeOK
  <2>3. stage' \in {"before", "paging", "done"} /\ found' = Unknown /\ total' = Unknown
      BY <1>1
  <2> QED BY <2>1, <2>2, <2>3, Zenon DEF BrowsingTypeOK
<1>5. Ahead'
  <2>1. Skip' = 0
      BY <1>1, <1>2 DEF Skip
  <2>2. Matches \subseteq Behind(0)
    <3>1. \A k \in Listing : Place(k) > 0
        BY <1>2, PlaceIsAPosition
    <3> QED BY <3>1 DEF Matches, Ids, Behind
  <2>3. Matches \subseteq Behind(0)'
      BY <1>1, <2>2, SameListing
  <2>4. Matches \subseteq Behind(Skip)'
      BY <2>1, <2>3 DEF Behind
  <2> QED BY <1>1, <2>4 DEF Ahead
<1>6. OwedIsListed'
    BY <1>1, <1>3 DEF OwedIsListed
<1> QED BY <1>1, <1>4, <1>5, <1>6 DEF Outside, LastPage, NothingMissed, Outdated

(* A page is read: what is owed is on it or behind it. *)
LEMMA FindManyIInv ==
  ASSUME BrowsingIInv, FindMany
  PROVE  BrowsingIInv'
<1> USE DEF BrowsingIInv
<1>1. /\ stage = "paging" /\ found = Unknown
      /\ found' = Ids({i \in Listing : Skip < Place(i) /\ Place(i) <= Skip + list.limit})
      /\ UNCHANGED <<list, table, used, stage, page, total, seen, owed, excused>>
    BY DEF FindMany
<1>2. /\ table \in Seq(Row)
      /\ \A i, j \in DOMAIN table : table[i].id = table[j].id => i = j
      /\ list.limit \in Nat /\ Skip \in Nat /\ Skip + list.limit \in Nat
  <2>1. Skip \in Nat /\ list.limit \in Nat
      BY SkipIsANumber
  <2> QED BY <2>1 DEF BrowsingTypeOK
<1>3. found' \subseteq used /\ Cardinality(found') <= list.limit
  <2>1. Cardinality(found') <= list.limit
      BY <1>1, <1>2, PageFits
  <2>2. found' \subseteq Ids(DOMAIN table)
      BY <1>1 DEF Ids, Listing
  <2> QED BY <2>1, <2>2 DEF BrowsingTypeOK
<1>4. found' # Unknown
    BY <1>3, UnknownAssumption DEF BrowsingTypeOK
<1>5. BrowsingTypeOK'
  <2>1. Ids(DOMAIN table)' = Ids(DOMAIN table)
      BY <1>1 DEF Ids
  <2>2. /\ list'.limit \in 1 .. MaxLimit /\ table' \in Seq(Row) /\ used' \subseteq Rows
        /\ \A i, j \in DOMAIN table' : table'[i].id = table'[j].id => i = j
        /\ page' \in Nat \ {0} /\ seen' \subseteq used' /\ excused' \in BOOLEAN
        /\ owed' \subseteq Ids(DOMAIN table)' /\ Ids(DOMAIN table)' \subseteq used'
        /\ stage' \in {"before", "paging", "done"}
      BY <1>1, <2>1 DEF BrowsingTypeOK
  <2>3. found' # Unknown => found' \subseteq used' /\ Cardinality(found') <= list'.limit
      BY <1>1, <1>3
  <2>4. total' # Unknown => total' \in Nat
      BY <1>1 DEF BrowsingTypeOK
  <2> QED BY <2>2, <2>3, <2>4, Zenon DEF BrowsingTypeOK
<1>6. Ahead'
  <2> SUFFICES ASSUME ~excused PROVE owed \ (seen \cup found') \subseteq Behind(Skip + list.limit)'
      BY <1>1, <1>4 DEF Ahead
  <2>1. owed \ (seen \cup found') \subseteq Behind(Skip + list.limit)
    <3> SUFFICES ASSUME NEW r \in owed, r \notin seen, r \notin found'
                 PROVE  r \in Behind(Skip + list.limit)
        OBVIOUS
    <3>1. PICK k \in Listing : table[k].id = r /\ Place(k) > Skip
        BY <1>1 DEF Ahead, Behind, Ids
    <3>2. Place(k) \in Nat
        BY <1>2, PlaceIsAPosition
    <3>3. ~(Place(k) <= Skip + list.limit)
        BY <1>1, <1>2, <3>1, <3>2 DEF Ids
    <3> QED BY <1>2, <3>1, <3>2, <3>3 DEF Behind, Ids
  <2>2. \A n : Behind(n)' = Behind(n)
      BY <1>1, SameListing
  <2>3. PICK b : b = Skip + list.limit
      OBVIOUS
  <2>4. b = (Skip + list.limit)'
      BY <1>1, <2>3 DEF Skip
  <2>5. owed \ (seen \cup found') \subseteq Behind(b)'
      BY <2>1, <2>2, <2>3
  <2> QED BY <2>4, <2>5 DEF Behind
<1>7. LastPage'
  <2> SUFFICES ASSUME ~excused, total # Unknown, page >= TotalPages
               PROVE  owed \subseteq seen \cup found'
      BY <1>1, <1>4 DEF LastPage, Outdated, TotalPages
  <2>1. Cardinality(Matches) <= total /\ total \in Nat
      BY <1>1 DEF LastPage, Outdated, BrowsingTypeOK
  <2> SUFFICES ASSUME NEW r \in owed, r \notin seen PROVE r \in found'
      OBVIOUS
  <2>2. PICK k \in Listing : table[k].id = r /\ Place(k) > Skip
      BY <1>1 DEF Ahead, Behind, Ids
  <2>3. Place(k) <= Skip + list.limit
      BY <2>1, NothingBehindTheLast DEF TotalPages
  <2>4. Place(k) \in Nat
      BY <1>2, PlaceIsAPosition
  <2> QED BY <1>1, <1>2, <2>2, <2>3, <2>4 DEF Ids
<1>8. OwedIsListed'
    BY <1>1, SameListing DEF OwedIsListed
<1> QED BY <1>1, <1>5, <1>6, <1>7, <1>8 DEF Outside, NothingMissed

(* The rows are counted: nothing is behind the last page of that count. *)
LEMMA CountIInv ==
  ASSUME BrowsingIInv, Count
  PROVE  BrowsingIInv'
<1> USE DEF BrowsingIInv
<1>1. /\ stage = "paging" /\ total = Unknown /\ total' = Cardinality(Matches)
      /\ UNCHANGED <<list, table, used, stage, page, found, seen, owed, excused>>
    BY DEF Count
<1>2. table \in Seq(Row)
    BY DEF BrowsingTypeOK
<1>3. Cardinality(Matches) \in Nat
    BY <1>2, MatchesAreFinite DEF Matches, Listing
<1>4. Matches' = Matches
    BY <1>1, SameListing
<1>5. BrowsingTypeOK'
  <2>1. Ids(DOMAIN table)' = Ids(DOMAIN table)
      BY <1>1 DEF Ids
  <2>2. /\ list'.limit \in 1 .. MaxLimit /\ table' \in Seq(Row) /\ used' \subseteq Rows
        /\ \A i, j \in DOMAIN table' : table'[i].id = table'[j].id => i = j
        /\ page' \in Nat \ {0} /\ seen' \subseteq used' /\ excused' \in BOOLEAN
        /\ owed' \subseteq Ids(DOMAIN table)' /\ Ids(DOMAIN table)' \subseteq used'
        /\ stage' \in {"before", "paging", "done"}
      BY <1>1, <2>1 DEF BrowsingTypeOK
  <2>3. found' # Unknown => found' \subseteq used' /\ Cardinality(found') <= list'.limit
      BY <1>1 DEF BrowsingTypeOK
  <2>4. total' \in Nat
      BY <1>1, <1>3
  <2> QED BY <2>2, <2>3, <2>4, Zenon DEF BrowsingTypeOK
<1>6. Ahead'
  <2> SUFFICES ASSUME ~excused
               PROVE  /\ found = Unknown => owed \ seen \subseteq Behind(Skip)'
                      /\ found # Unknown =>
                           owed \ (seen \cup found) \subseteq Behind(Skip + list.limit)'
      BY <1>1 DEF Ahead
  <2>1. PICK a, b : a = Skip /\ b = Skip + list.limit
      OBVIOUS
  <2>2. a = Skip' /\ b = (Skip + list.limit)'
      BY <1>1, <2>1 DEF Skip
  <2>3. /\ found = Unknown => owed \ seen \subseteq Behind(a)
        /\ found # Unknown => owed \ (seen \cup found) \subseteq Behind(b)
      BY <1>1, <2>1 DEF Ahead
  <2>4. \A n : Behind(n)' = Behind(n)
      BY <1>1, SameListing
  <2>5. /\ found = Unknown => owed \ seen \subseteq Behind(a)'
        /\ found # Unknown => owed \ (seen \cup found) \subseteq Behind(b)'
      BY <2>3, <2>4
  <2> QED BY <2>2, <2>5 DEF Behind
<1>7. LastPage'
  <2>1. ASSUME ~excused, found # Unknown,
               page >= (Cardinality(Matches) + list.limit - 1) \div list.limit
        PROVE  owed \subseteq seen \cup found
    <3> SUFFICES ASSUME NEW r \in owed, r \notin seen, r \notin found PROVE FALSE
        OBVIOUS
    <3>1. PICK k \in Listing : table[k].id = r /\ Place(k) > Skip + list.limit
        BY <1>1, <2>1 DEF Ahead, Behind, Ids
    <3>2. Place(k) <= Skip + list.limit
      <4>1. PICK t \in Nat : t = Cardinality(Matches)
          BY <1>3
      <4>2. page >= (t + list.limit - 1) \div list.limit
          BY <2>1, <4>1
      <4> QED BY <4>1, <4>2, NothingBehindTheLast
    <3>3. Place(k) \in Nat /\ Skip + list.limit \in Nat
        BY <1>2, PlaceIsAPosition, SkipIsANumber
    <3> QED BY <3>1, <3>2, <3>3
  <2>2. Cardinality(Matches') <= total'
      BY <1>1, <1>3, <1>4
  <2> QED BY <1>1, <2>1, <2>2 DEF LastPage, TotalPages
<1>8. OwedIsListed'
    BY <1>1, <1>4 DEF OwedIsListed
<1> QED BY <1>1, <1>5, <1>6, <1>7, <1>8 DEF Outside, NothingMissed

(* The answer is shown, and the client goes on or has seen the last page. *)
LEMMA ShowIInv ==
  ASSUME BrowsingIInv, Show
  PROVE  BrowsingIInv'
<1> USE DEF BrowsingIInv
<1>1. /\ found # Unknown /\ total # Unknown /\ seen' = seen \cup found
      /\ found' = Unknown /\ total' = Unknown
      /\ UNCHANGED <<list, table, used, owed, excused>>
      /\ stage = "paging"
    BY DEF Show, Outside
<1>2. \/ page < TotalPages /\ page' = page + 1 /\ stage' = stage
      \/ ~(page < TotalPages) /\ page' = page /\ stage' = "done"
    BY DEF Show
<1>3. /\ list.limit \in Nat /\ list.limit >= 1 /\ page \in Nat /\ page >= 1
      /\ Skip + list.limit = page * list.limit
    BY SkipIsANumber
<1>4. total \in Nat /\ TotalPages \in Int
  <2>1. total \in Nat
      BY <1>1 DEF BrowsingTypeOK
  <2> QED BY <1>3, <2>1 DEF TotalPages
<1>5. BrowsingTypeOK'
  <2>1. Ids(DOMAIN table)' = Ids(DOMAIN table)
      BY <1>1 DEF Ids
  <2>2. /\ list'.limit \in 1 .. MaxLimit /\ table' \in Seq(Row) /\ used' \subseteq Rows
        /\ \A i, j \in DOMAIN table' : table'[i].id = table'[j].id => i = j
        /\ excused' \in BOOLEAN
        /\ owed' \subseteq Ids(DOMAIN table)' /\ Ids(DOMAIN table)' \subseteq used'
      BY <1>1, <2>1 DEF BrowsingTypeOK
  <2>3. stage' \in {"before", "paging", "done"} /\ page' \in Nat \ {0}
      BY <1>1, <1>2, <1>3
  <2>4. seen' \subseteq used'
      BY <1>1 DEF BrowsingTypeOK
  <2> QED BY <1>1, <2>2, <2>3, <2>4, Zenon DEF BrowsingTypeOK
<1>6. Ahead'
  <2> SUFFICES ASSUME stage' = "paging", ~excused PROVE owed \ seen' \subseteq Behind(Skip)'
      BY <1>1 DEF Ahead
  <2>1. PICK b : b = Skip + list.limit
      OBVIOUS
  <2>2. b = Skip'
    <3>1. page' = page + 1
        BY <1>1, <1>2
    <3>2. Skip' = page * list.limit
        BY <1>1, <1>3, <3>1 DEF Skip
    <3> QED BY <1>3, <2>1, <3>2
  <2>3. owed \ (seen \cup found) \subseteq Behind(b)
      BY <1>1, <2>1 DEF Ahead
  <2>4. \A n : Behind(n)' = Behind(n)
      BY <1>1, SameListing
  <2>5. owed \ seen' \subseteq Behind(b)'
      BY <1>1, <2>3, <2>4
  <2> QED BY <2>2, <2>5 DEF Behind
<1>7. NothingMissed'
  <2> SUFFICES ASSUME stage' = "done", ~excused PROVE owed \subseteq seen \cup found
      BY <1>1 DEF NothingMissed
  <2>1. page >= TotalPages
      BY <1>1, <1>2, <1>3, <1>4
  <2> QED BY <1>1, <2>1 DEF LastPage
<1>8. OwedIsListed'
    BY <1>1, SameListing DEF OwedIsListed
<1>9. Outside' /\ LastPage'
    BY <1>1, <1>2 DEF Outside, LastPage, Outdated
<1> QED BY <1>5, <1>6, <1>7, <1>8, <1>9

(* Every step of the collection and of the client keeps the invariant. *)
LEMMA BrowsingNextIInv == BrowsingIInv /\ [BrowsingNext]_browsingVars => BrowsingIInv'
<1> SUFFICES ASSUME BrowsingIInv, [BrowsingNext]_browsingVars PROVE BrowsingIInv'
    OBVIOUS
<1>1. CASE Begin
    BY <1>1, BeginIInv
<1>2. CASE FindMany
    BY <1>2, FindManyIInv
<1>3. CASE Count
    BY <1>3, CountIInv
<1>4. CASE Show
    BY <1>4, ShowIInv
<1>5. ASSUME NEW id \in Rows, NEW open \in BOOLEAN, NEW mine \in BOOLEAN, Create(id, open, mine)
      PROVE  BrowsingIInv'
    BY <1>5, CreateIInv
<1>6. ASSUME NEW i \in DOMAIN table, NEW open \in BOOLEAN, Edit(i, open)
      PROVE  BrowsingIInv'
    BY <1>6, EditInPlaceIInv, EditMovesIInv
<1>7. ASSUME NEW i \in DOMAIN table, Delete(i)
      PROVE  BrowsingIInv'
    BY <1>7, DeleteIInv
<1>8. CASE UNCHANGED browsingVars
  <2> USE <1>8 DEF browsingVars, BrowsingIInv
  <2>1. BrowsingTypeOK'
    <3>1. Ids(DOMAIN table)' = Ids(DOMAIN table)
        BY DEF Ids
    <3> QED BY <3>1 DEF BrowsingTypeOK
  <2>2. OwedIsListed' /\ Outside' /\ NothingMissed'
      BY SameListing DEF OwedIsListed, Outside, NothingMissed
  <2>3. Ahead'
    <3>1. PICK a, b : a = Skip /\ b = Skip + list.limit
        OBVIOUS
    <3>2. a = Skip' /\ b = (Skip + list.limit)'
        BY <3>1 DEF Skip
    <3>3. stage = "paging" /\ ~excused =>
            /\ found = Unknown => owed \ seen \subseteq Behind(a)'
            /\ found # Unknown => owed \ (seen \cup found) \subseteq Behind(b)'
        BY <3>1, SameListing DEF Ahead
    <3>4. stage = "paging" /\ ~excused =>
            /\ found = Unknown => owed \ seen \subseteq Behind(Skip)'
            /\ found # Unknown => owed \ (seen \cup found) \subseteq Behind(Skip + list.limit)'
        BY <3>2, <3>3 DEF Behind
    <3> QED BY <3>4 DEF Ahead
  <2>4. LastPage'
    <3>1. Matches' = Matches
        BY SameListing
    <3> QED BY <3>1 DEF LastPage, Outdated, TotalPages
  <2> QED BY <2>1, <2>2, <2>3, <2>4
<1> QED BY <1>1, <1>2, <1>3, <1>4, <1>5, <1>6, <1>7, <1>8 DEF BrowsingNext

(* What holds of the browsing of every collection. *)
LEMMA BrowsingInvariance == BrowsingSpec => []BrowsingIInv
<1>1. BrowsingInit => BrowsingIInv
    BY BrowsingInitIInv
<1>2. BrowsingIInv /\ [BrowsingNext]_browsingVars => BrowsingIInv'
    BY BrowsingNextIInv
<1> QED BY <1>1, <1>2, PTL DEF BrowsingSpec

(* Rows keep their shape and their ids apart, and no page is longer than    *)
(* the limit that parsePagination allows, for every number of rows.         *)
THEOREM BrowsingTypeCorrect == BrowsingSpec => []BrowsingTypeOK
<1>1. BrowsingIInv => BrowsingTypeOK
    BY DEF BrowsingIInv
<1> QED BY <1>1, BrowsingInvariance, PTL

(* A client that pages to the end has seen every row that stayed listed,    *)
(* whatever was created, edited and deleted meanwhile, unless the list      *)
(* moved in one of the ways that pages by offset do not survive.            *)
THEOREM NothingIsMissed == BrowsingSpec => []NothingMissed
<1>1. BrowsingIInv => NothingMissed
    BY DEF BrowsingIInv
<1> QED BY <1>1, BrowsingInvariance, PTL

(* Whoever is shown a row by a list may read it by its id, and apart from   *)
(* the named cases whoever may read it is shown it.                         *)
THEOREM ListsAndReadsAgree == BrowsingSpec => []ListAndReadAgree
<1>1. BrowsingInit => list.kind \in Kinds /\ list.role \in Roles
    BY DEF BrowsingInit
<1>2. list.kind \in Kinds /\ list.role \in Roles /\ [BrowsingNext]_browsingVars
        => (list.kind \in Kinds /\ list.role \in Roles)'
  <2>1. ASSUME [BrowsingNext]_browsingVars PROVE list' = list
      BY <2>1 DEF BrowsingNext, browsingVars, Begin, FindMany, Count, Show, Create, Edit, Delete
  <2> QED BY <2>1
<1>3. list.kind \in Kinds /\ list.role \in Roles => ListAndReadAgree
  <2> SUFFICES ASSUME list.kind \in Kinds, list.role \in Roles, NEW row, NEW fields
               PROVE  /\ Listed(row) => Readable(row, fields)
                      /\ Readable(row, fields) => Listed(row) \/ OnlyById(fields)
      BY DEF ListAndReadAgree
  <2> QED BY DEF Kinds, Roles, Listed, ListedRestaurant, ListedMeal, ListedOrder,
                 Readable, ReadableRestaurant, ReadableOrder, OnlyById
<1> QED BY <1>1, <1>2, <1>3, PTL DEF BrowsingSpec
=============================================================================
