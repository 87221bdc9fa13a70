-------------------------------- MODULE Pricing --------------------------------
(***************************************************************************)
(* How createOrder (orders.service.ts) prices an order and what the orders *)
(* table keeps of it.                                                      *)
(*                                                                         *)
(* The service computes with exact decimals; the money columns are         *)
(* DECIMAL(10,2), so PostgreSQL rounds each of the four amounts on its own *)
(* when the row is stored.  Stored amounts are whole cents.  Exact amounts *)
(* are counted in 1/Unit of a cent: prices are whole cents and discounts   *)
(* whole hundredths of a percent, so no discount is finer than that, and   *)
(* tips are taken at that resolution.                                      *)
(***************************************************************************)
EXTENDS Integers, FiniteSetsExt

CONSTANTS
  Meals,
  Prices,      \* meal prices, in cents
  Quantities,  \* quantities an item may have
  Percents,    \* coupon discounts, in hundredths of a percent; 0 is no coupon
  Tips,        \* tips, in 1/Unit of a cent
  MaxAmount,   \* the largest amount the columns hold, in cents
  NoOrder

Unit == 10000

ASSUME MealsAssumption == IsFiniteSet(Meals)

ASSUME AmountsAssumption ==
  /\ Prices \subseteq Nat \ {0} /\ Quantities \subseteq Nat \ {0}
  /\ Percents \subseteq 0..10000 /\ Tips \subseteq Nat

VARIABLES
  price,  \* meals.price
  order   \* the order stored last, and the percentage it was placed with

pricingVars == <<price, order>>

PricingInit == price \in [Meals -> Prices] /\ order = NoOrder

(* NUMERIC rounds to the nearest cent, a half upwards. *)
Rounded(x) == (2 * x + Unit) \div (2 * Unit)

(* The prices the meals have now, times the quantities of the request. *)
Subtotal(quantity) ==
  MapThenSumSet(LAMBDA m : price[m] * quantity[m], DOMAIN quantity)

(* Mutant: the percentage is not divided by a hundred. *)
Discount_WholePercents(subtotal, percent) == subtotal * percent * 100

Discount(subtotal, percent) == subtotal * percent

(* Mutants: the tip is left out, and the coupon discounts the tip too. *)
Total_WithoutTip(subtotal, percent, tip) ==
  subtotal * Unit - Discount(subtotal, percent)

Total_DiscountsTip(subtotal, percent, tip) ==
  subtotal * Unit + tip - Discount(subtotal + tip \div Unit, percent)

Total(subtotal, percent, tip) ==
  subtotal * Unit - Discount(subtotal, percent) + tip

StoredRow(subtotal, percent, tip) ==
  [subtotal |-> subtotal,
   discount |-> Rounded(Discount(subtotal, percent)),
   tip      |-> Rounded(tip),
   total    |-> Rounded(Total(subtotal, percent, tip)),
   percent  |-> percent]

Fits(row) == row.subtotal <= MaxAmount /\ row.tip <= MaxAmount /\ row.total <= MaxAmount

(* A request that exceeds the columns fails and stores nothing. *)
PlaceOrder(quantity, percent, tip) ==
  LET row == StoredRow(Subtotal(quantity), percent, tip) IN
    /\ Fits(row)
    /\ order' = row
    /\ UNCHANGED price

UpdateMeal(m, p) ==
  /\ price' = [price EXCEPT ![m] = p]
  /\ UNCHANGED order

(* Every item is another meal, and there is at least one. *)
Baskets == UNION {[S -> Quantities] : S \in SUBSET Meals \ {{}}}

PricingNext ==
  \/ \E quantity \in Baskets, percent \in Percents, tip \in Tips :
       PlaceOrder(quantity, percent, tip)
  \/ \E m \in Meals, p \in Prices : UpdateMeal(m, p)

PricingSpec == PricingInit /\ [][PricingNext]_pricingVars

-----------------------------------------------------------------------------
OrderRow == [subtotal : Nat, discount : Nat, tip : Nat, total : Nat, percent : Percents]

SubtotalsAreCounts == \A quantity \in Baskets : Subtotal(quantity) \in Nat

(* Prices are prices, and amounts are whole numbers of cents, none below 0. *)
PricingTypeOK ==
  /\ price \in [Meals -> Prices]
  /\ order \in OrderRow \cup {NoOrder}
  /\ SubtotalsAreCounts

Parts(row) == row.subtotal - row.discount + row.tip

(* Rounding the amounts one by one moves the stored total from the sum of  *)
(* the stored parts by a cent at most.                                     *)
TotalWithinACent ==
  order # NoOrder => order.total - Parts(order) \in {-1, 0, 1}

(* Whatever the coupon and the rounding, the customer pays at least the    *)
(* tip, and no coupon takes off more than the meals cost.                  *)
TotalCoversTip ==
  order # NoOrder => order.total >= order.tip /\ order.discount <= order.subtotal

(* Without a coupon nothing is lost to rounding. *)
ExactWithoutCoupon ==
  order # NoOrder /\ order.percent = 0 => order.total = Parts(order)
=============================================================================
