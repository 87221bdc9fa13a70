\* Amounts in cents; NUMERIC(10,2) scaled down so that the columns overflow.
SPECIFICATION PricingSpec
CONSTANTS
  soup = soup
  cake = cake
  Meals = {soup, cake}
  Prices = {5, 99, 1001}
  Quantities = {1, 3}
  Percents <- MCPercents
  Tips <- MCTips
  MaxAmount = 5000
  NoOrder = NoOrder
INVARIANTS
  PricingTypeOK
  TotalWithinACent
  TotalCoversTip
