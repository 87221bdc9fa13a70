------------------------------- MODULE MCPricing -------------------------------
(* An instance of Pricing for TLC: amounts that round down, up and exactly *)
(* at a half, whole and fractional percentages, the extreme percentages.   *)
EXTENDS Pricing

CONSTANTS soup, cake

MCTips == {0, 4999, 5000, 9999, 10000, 25000, 1234567}
MCPercents == {0, 1, 50, 1250, 3333, 9999, 10000}
=============================================================================
