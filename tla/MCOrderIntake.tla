--------------------------- MODULE MCOrderIntake ---------------------------
(* A small instance of OrderIntake for TLC.                                *)
EXTENDS OrderIntake, TLC

CONSTANTS o1, o2, a, c1, c2

\* Both orders ask for the product that c1 and c2 register at different prices.
MCOrders    == {o1, o2}
MCProducts  == {a}
MCLines     == o1 :> {a} @@ o2 :> {a}
MCCreations == {c1, c2}
MCProductOf == c1 :> a @@ c2 :> a
MCPriceOf   == c1 :> 1 @@ c2 :> 2
=============================================================================
