---------------------------- MODULE StockLedger ----------------------------
(***************************************************************************)
(* What inventory-service promises: an order's booking is made at most     *)
(* once and only if the units of all its lines are still unpromised, is    *)
(* settled at most once, and a settled booking is final.                   *)
(***************************************************************************)
EXTENDS Integers, Functions

CONSTANTS
    Orders, Products,
    Demand,    \* units of each product an order asks for
    Capacity   \* units of each product that were ever put on sale

VARIABLE booking

Init == booking = [o \in Orders |-> "NONE"]

\* Units of p booked by the orders whose booking is in one of the statuses.
Booked(p, statuses) ==
    SumFunctionOnSet([o \in Orders |-> Demand[o][p]],
                     {o \in Orders : booking[o] \in statuses})

Reserve(o) ==
    /\ booking[o] = "NONE"
    /\ \A p \in Products : Booked(p, {"RESERVED", "CONFIRMED"}) + Demand[o][p] <= Capacity[p]
    /\ booking' = [booking EXCEPT ![o] = "RESERVED"]

Settle(o, status) ==
    /\ booking[o] = "RESERVED"
    /\ booking' = [booking EXCEPT ![o] = status]

Next == \E o \in Orders : Reserve(o) \/ Settle(o, "CONFIRMED") \/ Settle(o, "RELEASED")

Spec == Init /\ [][Next]_booking
=============================================================================
