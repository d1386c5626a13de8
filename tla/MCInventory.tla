---------------------------- MODULE MCInventory ----------------------------
(* Small instances of Inventory and InventoryLedger for TLC.               *)
EXTENDS InventoryLedger, TLC

CONSTANTS o1, o2, o3, p1, p2

MCOrders   == {o1, o2, o3}
MCProducts == {p1, p2}

L(product, quantity) == [product |-> product, quantity |-> quantity]
R(op, o, copy) == [op |-> op, order |-> o, copy |-> copy]

\* o1 and o2 take the products in opposite order and do not fit together, and p2
\* is seen for the first time.
MCItems == o1 :> <<L(p1, 1), L(p2, 1)>> @@ o2 :> <<L(p2, 1), L(p1, 2)>> @@ o3 :> <<>>

MCInitialStock == p1 :> 2 @@ p2 :> NoRow

SettledOnce == {R("reserve", o1, 1), R("reserve", o1, 2), R("reserve", o2, 1),
                R("confirm", o1, 1), R("release", o1, 1)}

\* Any caller: orders that fit two at a time, o1 reserved and released twice.
OneProduct == o1 :> <<L(p1, 1)>> @@ o2 :> <<L(p1, 2)>> @@ o3 :> <<L(p1, 1)>>

ReleasedTwice == {R("reserve", o1, 1), R("reserve", o2, 1), R("reserve", o3, 1),
                  R("release", o1, 1), R("release", o1, 2)}
=============================================================================
