-------------------------- MODULE InventoryLedger --------------------------
(***************************************************************************)
(* inventory-service against the ledger it keeps: the properties that      *)
(* relate the two columns of stock_items to the reservations, and the      *)
(* refinement of StockLedger, under a caller that settles an order once.   *)
(***************************************************************************)
EXTENDS Inventory, FiniteSets, Functions

\* Bookings are added up over the orders.
ASSUME OrdersAssumption == IsFiniteSet(Orders)

Demand == [o \in Orders |-> [p \in Products |->
              SumFunctionOnSet([i \in DOMAIN Items[o] |-> Items[o][i].quantity],
                               {i \in DOMAIN Items[o] : Items[o][i].product = p})]]

Capacity == [p \in Products |->
                IF InitialStock[p] = NoRow THEN DefaultStock ELSE InitialStock[p]]

Ledger == INSTANCE StockLedger WITH booking <- reservation

-----------------------------------------------------------------------------
IsSettlement(r) == r.op \in {"confirm", "release"}

\* The caller asks for a settlement only when its previous one for that order
\* was answered (or dead-lettered), and never confirms after a release.
SerialSend(r) ==
    /\ Send(r)
    /\ IsSettlement(r) =>
          \A s \in Requests \ {r} : s.order = r.order /\ IsSettlement(s) =>
              /\ pc[s] \in {"unsent", "done", "dlq"}
              /\ r.op = "confirm" /\ s.op = "release" => At(s, "unsent")

SerialNext ==
    \/ \E r \in Requests : SerialSend(r) \/ Handle(r) \/ DatabaseError(r) \/ Crash(r)
    \/ Idle

SerialSpec == Init /\ [][SerialNext]_vars /\ Fairness

-----------------------------------------------------------------------------
\* The two columns of stock_items are what the committed reservations say: a
\* unit is reserved once per RESERVED order and has left the stock once per
\* CONFIRMED one, whatever crashed, was rolled back or was sent twice.
LedgerExact ==
    \A p \in Products :
        IF stock[p] = NoRow
        THEN Ledger!Booked(p, {"RESERVED", "CONFIRMED"}) = 0
        ELSE /\ stock[p].reserved = Ledger!Booked(p, {"RESERVED"})
             /\ stock[p].available = Capacity[p] - Ledger!Booked(p, {"CONFIRMED"})

\* Units promised to RESERVED and CONFIRMED orders were all on sale (the
\* reservation status guards of `confirm` and `release`).
PromisesCovered ==
    \A p \in Products : Ledger!Booked(p, {"RESERVED", "CONFIRMED"}) <= Capacity[p]

\* inventory-service implements the ledger: seen from the reservations, every
\* step books an order whose units are free, settles a RESERVED booking, or
\* leaves the bookings alone.
ImplementsLedger == Ledger!Spec
=============================================================================
