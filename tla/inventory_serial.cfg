SPECIFICATION SerialSpec
CONSTANTS
    o1 = o1
    o2 = o2
    o3 = o3
    p1 = p1
    p2 = p2
    NoRow = NoRow
    NoTx = NoTx
    Orders <- MCOrders
    Products <- MCProducts
    Items <- MCItems
    InitialStock <- MCInitialStock
    DefaultStock = 2
    Requests <- SettledOnce
INVARIANTS
    TypeOK
    NoOversell
    LedgerExact
PROPERTIES
    ImplementsLedger
    EveryRequestSettles
