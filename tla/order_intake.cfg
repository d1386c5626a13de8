SPECIFICATION Spec
CONSTANTS
    o1 = o1
    o2 = o2
    a = a
    c1 = c1
    c2 = c2
    None = None
    Orders <- MCOrders
    Replicas = {n1, n2}
    Products <- MCProducts
    Lines <- MCLines
    Creations <- MCCreations
    ProductOf <- MCProductOf
    PriceOf <- MCPriceOf
    MaxFaults = 2
INVARIANTS
    TypeOK
    OrdersAsPriced
PROPERTIES
    NothingSkipped
    OrdersAnnounced
