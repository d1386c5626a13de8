SPECIFICATION Spec
CONSTANTS
    Orders = {o1, o2, o3}
    Workers = {w1, w2}
    Payers = {p1, p2}
    Units <- OneUnit
    Stock = 2
    MaxFaults = 0
    None = None
INVARIANTS
    AllOrNothing
PROPERTIES
    FollowsLifecycle
    EveryOrderEnds
