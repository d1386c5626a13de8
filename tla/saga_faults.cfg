SPECIFICATION Spec
CONSTANTS
    Orders = {o1}
    Workers = {w1, w2}
    Payers = {p1, p2}
    Units <- OneUnit
    Stock = 1
    MaxFaults = 4
    None = None
SYMMETRY SlotSymmetry
INVARIANTS
    TypeOK
    NothingForFree
    NoPaymentWithoutStock
