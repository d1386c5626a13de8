SPECIFICATION Spec
CONSTANTS
    Orders = {o1}
    Copies = {c1, c2}
    MaxRequests = 1
    Limits = {3}
    MaxCounted = 4
    NoMessage = NoMessage
SYMMETRY CopySymmetry
INVARIANTS
    RetriesBounded
