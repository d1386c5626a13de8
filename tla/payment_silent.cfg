SPECIFICATION Spec
CONSTANTS
    Orders = {o1}
    Copies = {c1, c2}
    MaxRequests = 1
    Limits = {3}
    MaxCounted = 0
    NoMessage = NoMessage
SYMMETRY CopySymmetry
INVARIANTS
    PaymentsAreReported
