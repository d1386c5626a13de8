SPECIFICATION Spec
CONSTANTS
    Orders = {o1}
    Copies = {c1, c2, c3}
    MaxRequests = 2
    Limits = {1, 3}
    MaxCounted = 0
    NoMessage = NoMessage
INVARIANTS
    TypeOK
    ResultsAreBacked
    AtMostOnePayment
    ChargedOnce
PROPERTIES
    EveryRequestReported
