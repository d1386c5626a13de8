SPECIFICATION Spec
CONSTANTS
    alice = alice
    bob = bob
    mail = mail
    pw1 = pw1
    pw2 = pw2
    Requests <- MCRequests
    Ask <- MCAsk
    Replicas = {g1, g2}
    Limit = 2
    MaxRetriesPerRequest = 1
    MaxFaults = 2
INVARIANTS
    TypeOK
    LimitKept
    RegistrationHolds
PROPERTIES
    OnlyExcessRefused
    EveryRequestAnswered
    ImplementsAccountBook
