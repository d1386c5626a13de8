SPECIFICATION Spec
CONSTANTS
    Callers = {h1, h2}
    Ops = {"reserve", "confirm"}
    Threshold = 50
    MaxWindow = 3
    MaxFaults = 2
INVARIANTS
    TypeOK
    OneProbe
    OnlyFaultsReject
PROPERTIES
    ImplementsCall
    BreakerRecovers
