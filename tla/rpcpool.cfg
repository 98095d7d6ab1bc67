SPECIFICATION FairSpec
CONSTANTS
    NULL = NULL
    NumEndpoints = 2
    Callers = {c1}
    MaxChanges = 2
    MaxErrors = 1
INVARIANTS
    TypeOK
    SteadyNotMissed
PROPERTIES
    EndpointsRecover
    EveryCallReturns
