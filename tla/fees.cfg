SPECIFICATION Spec
CONSTANTS
    NULL = NULL
    Limits <- MCLimits
    BaseFees = {0, 3, 10, 25}
    Tips = {0, 1, 7, 13, 100}
    GasPrices = {0, 6, 7, 10, 41, 99}
    DefaultTip = 10
    MaxGasBumps = 5
INVARIANTS
    TypeOK
    TipBelowMaxFee
    BumpsCostAtMost
    EstimateCapped
PROPERTIES
    BumpReplaces
CHECK_DEADLOCK FALSE
