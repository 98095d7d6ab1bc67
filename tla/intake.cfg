SPECIFICATION FairSpec
CONSTANTS
    NULL = NULL
    Calls = {c1, c2}
    Requests <- MCRequests
    LongKeys = {"long"}
    Addresses = {"a", "b", "c", "zero", "usdc", "old"}
    SignerAddrs = {"a"}
    ZeroAddr = "zero"
    Chains <- MCChains
    MaxUint256 = 999
    DbFault = TRUE
    MaxStops = 1
INVARIANTS
    NoLostWakeup
    RowsWithinPolicy
PROPERTIES
    ImplementsKeyStore
    EveryRowClaimed
