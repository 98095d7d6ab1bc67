SPECIFICATION FairSpec
CONSTANTS
    NULL = NULL
    TxIds = {1, 2}
    Senders = {s1}
    SenderOf <- OneSender
    Payloads = {p1}
    PayloadOf <- SamePayload
    Erc20 = {p1}
    Faults = {"estimate"}
    MaxBlocks = 2
    LastTxBlock = 2
    MaxReorgs = 0
    MaxReorgDepth = 1
    HeadLag = 0
    MinedOutcomes = {"transferred", "silent", "reverted"}
    MaxBroadcastRetries = 2
    InitialGas = {0}
    ConfirmationBlocks = 0
    ReceiptChunkSize = 1
    UintSize = 16
    MaxGasBumps = 1
    MaxCrashes = 0
INVARIANTS
    ConfirmedTransferred
    GapsOnlyOfFailed
PROPERTIES
    EveryTransferSettles
