SPECIFICATION FairSpec
CONSTANTS
    NULL = NULL
    TxIds = {1}
    Senders = {s1}
    SenderOf <- OneSender
    Payloads = {p1}
    PayloadOf <- SamePayload
    Erc20 = {}
    Faults = {}
    MaxBlocks = 3
    LastTxBlock = 2
    MaxReorgs = 0
    MaxReorgDepth = 1
    HeadLag = 0
    MinedOutcomes = {"transferred"}
    MaxBroadcastRetries = 2
    InitialGas = {0}
    ConfirmationBlocks = 1
    ReceiptChunkSize = 2
    UintSize = 16
    MaxGasBumps = 1
    MaxCrashes = 1
PROPERTIES
    EveryTransferSettles
