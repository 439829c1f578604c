\* Two nodes, threshold two, two transfers: one node misses a log, or one transaction is dropped.
SPECIFICATION FairSpec
CONSTANTS
    Nodes = {n1, n2}
    NoNode = NoNode
    Chains <- MCChains
    Solana = "sol"
    Txs <- TwoTxs
    Transfers <- TwoTransfers
    Log <- CrossLog
    Messages <- TwoMessages
    MessageOf <- TwoMessageOf
    BytesOf <- MCBytesOf
    JobIds <- TwoJobIds
    JobIdOf <- TwoJobIdOf
    Threshold <- Thresholds2
    MaxStalls = 1
    Copies = 1
    Faults = {"miss", "drop"}
    MaxFaults = 1
PROPERTY Delivered
CHECK_DEADLOCK FALSE
