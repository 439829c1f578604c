\* Two nodes, threshold two: one submission fails.
SPECIFICATION Spec
CONSTANTS
    Nodes = {n1, n2}
    NoNode = NoNode
    Chains <- MCChains
    Solana = "sol"
    Txs <- OneTx
    Transfers <- OneTransfer
    Log <- OneLog
    Messages <- OneMessage
    MessageOf <- OneMessageOf
    BytesOf <- MCBytesOf
    JobIds <- OneJobId
    JobIdOf <- OneJobIdOf
    Threshold <- Thresholds2
    MaxStalls = 1
    Copies = 1
    Faults = {"submit"}
    MaxFaults = 1
PROPERTY FailedJobStaysQueued
CHECK_DEADLOCK FALSE
