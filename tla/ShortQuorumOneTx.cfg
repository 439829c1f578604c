\* Two nodes, threshold two, one Ethereum transaction that locks twice, no fault.
SPECIFICATION Spec
CONSTANTS
    Nodes = {n1, n2}
    NoNode = NoNode
    Chains <- MCChains
    Solana = "sol"
    Txs <- OneTx
    Transfers <- TwoTransfers
    Log <- SameTxLog
    Messages <- OneMessage
    MessageOf <- OneMessageOf
    BytesOf <- MCBytesOf
    JobIds <- OneJobId
    JobIdOf <- OneJobIdOf
    Threshold <- Thresholds2
    MaxStalls = 1
    Copies = 1
    Faults = {}
    MaxFaults = 0
INVARIANT QueuedOnlyByQuorum
CHECK_DEADLOCK FALSE
