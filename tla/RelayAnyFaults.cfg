\* Two nodes, threshold two, one transfer: any three faults.
SPECIFICATION Spec
CONSTANTS
    Nodes = {n1, n2}
    NoNode = NoNode
    Chains <- MCChains
    Solana = "sol"
    Txs <- OneTx
    Transfers <- OneTransfer
    Log <- OneLog
    Messages <- OneMessage
    MessageOf <- OneMessageOf
    BytesOf <- MCBytesOf
    JobIds <- OneJobId
    JobIdOf <- OneJobIdOf
    Threshold <- Thresholds2
    MaxStalls = 1
    Copies = 2
    Faults = {"miss", "duplicate", "redis", "resend", "queue", "submit", "receipt", "drop", "threshold", "crash", "stall"}
    MaxFaults = 3
SYMMETRY NodeSymmetry
INVARIANTS TypeOK PaidOnce PaidByQuorum
PROPERTY ImplementsPromise
CHECK_DEADLOCK FALSE
