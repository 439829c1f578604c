\* Two nodes, threshold two, one Solana transaction with two logs to one chain: a missed or repeated notification.
SPECIFICATION Spec
CONSTANTS
    Nodes = {n1, n2}
    NoNode = NoNode
    Chains <- MCChains
    Solana = "sol"
    Txs <- OneTx
    Transfers <- TwoTransfers
    Log <- SolanaTxLog
    Messages <- OneMessage
    MessageOf <- OneMessageOf
    BytesOf <- MCBytesOf
    JobIds <- OneJobId
    JobIdOf <- OneJobIdOf
    Threshold <- Thresholds2
    MaxStalls = 1
    Copies = 2
    Faults = {"duplicate", "miss"}
    MaxFaults = 1
SYMMETRY NodeSymmetry
INVARIANTS PaidOncePerDigest PaidByQuorum
CHECK_DEADLOCK FALSE
