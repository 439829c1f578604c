\* Two nodes, a transfer from Solana, whose threshold is below the destination's, no fault.
SPECIFICATION Spec
CONSTANTS
    Nodes = {n1, n2}
    NoNode = NoNode
    Chains <- MCChains
    Solana = "sol"
    Txs <- OneTx
    Transfers <- OneTransfer
    Log <- SolanaLog
    Messages <- OneMessage
    MessageOf <- OneMessageOf
    BytesOf <- MCBytesOf
    JobIds <- OneJobId
    JobIdOf <- OneJobIdOf
    Threshold <- LowSolana
    MaxStalls = 1
    Copies = 1
    Faults = {}
    MaxFaults = 0
INVARIANT QueuedOnlyByQuorum
CHECK_DEADLOCK FALSE
