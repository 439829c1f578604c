\* Three nodes, threshold two, one transfer: three of the faults that lose no signature.
SPECIFICATION Spec
CONSTANTS
    Nodes = {n1, n2, n3}
    NoNode = NoNode
    Chains <- MCChains
    Solana = "sol"
    Txs <- OneTx
    Transfers <- OneTransfer
    Log <- OneLog
    Messages <- OneMessage
    MessageOf <- OneMessageOf
    BytesOf <- MCBytesOf
    JobIds <- OneJobId
    JobIdOf <- OneJobIdOf
    Threshold <- LowOrigin
    MaxStalls = 1
    Copies = 1
    Faults = {"miss", "stall", "receipt", "grpc"}
    MaxFaults = 3
SYMMETRY NodeSymmetry
INVARIANTS QueuedOnlyByQuorum QuorumServed PaidAtRest FailsOnlyWhenSecured RecordedOnlyWhenSecured
PROPERTY DropsOnlySpares
CHECK_DEADLOCK FALSE
