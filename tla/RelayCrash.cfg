\* Three nodes, threshold two: two crashes, of one node or of two, and restarts.
SPECIFICATION FairSpec
CONSTANTS
    Nodes = {n1, n2, n3}
    NoNode = NoNode
    Chains <- MCChains
    Solana = "sol"
    Txs <- OneTx
    Transfers <- OneTransfer
    Log <- OneLog
    Messages <- OneMessage
    MessageOf <- OneMessageOf
    BytesOf <- MCBytesOf
    JobIds <- OneJobId
    JobIdOf <- OneJobIdOf
    Threshold <- Thresholds2
    MaxStalls = 1
    Copies = 1
    Faults = {"crash"}
    MaxFaults = 2
INVARIANTS FullListIsServed OneWorkerPerJob
PROPERTIES ActiveJobsEnd OrphanedQuorumIsPaid
CHECK_DEADLOCK FALSE
