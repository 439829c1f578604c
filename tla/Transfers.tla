----------------------------- MODULE Transfers -----------------------------
(***************************************************************************)
(* What every module of the bridge knows and no step changes: the          *)
(* validator nodes, the chains, the cross-chain transfers and how a        *)
(* transfer's origin log is turned into the Redis key (the message), the   *)
(* job id and the signature of a node.                                     *)
(***************************************************************************)
EXTENDS Naturals, FiniteSets

CONSTANTS
    Nodes,          \* the backends that share one Redis
    Chains,         \* the configured networks
    Solana,         \* the one whose id is SOLANA_CHAIN_ID
    Txs,            \* origin transactions that emit bridge logs
    Transfers,      \* lock and burn logs, one per transfer
    Log,            \* transfer -> its chains, its transaction, its position
    Messages,       \* values of murmur3(transaction hash)
    MessageOf,      \* transaction -> message
    BytesOf,        \* message -> its bytes, read as hexadecimal digits
    JobIds,         \* values of "jobID: murmur3(message)"
    JobIdOf,        \* message -> job id
    Threshold       \* chain -> signatures its bridge contract asks for

ASSUME TransfersAssumption ==
    /\ IsFiniteSet(Nodes)
    /\ Solana \in Chains
    /\ Log \in [Transfers -> [from : Chains, to : Chains, tx : Txs, index : Nat]]
    /\ MessageOf \in [Txs -> Messages]
    /\ JobIdOf \in [Messages -> JobIds]
    /\ Threshold \in [Chains -> Nat \ {0}]

(* createMessage: the message depends on the transaction only, so the logs *)
(* of one transaction share it, whatever their chains, tokens or amounts.  *)
Message(e) == MessageOf[Log[e].tx]

JobId(m) == JobIdOf[m]

(* What a signature for a chain is made over.  The message is a decimal    *)
(* number; for Solana it is read as hexadecimal, pair by pair, and an odd  *)
(* last digit is lost, so that several messages have the same bytes.       *)
Digest(chain, m) == IF chain = Solana THEN BytesOf[m] ELSE m

(* Transfers to Solana are signed over the keccak hash of the bytes in     *)
(* compact form, the others with the personal-message scheme of the wallet *)
(* (one key for all chains).                                               *)
SchemeOf(chain) == IF chain = Solana THEN "compact" ELSE "personal"

Signatures == [by : Nodes, scheme : {"compact", "personal"}]

(* A variant of the threshold choice: the origin's.                        *)
HandlerThreshold_Origin(e) == Threshold[Log[e].from]

(* The threshold a handler compares the list with.  The Ethereum handlers  *)
(* ask the destination; the Solana handlers always ask Solana's bridge.    *)
HandlerThreshold(e) ==
    Threshold[IF Log[e].from = Solana THEN Solana ELSE Log[e].to]

(* Logs of the same Solana transaction are handled in order, one at a time *)
(* (the for loop of the onLogs callback).  Ethereum logs are independent.  *)
EarlierInLog(e) ==
    {f \in Transfers : /\ Log[e].from = Solana
                       /\ Log[f].from = Solana
                       /\ Log[f].tx = Log[e].tx
                       /\ Log[f].index < Log[e].index}

(* What one notification carries: all the logs of a Solana transaction,    *)
(* a single log of an Ethereum one.                                        *)
DeliveredWith(e) ==
    IF Log[e].from = Solana THEN {f \in Transfers : Log[f].tx = Log[e].tx}
                            ELSE {e}

(* Any two sets of signers that a contract accepts have a member in common *)
(* - a choice of the operators: the code checks it nowhere.                *)
QuorumsIntersect == \A c \in Chains : 2 * Threshold[c] > Cardinality(Nodes)

=============================================================================
