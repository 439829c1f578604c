--------------------------- MODULE MCBridgeRelay ---------------------------
(***************************************************************************)
(* Small instances of BridgeRelay.  Chains: "evm1" and "evm2" are Ethereum *)
(* networks, "sol" is Solana.                                              *)
(***************************************************************************)
EXTENDS BridgeRelay, TLC

MCChains == {"evm1", "evm2", "sol"}

(* The worst case: as Solana reads them, no two messages differ. *)
MCBytesOf == [m \in Messages |-> "bytes"]

LogOf(from, to, tx, index) == [from |-> from, to |-> to, tx |-> tx, index |-> index]

(* One transfer between two Ethereum networks. *)
OneTransfer == {"x"}
OneTx == {"tx"}
OneLog == [e \in {"x"} |-> LogOf("evm1", "evm2", "tx", 0)]
OneMessage == {"m"}
OneMessageOf == [t \in {"tx"} |-> "m"]
OneJobId == {"j"}
OneJobIdOf == [m \in {"m"} |-> "j"]

(* One transfer that starts on Solana. *)
SolanaLog == [e \in {"x"} |-> LogOf("sol", "evm2", "tx", 0)]

(* Two transfers in one transaction. *)
TwoTransfers == {"x", "y"}
SameTxLog == ("x" :> LogOf("evm1", "evm2", "tx", 0)) @@ ("y" :> LogOf("evm1", "evm2", "tx", 1))
SolanaTxLog == ("x" :> LogOf("sol", "evm1", "tx", 0)) @@ ("y" :> LogOf("sol", "evm1", "tx", 1))

(* Two transactions, from each of two Ethereum networks to the other. *)
TwoTxs == {"tx", "ty"}
CrossLog == ("x" :> LogOf("evm1", "evm2", "tx", 0)) @@ ("y" :> LogOf("evm2", "evm1", "ty", 0))
TwoMessages == {"m", "n"}
TwoMessageOf == ("tx" :> "m") @@ ("ty" :> "n")
TwoJobIds == {"j", "k"}
TwoJobIdOf == ("m" :> "j") @@ ("n" :> "k")

Thresholds2 == [c \in MCChains |-> 2]
LowOrigin == [c \in MCChains |-> IF c = "evm1" THEN 1 ELSE 2]
LowSolana == [c \in MCChains |-> IF c = "sol" THEN 1 ELSE 2]

NodeSymmetry == Permutations(Nodes)
=============================================================================
