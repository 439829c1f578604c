--------------------------- MODULE BridgeTransfer ---------------------------
(***************************************************************************)
(* What the bridge promises, without Redis, queue, workers or contracts:   *)
(* transactions lock or burn tokens at their origin, nodes approve the     *)
(* messages of those they saw, and a transfer is settled at its            *)
(* destination once, when a threshold of nodes has approved its message.   *)
(***************************************************************************)
EXTENDS Transfers

VARIABLES
    locked,         \* transactions mined at their origin
    approved,       \* message -> nodes that approved it
    settled         \* transfer -> how often it was paid out

Init ==
    /\ locked = {}
    /\ approved = [m \in Messages |-> {}]
    /\ settled = [e \in Transfers |-> 0]

Lock(t) ==
    /\ t \notin locked
    /\ locked' = locked \cup {t}
    /\ UNCHANGED <<approved, settled>>

Approve(n, m) ==
    /\ \E e \in Transfers : Message(e) = m /\ Log[e].tx \in locked
    /\ approved' = [approved EXCEPT ![m] = @ \cup {n}]
    /\ UNCHANGED <<locked, settled>>

Settle(e) ==
    /\ Log[e].tx \in locked
    /\ Cardinality(approved[Message(e)]) >= Threshold[Log[e].to]
    /\ settled[e] = 0
    /\ settled' = [settled EXCEPT ![e] = @ + 1]
    /\ UNCHANGED <<locked, approved>>

Next ==
    \/ \E t \in Txs : Lock(t)
    \/ \E n \in Nodes, m \in Messages : Approve(n, m)
    \/ \E e \in Transfers : Settle(e)

Spec == Init /\ [][Next]_<<locked, approved, settled>>
=============================================================================
