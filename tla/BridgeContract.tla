--------------------------- MODULE BridgeContract ---------------------------
(***************************************************************************)
(* The bridge contracts and programs at the destinations.  They are not in *)
(* this repository: their promise is read from the calls the code makes    *)
(* (amount, receiver, token, message, signatures), the UsedSignature       *)
(* accounts it passes for every signature, and the errors of the Solana    *)
(* IDL (NotEnoughSignatures, NotUniqueSignatures, SignatureAlreadyUsed,    *)
(* InvalidSigner).  A call that fails changes nothing.                     *)
(***************************************************************************)
EXTENDS Transfers, Sequences, Functions

VARIABLE ledger     \* chain -> the mints and unlocks it has executed

Payments == [transfer : Transfers, signatures : SUBSET Signatures]

LedgerTypeOK == ledger \in [Chains -> SUBSET Payments]

ContractInit == ledger = [c \in Chains |-> {}]

(* The contract knows what was signed, not which transfer it was for. *)
PaymentsFor(c, m) ==
    {p \in ledger[c] : Digest(c, Message(p.transfer)) = Digest(c, m)}

(* Signatures are consumed one by one, not per message. *)
UsedSignatures(c, m) == UNION {p.signatures : p \in PaymentsFor(c, m)}

(* A variant: one signature less than the threshold will do.               *)
Accepts_OneShort(c, m, ss) ==
    /\ \A s \in Range(ss) : s.scheme = SchemeOf(c)
    /\ Len(ss) + 1 >= Threshold[c]
    /\ Cardinality(Range(ss)) = Len(ss)
    /\ Range(ss) \cap UsedSignatures(c, m) = {}

(* ss is the list of signatures of the call, in the order of Redis. *)
Accepts(c, m, ss) ==
    /\ \A s \in Range(ss) : s.scheme = SchemeOf(c)              \* InvalidSigner
    /\ Len(ss) >= Threshold[c]                            \* NotEnoughSignatures
    /\ Cardinality(Range(ss)) = Len(ss)                   \* NotUniqueSignatures
    /\ Range(ss) \cap UsedSignatures(c, m) = {}          \* SignatureAlreadyUsed

Pay(e, ss) ==
    ledger' = [ledger EXCEPT ![Log[e].to] =
                 @ \cup {[transfer |-> e, signatures |-> Range(ss)]}]

Paid(e) == \E p \in ledger[Log[e].to] : p.transfer = e

=============================================================================
