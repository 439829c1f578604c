------------------------------ MODULE Custody ------------------------------
(***************************************************************************)
(* One token and its wrapped form.  The vault of the token's home chain    *)
(* holds what was locked; the other chain has wrapped tokens for it.  The  *)
(* relay between the two is the subject of BridgeRelay; here a transfer is *)
(* one step at its origin and one at its destination, and what matters is  *)
(* how much.                                                               *)
(***************************************************************************)
EXTENDS Amounts

CONSTANTS
    AmountsOn,      \* chain -> amounts of its transfers
    MaxVault,       \* chain -> bound: what its vault holds
    MaxGained,      \* bound: what floating point adds
    None            \* no transfer under way

JobRecords == [locked : Nat, amount : Nat \cup {Exponential}]

ASSUME CustodyAssumption ==
    /\ AmountsOn \in [{"evm", "solana"} -> SUBSET (Nat \ {0})]
    /\ MaxVault \in [{"evm", "solana"} -> Nat]
    /\ MaxGained \in Nat
    /\ None \notin JobRecords

VARIABLES
    home,           \* the chain where the token is native
    scale,          \* 10^(ETH_DECIMALS - decimals) of its Solana mint
    vault,          \* locked at home
    wrapped,        \* circulating away from home
    job,            \* chain -> the transfer from it that is under way
    gained          \* history: what jobs said beyond the amounts of their logs

vars == <<home, scale, vault, wrapped, job, gained>>

Chains == {"evm", "solana"}

Away == IF home = "evm" THEN "solana" ELSE "evm"

TypeOK ==
    /\ home \in Chains
    /\ scale \in Scales
    /\ vault \in Nat
    /\ wrapped \in Nat
    /\ job \in [Chains -> JobRecords \cup {None}]
    /\ gained \in Nat

Init ==
    /\ home \in Chains
    /\ scale \in Scales
    /\ vault = 0
    /\ wrapped = 0
    /\ job = [c \in Chains |-> None]
    /\ gained = 0

(* An amount of a chain's units in Ethereum's units. *)
Value(chain, n) == IF chain = "evm" THEN n ELSE n * scale

(* What the job of a transfer says beyond its value. *)
Gain(chain, a) ==
    LET n == JobAmount(chain, a, scale)
    IN  IF n \in Nat /\ n > Value(chain, a) THEN n - Value(chain, a) ELSE 0

Start(chain, a) ==
    /\ job[chain] = None
    /\ job' = [job EXCEPT ![chain] =
                 [locked |-> a, amount |-> JobAmount(chain, a, scale)]]
    /\ gained + Gain(chain, a) <= MaxGained
    /\ gained' = gained + Gain(chain, a)

End(chain) ==
    /\ job' = [job EXCEPT ![chain] = None]
    /\ UNCHANGED gained

(* A user locks tokens at home. *)
Lock(a) ==
    /\ vault + a <= MaxVault[home]
    /\ Start(home, a)
    /\ vault' = vault + a
    /\ UNCHANGED <<home, scale, wrapped>>

(* A user burns wrapped tokens. *)
Burn(a) ==
    /\ a <= wrapped
    /\ Start(Away, a)
    /\ wrapped' = wrapped - a
    /\ UNCHANGED <<home, scale, vault>>

(* mintWrappedTokens away from home. *)
Mint ==
    /\ job[home] # None
    /\ Payable(Away, job[home].amount, scale)
    /\ wrapped' = wrapped + Paid(Away, job[home].amount, scale)
    /\ End(home)
    /\ UNCHANGED <<home, scale, vault>>

Covered == Paid(home, job[Away].amount, scale) <= vault

(* unlockTokens at home, if the vault holds enough. *)
Unlock ==
    /\ job[Away] # None
    /\ Payable(home, job[Away].amount, scale)
    /\ Covered
    /\ vault' = vault - Paid(home, job[Away].amount, scale)
    /\ End(Away)
    /\ UNCHANGED <<home, scale, wrapped>>

(* The run of the job throws and is forgotten. *)
Reject(chain) ==
    /\ job[chain] # None
    /\ LET to == IF chain = home THEN Away ELSE home
       IN  ~ (/\ Payable(to, job[chain].amount, scale)
              /\ chain = Away => Covered)
    /\ End(chain)
    /\ UNCHANGED <<home, scale, vault, wrapped>>

Next ==
    \/ \E a \in AmountsOn[home] : Lock(a)
    \/ \E a \in AmountsOn[Away] : Burn(a)
    \/ Mint
    \/ Unlock
    \/ \E c \in Chains : Reject(c)

Spec == Init /\ [][Next]_vars

-----------------------------------------------------------------------------
(* Floating point keeps the digits of an amount on Solana: there are few   *)
(* of them (it is below 4.5 * 10^15), or its mint is so coarse (12         *)
(* decimals or less) that with more digits it prints with an exponent.     *)
KeepsDigits(a, s) ==
    \/ 2 * a + 2 < Significands
    \/ 2 * Significands * PlainBelow <= (Significands - 1) * (Significands - 2) * s

DigitsKept == \A s \in Scales : \A a \in AmountsOn["solana"] : KeepsDigits(a, s)

(* No amount comes near the largest floating-point number.                 *)
FloatsReach == \A s \in Scales : \A a \in AmountsOn["solana"] : InRange(16 * (a * s))

UnderWay(chain) ==
    IF job[chain] # None /\ job[chain].amount \in Nat THEN job[chain].amount ELSE 0

(* The vault covers every wrapped token and every transfer under way, over *)
(* any number of transfers back and forth, though amounts are rounded on   *)
(* the way to Solana - up to what floating point has added, which is all   *)
(* that nobody put in.                                                     *)
Backed ==
    Value(home, vault) + gained >= Value(Away, wrapped) + UnderWay(home) + UnderWay(Away)

(* Custody implements the promise of Escrow: no step moves value that was  *)
(* not there, rounding loses less than one unit of a Solana mint, and a    *)
(* readable transfer is refused only if its payment does not fit a u64, or *)
(* if the vault is short of it because floating point added to earlier     *)
(* ones.                                                                   *)
Promise ==
    INSTANCE Escrow
    WITH Limit       <- U64,
         Precision   <- Significands,
         unit        <- scale,
         reserve     <- Value(home, vault),
         circulating <- Value(Away, wrapped),
         outbound    <- UnderWay(home),
         returning   <- UnderWay(Away)

ImplementsEscrow == Promise!Spec

(* A job that can be read says what was locked or burned to a few parts in *)
(* 2^53, through three roundings (Number, the product, toString); and to   *)
(* the last unit, though numbers of its size are further apart than a      *)
(* unit, unless the amount has more digits than a number keeps.            *)
JobsAreNear ==
    \A c \in Chains : job[c] # None /\ job[c].amount \in Nat =>
        LET value == Value(c, job[c].locked)
        IN  /\ Promise!Near(job[c].amount, value)
            /\ job[c].amount # value =>
                    c = "solana" /\ ~ KeepsDigits(job[c].locked, scale)

(* What dto/transaction.dto.ts says of the amount of a transfer ("as a     *)
(* string to handle large numbers"): every amount can be read back.        *)
LargeAmountsAreRead ==
    \A c \in Chains : job[c] # None => job[c].amount # Exponential
=============================================================================
