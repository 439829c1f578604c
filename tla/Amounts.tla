------------------------------ MODULE Amounts ------------------------------
(***************************************************************************)
(* How an amount travels from one chain to another.  Ethereum networks     *)
(* count in units of 10^-18, a Solana mint in units of 10^-decimals; the   *)
(* job always carries Ethereum's units, as a decimal string.  The Solana   *)
(* handlers compute it in floating point.                                  *)
(***************************************************************************)
EXTENDS Integers, FiniteSetsExt

CONSTANTS
    Scales,         \* values of 10^(ETH_DECIMALS - decimals)
    Tens,           \* the powers of ten
    Ulps,           \* the powers of two
    Significands,   \* 2^53: integers below are exact floating-point numbers
    PlainBelow,     \* 10^21: numbers from here on print with an exponent
    U64,            \* 2^64: amounts on Solana are below
    Exponential     \* any string with an exponent

ASSUME AmountsAssumption ==
    /\ Scales \subseteq Nat \ {0}
    /\ U64 \in Nat
    /\ Exponential \notin Nat

(* 10^(18 - decimals) is a power of ten; the powers of ten divide each     *)
(* other, and all powers of two come from doubling one.                    *)
ASSUME NumberAssumption ==
    /\ Scales \subseteq Tens
    /\ Tens \subseteq Nat \ {0}
    /\ \A s, t \in Tens : s <= t => t % s = 0
    /\ 1 \in Ulps
    /\ Ulps \subseteq Nat \ {0}
    /\ \A u \in Ulps : u = 1 \/ \E h \in Ulps : u = 2 * h
    /\ Significands \in Nat \ {0}
    /\ Significands % 2 = 0 /\ Significands >= 8
    /\ PlainBelow \in Nat

-----------------------------------------------------------------------------
(* JavaScript's numbers, as far as positive integers go. *)

(* There are floating-point numbers above n. *)
InRange(n) == \E u \in Ulps : n < u * Significands

(* The distance between the floating-point numbers around n. *)
Ulp(n) == Min({u \in Ulps : n < u * Significands})

(* The floating-point number nearest to n, ties to even. *)
Round(n) ==
    LET u == Ulp(n)
        q == n \div u
        up == 2 * (n % u) > u \/ (2 * (n % u) = u /\ q % 2 = 1)
    IN  (IF up THEN q + 1 ELSE q) * u

(* toString: of the decimals that read back as v, those with the fewest    *)
(* digits, and of those the one nearest to v.                              *)
Printed(v) ==
    LET near == {n \in v - Ulp(v) .. v + Ulp(v) : n > 0 /\ Round(n) = v}
        t == Max({ten \in Tens : \E n \in near : n % ten = 0})
        short == {n \in near : n % t = 0}
        distance(n) == IF n < v THEN v - n ELSE n - v
    IN  CHOOSE n \in short : \A m \in short : distance(n) <= distance(m)

(* 10^21 is a floating-point number, and a whole number of units of every  *)
(* mint.                                                                   *)
LimitIsNumber == Round(PlainBelow) = PlainBelow /\ \A s \in Scales : PlainBelow % s = 0

-----------------------------------------------------------------------------
(* A variant: the product is turned into a BigInt before it is printed,    *)
(* which shows all the digits of the floating-point number.                *)
JobAmount_AsBigInt(chain, a, scale) ==
    IF chain = "evm" THEN a ELSE Round(Round(a) * scale)

(* The amount of a job, from a log that says a on a chain.  An event of an *)
(* Ethereum network carries a bigint; a Solana event's u64 is turned into  *)
(* a Number and multiplied.                                                *)
JobAmount(chain, a, scale) ==
    IF chain = "evm" THEN a
    ELSE LET adjusted == Round(Round(a) * scale)
         IN  IF adjusted < PlainBelow THEN Printed(adjusted) ELSE Exponential

(* Variants: the division rounds up, or is off by one. *)
Paid_RoundsUp(chain, n, scale) ==
    IF chain = "evm" THEN n ELSE (n + scale - 1) \div scale

Paid_OffByOne(chain, n, scale) == IF chain = "evm" THEN n ELSE n \div scale - 1

(* What is paid for a job amount of n: unchanged on Ethereum networks,     *)
(* divided without remainder on Solana.                                    *)
Paid(chain, n, scale) == IF chain = "evm" THEN n ELSE n \div scale

(* A variant: the instruction takes a signed number. *)
Payable_Signed(chain, amount, scale) ==
    /\ amount \in Nat
    /\ chain = "solana" => Paid(chain, amount, scale) < U64 \div 2

(* BigInt in the processor reads the amount, and a Solana payment fits the *)
(* u64 of its instruction.                                                 *)
Payable(chain, amount, scale) ==
    /\ amount \in Nat
    /\ chain = "solana" => Paid(chain, amount, scale) < U64

=============================================================================
