--------------------------- MODULE Custody_proofs ---------------------------
(***************************************************************************)
(* The custody of a token implements the promise of Escrow, for every      *)
(* scale, every set of amounts and any number of transfers: a job says its *)
(* amount to a few parts in 2^53, and exactly if it has no more digits     *)
(* than a number keeps; and the vault covers what circulates up to what    *)
(* floating point has added.  Only amounts near the largest floating-point *)
(* number are excluded (FloatsReach), which no u64 comes near.             *)
(***************************************************************************)
EXTENDS Custody, Amounts_proofs

-----------------------------------------------------------------------------
(* An amount of few digits is printed exactly, however large the product;  *)
(* and of a coarse mint nothing else is printed plainly.                   *)
THEOREM KeptDigitsArePrinted ==
    ASSUME NEW s \in Scales, NEW a \in AmountsOn["solana"], KeepsDigits(a, s),
           InRange(16 * (a * s))
    PROVE  JobAmount("solana", a, s) \in {a * s, Exponential}
  <1>1. a \in Nat \ {0} /\ s \in Tens /\ s \in Nat \ {0}
    BY CustodyAssumption, NumberAssumption
  <1>2. InRange(4 * (a * s)) /\ Significands \in Nat
    <2>1. a * s \in Nat
      BY <1>1
    <2>2. 4 * (a * s) \in Nat /\ 16 * (a * s) \in Nat /\ 4 * (a * s) <= 16 * (a * s)
      BY <2>1
    <2> QED
      BY <2>2, UlpGrows, NumberAssumption
  <1>3. CASE 2 * a + 2 < Significands
    <2>1. Round(a) = a
      BY <1>1, <1>2, <1>3, SmallIsExact
    <2>2. Printed(Round(a * s)) = a * s
      BY <1>1, <1>2, <1>3, PrintedExactly
    <2> QED
      BY <2>1, <2>2 DEF JobAmount
  <1>4. CASE 2 * a + 2 >= Significands
    <2> DEFINE adjusted == Round(Round(a) * s)
    <2>1. adjusted >= PlainBelow
      BY <1>1, <1>2, <1>4, LargeProduct DEF KeepsDigits
    <2>2. adjusted \in Nat /\ PlainBelow \in Nat
      BY <1>1, <1>2, <1>4, LargeProduct, NumberAssumption DEF KeepsDigits
    <2>3. ~ (adjusted < PlainBelow)
      BY <2>1, <2>2
    <2> QED
      BY <2>3 DEF JobAmount
  <1> QED
    BY <1>1, <1>2, <1>3, <1>4

-----------------------------------------------------------------------------
(* Values.                                                                 *)

(* Division without remainder: at most n comes back, less than one unit is *)
(* lost.                                                                   *)
LEMMA ScalingDown ==
    ASSUME NEW n \in Nat, NEW s \in Nat \ {0}
    PROVE  /\ n \div s \in Nat
           /\ s * (n \div s) <= n
           /\ n < s * (n \div s) + s
  OBVIOUS

LEMMA ScaleType ==
    ASSUME TypeOK PROVE scale \in Nat \ {0}
  BY AmountsAssumption DEF TypeOK

(* What is paid is a number, its value at most that of the job, and less   *)
(* than one unit below.                                                    *)
LEMMA PaidValue ==
    ASSUME TypeOK, NEW c \in Chains, NEW n \in Nat
    PROVE  /\ Paid(c, n, scale) \in Nat
           /\ Value(c, Paid(c, n, scale)) <= n
           /\ n < Value(c, Paid(c, n, scale)) + scale
  <1>1. CASE c = "evm"
    BY <1>1, ScaleType DEF Paid, Value
  <1>2. CASE c # "evm"
    <2>1. /\ n \div scale \in Nat
          /\ scale * (n \div scale) <= n
          /\ n < scale * (n \div scale) + scale
      BY ScalingDown, ScaleType
    <2>2. scale * (n \div scale) = (n \div scale) * scale
      BY <2>1, ScaleType
    <2> QED
      BY <1>2, <2>1, <2>2 DEF Paid, Value
  <1> QED
    BY <1>1, <1>2

LEMMA ValueSum ==
    ASSUME TypeOK, NEW c \in Chains, NEW a \in Nat, NEW b \in Nat
    PROVE  /\ Value(c, a) \in Nat
           /\ Value(c, a + b) = Value(c, a) + Value(c, b)
  BY ScaleType DEF Value

(* What a new job says: nothing readable, or nearly the value of the       *)
(* amount, and exactly that unless its digits are too many.                *)
LEMMA NewJobAmount ==
    ASSUME TypeOK, FloatsReach, NEW c \in Chains, NEW a \in AmountsOn[c]
    PROVE  LET n == JobAmount(c, a, scale)
           IN  \/ n = Exponential
               \/ /\ n \in Nat
                  /\ Promise!Near(n, Value(c, a))
                  /\ n # Value(c, a) => c = "solana" /\ ~ KeepsDigits(a, scale)
  <1>1. CASE c = "evm"
    <2>1. a \in Nat /\ Significands \in Nat
      BY <1>1, CustodyAssumption, NumberAssumption
    <2>2. Significands * a <= Significands * a + 4 * a
      BY <2>1
    <2> QED
      BY <1>1, <2>1, <2>2 DEF JobAmount, Value, Promise!Near
  <1>2. CASE c = "solana"
    <2>1. /\ a \in AmountsOn["solana"] /\ a \in Nat \ {0}
          /\ scale \in Scales /\ InRange(16 * (a * scale))
      BY <1>2, CustodyAssumption DEF FloatsReach, TypeOK
    <2>2. Value(c, a) = a * scale
      BY <1>2 DEF Value
    <2>3. \/ JobAmount(c, a, scale) = Exponential
          \/ /\ JobAmount(c, a, scale) \in Nat
             /\ Promise!Near(JobAmount(c, a, scale), Value(c, a))
      BY <1>2, <2>1, <2>2, JobIsNear DEF Promise!Near
    <2>4. KeepsDigits(a, scale) => JobAmount(c, a, scale) \in {Value(c, a), Exponential}
      BY <1>2, <2>1, <2>2, KeptDigitsArePrinted
    <2> QED
      BY <1>2, <2>3, <2>4
  <1> QED
    BY <1>1, <1>2 DEF Chains

LEMMA HomeTypes ==
    ASSUME TypeOK
    PROVE  /\ home \in Chains /\ Away \in Chains /\ home # Away
           /\ Chains = {home, Away}
           /\ AmountsOn[home] \subseteq Nat \ {0} /\ AmountsOn[Away] \subseteq Nat \ {0}
           /\ \A c \in Chains : UnderWay(c) \in Nat
  BY CustodyAssumption DEF TypeOK, Chains, Away, UnderWay

(* How a transfer that starts or ends changes what is under way.  What     *)
(* starts says its value as Escrow allows.                                 *)
LEMMA StartUnderWay ==
    ASSUME TypeOK, FloatsReach, NEW c \in Chains, NEW a \in AmountsOn[c], a \in Nat,
           Start(c, a)
    PROVE  /\ job' \in [Chains -> JobRecords \cup {None}]
           /\ gained' \in Nat
           /\ UnderWay(c) = 0
           /\ Promise!Says(Value(c, a), UnderWay(c)')
           /\ \A d \in Chains \ {c} : UnderWay(d)' = UnderWay(d)
  <1> DEFINE amount == JobAmount(c, a, scale)
             value == Value(c, a)
  <1>1. /\ amount = Exponential \/ (amount \in Nat /\ Promise!Near(amount, value))
        /\ value \in Nat
    BY NewJobAmount, ValueSum
  <1>2. gained' = gained + IF amount \in Nat /\ amount > value THEN amount - value ELSE 0
    BY DEF Start, Gain
  <1> HIDE DEF amount, value
  <1>3. job' = [job EXCEPT ![c] = [locked |-> a, amount |-> amount]] /\ job[c] = None
    BY DEF Start, amount
  <1>4. [locked |-> a, amount |-> amount] \in JobRecords
    BY <1>1 DEF JobRecords
  <1>5. job'[c].amount = amount /\ job'[c] = [locked |-> a, amount |-> amount]
        /\ \A d \in Chains \ {c} : job'[d] = job[d]
    BY <1>3 DEF TypeOK
  <1>6. job' \in [Chains -> JobRecords \cup {None}]
    BY <1>3, <1>4 DEF TypeOK
  <1>7. UnderWay(c)' = IF amount \in Nat THEN amount ELSE 0
    <2>1. CASE job'[c] # None
      BY <1>5, <2>1 DEF UnderWay
    <2>2. CASE job'[c] = None
      BY <1>4, <1>5, <2>2, CustodyAssumption
    <2> QED
      BY <2>1, <2>2
  <1>8. UnderWay(c) = 0 /\ \A d \in Chains \ {c} : UnderWay(d)' = UnderWay(d)
    BY <1>3, <1>5 DEF UnderWay
  <1>9. gained' \in Nat
    BY <1>1, <1>2 DEF TypeOK
  <1>10. /\ UnderWay(c)' = 0 \/ Promise!Near(UnderWay(c)', value)
         /\ gained' = gained + IF UnderWay(c)' > value THEN UnderWay(c)' - value ELSE 0
    BY <1>1, <1>2, <1>7, AmountsAssumption
  <1>11. Promise!Says(value, UnderWay(c)')
    BY <1>10 DEF Promise!Says
  <1> QED
    BY <1>6, <1>8, <1>9, <1>11 DEF value

LEMMA EndUnderWay ==
    ASSUME TypeOK, NEW c \in Chains, End(c)
    PROVE  /\ job' \in [Chains -> JobRecords \cup {None}]
           /\ UnderWay(c)' = 0
           /\ UNCHANGED gained
           /\ \A d \in Chains \ {c} : UnderWay(d)' = UnderWay(d)
  BY DEF TypeOK, End, UnderWay

(* A smaller value is of a smaller amount. *)
LEMMA ValueOrder ==
    ASSUME TypeOK, NEW c \in Chains, NEW a \in Nat, NEW b \in Nat, Value(c, a) <= Value(c, b)
    PROVE  a <= b
  <1> SUFFICES ASSUME b + 1 <= a PROVE FALSE
    OBVIOUS
  <1>1. PICK d \in Nat : a = b + (1 + d)
    <2>1. a = b + (1 + (a - b - 1)) /\ a - b - 1 \in Nat
      OBVIOUS
    <2> QED
      BY <2>1
  <1>2. /\ Value(c, a) = Value(c, b) + Value(c, 1 + d)
        /\ Value(c, 1 + d) = Value(c, 1) + Value(c, d)
        /\ Value(c, b) \in Nat /\ Value(c, 1) \in Nat /\ Value(c, d) \in Nat
    <2>1. 1 \in Nat /\ 1 + d \in Nat
      OBVIOUS
    <2>2. Value(c, b + (1 + d)) = Value(c, b) + Value(c, 1 + d)
      BY <2>1, ValueSum
    <2>3. Value(c, 1 + d) = Value(c, 1) + Value(c, d)
      BY <2>1, ValueSum
    <2>4. Value(c, b) \in Nat /\ Value(c, 1) \in Nat /\ Value(c, d) \in Nat
      BY <2>1, ValueSum
    <2> QED
      BY <1>1, <2>2, <2>3, <2>4
  <1>3. Value(c, 1) # 0
    BY ScaleType DEF Value
  <1> QED
    BY <1>2, <1>3

(* A number that no call can carry is of at least 2^64 units. *)
LEMMA TooLarge ==
    ASSUME TypeOK, NEW c \in Chains, NEW n \in Nat, ~ Payable(c, n, scale)
    PROVE  n >= U64 * scale
  <1> DEFINE q == n \div scale
  <1>1. c = "solana" /\ ~ (q < U64)
    BY DEF Payable, Paid, Chains
  <1>2. q \in Nat /\ scale * q <= n /\ scale \in Nat \ {0} /\ U64 \in Nat
    BY ScalingDown, ScaleType, AmountsAssumption
  <1> HIDE DEF q
  <1>3. U64 * scale <= q * scale
    BY <1>1, <1>2
  <1>4. q * scale = scale * q /\ q * scale \in Nat /\ U64 * scale \in Nat
    BY <1>2
  <1> QED
    BY <1>2, <1>3, <1>4

-----------------------------------------------------------------------------
(* Every action is one of Escrow: what is paid at home finds the vault     *)
(* short only if something was gained, because Backed holds.               *)
LEMMA NextImplements ==
    ASSUME FloatsReach, TypeOK, Backed, [Next]_vars
    PROVE  /\ TypeOK'
           /\ [Promise!Next]_<<scale, Value(home, vault), Value(Away, wrapped),
                               UnderWay(home), UnderWay(Away), gained>>
  <1> DEFINE step == [Promise!Next]_<<scale, Value(home, vault), Value(Away, wrapped),
                                      UnderWay(home), UnderWay(Away), gained>>
  <1> USE HomeTypes
  <1>types. /\ vault \in Nat /\ Value(home, vault) \in Nat
        /\ wrapped \in Nat /\ Value(Away, wrapped) \in Nat
        /\ scale \in Nat \ {0} /\ U64 \in Nat /\ gained \in Nat
    BY ValueSum, ScaleType, AmountsAssumption DEF TypeOK
  <1>backed. Value(home, vault) + gained >= Value(Away, wrapped) + UnderWay(home) + UnderWay(Away)
    BY DEF Backed
  <1>1. ASSUME NEW a \in AmountsOn[home], Lock(a) PROVE TypeOK' /\ Promise!Deposit
    <2>1. Start(home, a) /\ vault' = vault + a /\ UNCHANGED <<home, scale, wrapped>>
      BY <1>1 DEF Lock
    <2>2. /\ job' \in [Chains -> JobRecords \cup {None}]
          /\ gained' \in Nat
          /\ UnderWay(home) = 0
          /\ Promise!Says(Value(home, a), UnderWay(home)')
          /\ UnderWay(Away)' = UnderWay(Away)
      BY <2>1, StartUnderWay DEF Away
    <2>3. TypeOK'
      BY <2>1, <2>2 DEF TypeOK
    <2>4. /\ Value(home, vault)' = Value(home, vault) + Value(home, a)
          /\ Value(home, a) \in Nat \ {0}
      BY <2>1, <1>types, ValueSum DEF Value
    <2>5. Value(Away, wrapped)' = Value(Away, wrapped)
      BY <2>1 DEF Value, Away
    <2>6. Value(home, vault)' - Value(home, vault) = Value(home, a)
      BY <2>4, <1>types
    <2>7. Value(home, vault)' > Value(home, vault)
      BY <2>4, <1>types
    <2> QED
      BY <2>1, <2>2, <2>3, <2>5, <2>6, <2>7 DEF Promise!Deposit
  <1>2. ASSUME NEW a \in AmountsOn[Away], Burn(a) PROVE TypeOK' /\ Promise!Redeem
    <2>1. /\ Start(Away, a) /\ a <= wrapped /\ wrapped' = wrapped - a
          /\ UNCHANGED <<home, scale, vault>>
      BY <1>2 DEF Burn
    <2>2. /\ job' \in [Chains -> JobRecords \cup {None}]
          /\ gained' \in Nat
          /\ UnderWay(Away) = 0
          /\ Promise!Says(Value(Away, a), UnderWay(Away)')
          /\ UnderWay(home)' = UnderWay(home)
      BY <2>1, StartUnderWay DEF Away
    <2>3. wrapped' \in Nat /\ wrapped = wrapped' + a /\ a \in Nat
      BY <2>1 DEF TypeOK
    <2>4. TypeOK'
      BY <2>1, <2>2, <2>3 DEF TypeOK
    <2>5. /\ Value(Away, wrapped) = Value(Away, wrapped') + Value(Away, a)
          /\ Value(Away, wrapped') \in Nat /\ Value(Away, a) \in Nat \ {0}
      <3>1. /\ Value(Away, wrapped) = Value(Away, wrapped') + Value(Away, a)
            /\ Value(Away, wrapped') \in Nat /\ Value(Away, a) \in Nat
        BY <2>3, ValueSum
      <3>2. Value(Away, a) # 0
        BY <2>3, <1>types DEF Value
      <3> QED
        BY <3>1, <3>2
    <2>6. /\ Value(home, vault)' = Value(home, vault)
          /\ Value(Away, wrapped)' = Value(Away, wrapped')
      BY <2>1 DEF Value, Away
    <2>7. Value(Away, wrapped) - Value(Away, wrapped)' = Value(Away, a)
      BY <2>5, <2>6
    <2>8. Value(Away, wrapped)' \in 0 .. Value(Away, wrapped) - 1
      BY <2>5, <2>6
    <2> QED
      BY <2>1, <2>2, <2>4, <2>6, <2>7, <2>8 DEF Promise!Redeem
  <1>3. CASE Mint
    <2> DEFINE paid == Paid(Away, job[home].amount, scale)
    <2>1. /\ job[home] # None /\ job[home].amount \in Nat /\ wrapped' = wrapped + paid
          /\ End(home) /\ UNCHANGED <<home, scale, vault>>
      BY <1>3 DEF Mint, Payable
    <2>2. UnderWay(home) = job[home].amount
      BY <2>1 DEF UnderWay
    <2>3. /\ paid \in Nat /\ Value(Away, paid) <= UnderWay(home)
          /\ UnderWay(home) < Value(Away, paid) + scale
      BY <2>1, <2>2, PaidValue
    <2> HIDE DEF paid
    <2>4. /\ job' \in [Chains -> JobRecords \cup {None}]
          /\ UnderWay(home)' = 0 /\ UnderWay(Away)' = UnderWay(Away)
          /\ UNCHANGED gained
      BY <2>1, EndUnderWay DEF Away
    <2>5. TypeOK'
      BY <2>1, <2>3, <2>4 DEF TypeOK
    <2>6. /\ Value(Away, wrapped') = Value(Away, wrapped) + Value(Away, paid)
          /\ Value(Away, paid) \in Nat
      BY <2>1, <2>3, <1>types, ValueSum
    <2>7. /\ Value(home, vault)' = Value(home, vault)
          /\ Value(Away, wrapped)' = Value(Away, wrapped')
      BY <2>1 DEF Value, Away
    <2>8. Value(Away, wrapped)' - Value(Away, wrapped) = Value(Away, paid)
      BY <2>6, <2>7, <1>types
    <2>9. Promise!Settles(UnderWay(home), Value(Away, paid))
      BY <2>3, <2>6 DEF Promise!Settles
    <2>10. Promise!Issue
      BY <2>1, <2>4, <2>7, <2>8, <2>9 DEF Promise!Issue
    <2> QED
      BY <2>5, <2>10 DEF Promise!Next
  <1>4. CASE Unlock
    <2> DEFINE paid == Paid(home, job[Away].amount, scale)
    <2>1. /\ job[Away] # None /\ job[Away].amount \in Nat
          /\ paid <= vault /\ vault' = vault - paid
          /\ End(Away) /\ UNCHANGED <<home, scale, wrapped>>
      BY <1>4 DEF Unlock, Payable, Covered
    <2>2. UnderWay(Away) = job[Away].amount
      BY <2>1 DEF UnderWay
    <2>3. /\ paid \in Nat /\ Value(home, paid) <= UnderWay(Away)
          /\ UnderWay(Away) < Value(home, paid) + scale
      BY <2>1, <2>2, PaidValue
    <2> HIDE DEF paid
    <2>4. /\ job' \in [Chains -> JobRecords \cup {None}]
          /\ UnderWay(Away)' = 0 /\ UnderWay(home)' = UnderWay(home)
          /\ UNCHANGED gained
      BY <2>1, EndUnderWay DEF Away
    <2>5. vault' \in Nat /\ vault = vault' + paid
      BY <2>1, <2>3, <1>types
    <2>6. TypeOK'
      BY <2>1, <2>4, <2>5 DEF TypeOK
    <2>7. /\ Value(home, vault) = Value(home, vault') + Value(home, paid)
          /\ Value(home, vault') \in Nat /\ Value(home, paid) \in Nat
      BY <2>3, <2>5, ValueSum
    <2>8. /\ Value(home, vault)' = Value(home, vault')
          /\ Value(Away, wrapped)' = Value(Away, wrapped)
      BY <2>1 DEF Value, Away
    <2>9. /\ Value(home, vault) - Value(home, vault)' = Value(home, paid)
          /\ Value(home, vault)' >= 0
      BY <2>7, <2>8
    <2>10. Promise!Settles(UnderWay(Away), Value(home, paid))
      BY <2>3, <2>7 DEF Promise!Settles
    <2>11. Promise!Release
      BY <2>1, <2>4, <2>8, <2>9, <2>10 DEF Promise!Release
    <2> QED
      BY <2>6, <2>11 DEF Promise!Next
  <1>5. ASSUME NEW c \in Chains, Reject(c) PROVE TypeOK' /\ step
    <2>1. /\ End(c) /\ job[c] # None /\ UNCHANGED <<home, scale, vault, wrapped>>
      BY <1>5 DEF Reject
    <2>2. /\ job' \in [Chains -> JobRecords \cup {None}]
          /\ UnderWay(c)' = 0 /\ \A d \in Chains \ {c} : UnderWay(d)' = UnderWay(d)
          /\ UNCHANGED gained
      BY <2>1, EndUnderWay
    <2>3. TypeOK'
      BY <2>1, <2>2 DEF TypeOK
    <2>4. UNCHANGED <<scale, Value(home, vault), Value(Away, wrapped), gained>>
      BY <2>1, <2>2 DEF Value, Away
    <2>5. \/ UnderWay(c) = 0 \/ UnderWay(c) >= U64 * scale
          \/ c = Away /\ UnderWay(c) > Value(home, vault) /\ gained > 0
      <3> SUFFICES ASSUME job[c].amount \in Nat
                   PROVE  \/ job[c].amount >= U64 * scale
                          \/ c = Away /\ job[c].amount > Value(home, vault) /\ gained > 0
        BY <2>1 DEF UnderWay
      <3> DEFINE to == IF c = home THEN Away ELSE home
                 n == job[c].amount
      <3>1. to \in Chains /\ UnderWay(c) = n
        BY <2>1 DEF UnderWay
      <3>2. CASE ~ Payable(to, n, scale)
        BY <3>1, <3>2, TooLarge
      <3>3. CASE c = Away /\ ~ Covered
        <4> DEFINE paid == Paid(home, n, scale)
        <4>1. paid \in Nat /\ Value(home, paid) <= n /\ ~ (paid <= vault)
          BY <3>3, PaidValue DEF Covered
        <4>2. UnderWay(home) \in Nat /\ UnderWay(Away) = n /\ n \in Nat
          BY <3>1, <3>3
        <4> HIDE DEF n, paid
        <4>3. Value(home, paid) \in Nat
          BY <4>1, ValueSum
        <4>4. n > Value(home, vault)
          <5> SUFFICES ASSUME n <= Value(home, vault) PROVE FALSE
            BY <4>2, <1>types
          <5>1. Value(home, paid) <= Value(home, vault)
            BY <4>1, <4>2, <4>3, <1>types
          <5> QED
            BY <4>1, <5>1, <1>types, ValueOrder
        <4>5. gained > 0
          BY <4>2, <4>4, <1>types, <1>backed
        <4> QED
          BY <3>3, <4>4, <4>5 DEF n
      <3> QED
        BY <1>5, <3>2, <3>3 DEF Reject
    <2>6. UNCHANGED <<UnderWay(home), UnderWay(Away)>> \/ Promise!Void
      <3>1. home' = home /\ Away' = Away
        BY <2>1 DEF Away
      <3>2. \/ c = home /\ UnderWay(home)' = 0 /\ UNCHANGED UnderWay(Away)
            \/ c = Away /\ UnderWay(Away)' = 0 /\ UNCHANGED UnderWay(home)
        BY <2>2, <3>1
      <3>3. CASE UnderWay(c) = 0
        BY <3>2, <3>3
      <3>4. CASE UnderWay(c) >= U64 * scale
        BY <2>4, <3>2, <3>4 DEF Promise!Void
      <3>5. CASE c = Away /\ UnderWay(c) > Value(home, vault) /\ gained > 0
        BY <2>4, <3>2, <3>5 DEF Promise!Void
      <3> QED
        BY <2>5, <3>3, <3>4, <3>5
    <2> QED
      BY <2>3, <2>4, <2>6 DEF Promise!Next
  <1>6. CASE UNCHANGED vars
    BY <1>6 DEF vars, TypeOK, Value, Away, UnderWay
  <1> QED
    BY <1>1, <1>2, <1>3, <1>4, <1>5, <1>6 DEF Next, Promise!Next

(* Escrow creates no value but what is gained.                             *)
LEMMA EscrowBacked ==
    ASSUME TypeOK, TypeOK', Backed,
           [Promise!Next]_<<scale, Value(home, vault), Value(Away, wrapped),
                            UnderWay(home), UnderWay(Away), gained>>
    PROVE  Backed'
  <1>1. /\ Value(home, vault) \in Nat /\ Value(Away, wrapped) \in Nat
        /\ UnderWay(home) \in Nat /\ UnderWay(Away) \in Nat /\ gained \in Nat
    BY ValueSum, HomeTypes DEF TypeOK
  <1>2. /\ Value(home, vault)' \in Nat /\ Value(Away, wrapped)' \in Nat
        /\ UnderWay(home)' \in Nat /\ UnderWay(Away)' \in Nat /\ gained' \in Nat
    <2>1. /\ vault' \in Nat /\ wrapped' \in Nat /\ scale' \in Nat
          /\ home' \in Chains /\ Away' \in Chains
      BY AmountsAssumption DEF TypeOK, Away, Chains
    <2>2. vault' * scale' \in Nat /\ wrapped' * scale' \in Nat
      <3>1. \A x, y \in Nat : x * y \in Nat
        OBVIOUS
      <3> QED
        BY <2>1, <3>1, Zenon
    <2>3. Value(home, vault)' \in Nat /\ Value(Away, wrapped)' \in Nat
      BY <2>1, <2>2, Zenon DEF Value
    <2> QED
      BY <2>3 DEF UnderWay, TypeOK
  <1>3. Value(home, vault) + gained >= Value(Away, wrapped) + UnderWay(home) + UnderWay(Away)
    BY DEF Backed
  <1>4. Value(home, vault)' + gained' >= Value(Away, wrapped)' + UnderWay(home)' + UnderWay(Away)'
    <2>1. CASE Promise!Deposit
      BY <1>1, <1>2, <1>3, <2>1 DEF Promise!Deposit, Promise!Says
    <2>2. CASE Promise!Issue
      BY <1>1, <1>2, <1>3, <2>2 DEF Promise!Issue, Promise!Settles
    <2>3. CASE Promise!Redeem
      BY <1>1, <1>2, <1>3, <2>3 DEF Promise!Redeem, Promise!Says
    <2>4. CASE Promise!Release
      BY <1>1, <1>2, <1>3, <2>4 DEF Promise!Release, Promise!Settles
    <2>5. CASE Promise!Void
      BY <1>1, <1>2, <1>3, <2>5 DEF Promise!Void
    <2> QED
      BY <1>3, <2>1, <2>2, <2>3, <2>4, <2>5 DEF Promise!Next
  <1> QED
    BY <1>4 DEF Backed

LEMMA InitBacked ==
    Init => /\ TypeOK /\ Backed
            /\ UnderWay(home) = 0 /\ UnderWay(Away) = 0
            /\ Value(home, vault) = 0 /\ Value(Away, wrapped) = 0 /\ gained = 0
  <1> SUFFICES ASSUME Init
               PROVE  /\ TypeOK /\ Backed
                      /\ UnderWay(home) = 0 /\ UnderWay(Away) = 0
                      /\ Value(home, vault) = 0 /\ Value(Away, wrapped) = 0 /\ gained = 0
    OBVIOUS
  <1>1. TypeOK
    BY DEF Init, TypeOK
  <1>2. UnderWay(home) = 0 /\ UnderWay(Away) = 0
    BY <1>1, HomeTypes DEF Init, UnderWay
  <1>3. Value(home, vault) = 0 /\ Value(Away, wrapped) = 0 /\ gained = 0
    BY <1>1, ScaleType DEF Init, Value
  <1> QED
    BY <1>1, <1>2, <1>3 DEF Backed

LEMMA Invariance == FloatsReach => (Spec => [](TypeOK /\ Backed))
  <1> SUFFICES ASSUME FloatsReach PROVE Spec => [](TypeOK /\ Backed)
    OBVIOUS
  <1>1. Init => TypeOK /\ Backed
    BY InitBacked
  <1>2. TypeOK /\ Backed /\ [Next]_vars => (TypeOK /\ Backed)'
    BY NextImplements, EscrowBacked
  <1> QED
    BY <1>1, <1>2, PTL DEF Spec

-----------------------------------------------------------------------------
(* Every variable keeps its type: the vault never pays what it does not    *)
(* hold, and nobody burns more than there is.                              *)
THEOREM TypeCorrect == FloatsReach => (Spec => []TypeOK)
  <1> SUFFICES ASSUME FloatsReach PROVE Spec => []TypeOK
    OBVIOUS
  <1> QED
    BY Invariance, PTL

(* Under every interleaving of transfers in both directions the vault      *)
(* covers what circulates and what is under way, up to what floating point *)
(* has added: rounding to the units of Solana never pays out more than was *)
(* put in.                                                                 *)
THEOREM VaultBacksTokens == FloatsReach => (Spec => []Backed)
  <1> SUFFICES ASSUME FloatsReach PROVE Spec => []Backed
    OBVIOUS
  <1> QED
    BY Invariance, PTL

(* Custody implements Escrow: a job says its amount to a few parts in      *)
(* 2^53, no other step adds value, a transfer that is paid loses less than *)
(* a unit, and one that is readable is refused only when its payment does  *)
(* not fit a u64, or the vault is short by what floating point has added.  *)
THEOREM CustodyImplementsEscrow == FloatsReach => (Spec => ImplementsEscrow)
  <1> SUFFICES ASSUME FloatsReach PROVE Spec => ImplementsEscrow
    OBVIOUS
  <1>1. Init => Promise!Init
    BY InitBacked, ScaleType DEF Promise!Init
  <1>2. TypeOK /\ Backed /\ [Next]_vars
        => [Promise!Next]_<<scale, Value(home, vault), Value(Away, wrapped),
                            UnderWay(home), UnderWay(Away), gained>>
    BY NextImplements
  <1> QED
    BY <1>1, <1>2, Invariance, PTL DEF Spec, ImplementsEscrow, Promise!Spec

(* Every job that can be read says nearly what was locked or burned, and   *)
(* exactly that unless the amount has more digits than a number keeps.     *)
THEOREM JobsNear == FloatsReach => (Spec => []JobsAreNear)
  <1> SUFFICES ASSUME FloatsReach PROVE Spec => []JobsAreNear
    OBVIOUS
  <1>1. Init => JobsAreNear
    BY DEF Init, JobsAreNear
  <1>2. TypeOK /\ JobsAreNear /\ [Next]_vars => JobsAreNear'
    <2> DEFINE Fine(j, c) ==
          j # None /\ j.amount \in Nat =>
              /\ Promise!Near(j.amount, Value(c, j.locked))
              /\ j.amount # Value(c, j.locked) =>
                      c = "solana" /\ ~ KeepsDigits(j.locked, scale)
    <2> SUFFICES ASSUME TypeOK, JobsAreNear, [Next]_vars PROVE JobsAreNear'
      OBVIOUS
    <2>1. scale' = scale
      BY DEF Next, vars, Lock, Burn, Mint, Unlock, Reject
    <2>2. ASSUME NEW c \in Chains, job'[c] = job[c] PROVE Fine(job'[c], c)
      BY <2>2 DEF JobsAreNear
    <2>3. ASSUME NEW c \in Chains, NEW d \in Chains, NEW a \in AmountsOn[d],
                 Start(d, a), job'[c] # job[c]
          PROVE  Fine(job'[c], c)
      <3>1. c = d /\ job'[c] = [locked |-> a, amount |-> JobAmount(c, a, scale)]
        BY <2>3 DEF Start, TypeOK
      <3>2. \/ JobAmount(c, a, scale) = Exponential
            \/ /\ JobAmount(c, a, scale) \in Nat
               /\ Promise!Near(JobAmount(c, a, scale), Value(c, a))
               /\ JobAmount(c, a, scale) # Value(c, a)
                     => c = "solana" /\ ~ KeepsDigits(a, scale)
        BY <2>3, <3>1, NewJobAmount
      <3>3. job'[c].amount = JobAmount(c, a, scale) /\ job'[c].locked = a
        BY <3>1
      <3> QED
        BY <3>2, <3>3, AmountsAssumption
    <2>4. ASSUME NEW c \in Chains, NEW d \in Chains, End(d), job'[c] # job[c]
          PROVE  Fine(job'[c], c)
      <3>1. job'[c] = None
        BY <2>4 DEF End, TypeOK
      <3> QED
        BY <3>1
    <2>5. \A c \in Chains : Fine(job'[c], c)
      <3> HIDE DEF Fine
      <3> QED
        BY <2>2, <2>3, <2>4, HomeTypes DEF Next, vars, Lock, Burn, Mint, Unlock, Reject
    <2> QED
      BY <2>1, <2>5 DEF JobsAreNear, Value, Promise!Near, KeepsDigits
  <1> QED
    BY <1>1, <1>2, TypeCorrect, PTL DEF Spec

(* Amounts of few digits are always read, below 10^21.                     *)
BelowLimit ==
    \A s \in Scales : \A a \in AmountsOn["solana"] :
        2 * a + 2 < Significands /\ a * s < PlainBelow

(* If all amounts from Solana are such, no job is ever unreadable: what    *)
(* the run LargeAmounts shows takes 1000 tokens or more, or a u64 of very  *)
(* many digits.                                                            *)
THEOREM SmallAmountsAreRead ==
    FloatsReach /\ LimitIsNumber /\ BelowLimit => (Spec => []LargeAmountsAreRead)
  <1> SUFFICES ASSUME FloatsReach, LimitIsNumber, BelowLimit
               PROVE  Spec => []LargeAmountsAreRead
    OBVIOUS
  <1>1. ASSUME NEW s \in Scales, NEW a \in AmountsOn["solana"]
        PROVE  JobAmount("solana", a, s) = a * s /\ a * s \in Nat
    <2>1. /\ a \in Nat \ {0} /\ s \in Nat /\ a * s \in Nat
          /\ 2 * a + 2 < Significands /\ a * s < PlainBelow /\ InRange(16 * (a * s))
      BY AmountsAssumption, CustodyAssumption DEF BelowLimit, FloatsReach
    <2>2. 4 * (a * s) \in Nat /\ 16 * (a * s) \in Nat /\ 4 * (a * s) <= 16 * (a * s)
      BY <2>1
    <2>3. InRange(4 * (a * s))
      BY <2>1, <2>2, UlpGrows
    <2> QED
      BY <2>1, <2>3, ReadBelowLimit
  <1>2. Init => LargeAmountsAreRead
    BY DEF Init, LargeAmountsAreRead
  <1>3. TypeOK /\ LargeAmountsAreRead /\ [Next]_vars => LargeAmountsAreRead'
    <2> SUFFICES ASSUME TypeOK, LargeAmountsAreRead, [Next]_vars,
                        NEW c \in Chains, job'[c] # None
                 PROVE  job'[c].amount # Exponential
      BY DEF LargeAmountsAreRead
    <2>1. CASE job'[c] = job[c]
      BY <2>1 DEF LargeAmountsAreRead
    <2>2. ASSUME NEW d \in Chains, NEW a \in AmountsOn[d], Start(d, a), job'[c] # job[c]
          PROVE  job'[c].amount # Exponential
      <3>1. c = d /\ job'[c].amount = JobAmount(c, a, scale)
        BY <2>2 DEF Start, TypeOK
      <3>2. CASE c = "evm"
        BY <2>2, <3>1, <3>2, AmountsAssumption, CustodyAssumption DEF JobAmount
      <3>3. CASE c = "solana"
        BY <1>1, <2>2, <3>1, <3>3, AmountsAssumption DEF TypeOK
      <3> QED
        BY <3>2, <3>3 DEF Chains
    <2>3. ASSUME NEW d \in Chains, End(d) PROVE job'[c] \in {job[c], None}
      BY <2>3 DEF End, TypeOK
    <2> QED
      BY <2>1, <2>2, <2>3, HomeTypes DEF Next, vars, Lock, Burn, Mint, Unlock, Reject
  <1> QED
    BY <1>2, <1>3, TypeCorrect, PTL DEF Spec

(* Where floating point keeps the digits of all amounts it never adds      *)
(* anything: the vault covers all that circulates and is under way.        *)
THEOREM CustodyIsSafe ==
    FloatsReach /\ DigitsKept => (Spec => [](Backed /\ gained = 0))
  <1> SUFFICES ASSUME FloatsReach, DigitsKept PROVE Spec => [](Backed /\ gained = 0)
    OBVIOUS
  <1>1. Init => gained = 0
    BY DEF Init
  <1>2. TypeOK /\ gained = 0 /\ [Next]_vars => (gained = 0)'
    <2> SUFFICES ASSUME TypeOK, gained = 0, [Next]_vars PROVE gained' = 0
      OBVIOUS
    <2>1. ASSUME NEW c \in Chains, NEW a \in AmountsOn[c], Start(c, a) PROVE gained' = 0
      <3> DEFINE n == JobAmount(c, a, scale)
      <3>1. n = Exponential \/ n = Value(c, a)
        <4>1. n # Exponential /\ n # Value(c, a) => c = "solana" /\ ~ KeepsDigits(a, scale)
          BY NewJobAmount
        <4>2. c = "solana" => KeepsDigits(a, scale)
          BY DEF DigitsKept, TypeOK
        <4> QED
          BY <4>1, <4>2
      <3>2. Value(c, a) \in Nat
        BY HomeTypes, ValueSum, CustodyAssumption DEF Chains
      <3> HIDE DEF n
      <3>3. gained' = gained + IF n \in Nat /\ n > Value(c, a) THEN n - Value(c, a) ELSE 0
        BY <2>1 DEF Start, Gain, n
      <3> QED
        BY <3>1, <3>2, <3>3, AmountsAssumption
    <2> QED
      BY <2>1, HomeTypes DEF Next, vars, Lock, Burn, Mint, Unlock, Reject, End
  <1> QED
    BY <1>1, <1>2, TypeCorrect, VaultBacksTokens, PTL DEF Spec
=============================================================================
