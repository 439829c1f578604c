--------------------------- MODULE Amounts_proofs ---------------------------
(***************************************************************************)
(* JavaScript's numbers, and what becomes of an amount that is multiplied  *)
(* by a power of ten in floating point and printed with the fewest digits: *)
(* it stays within a few parts in 2^53 of the exact product, and with few  *)
(* enough digits it is the exact product.                                  *)
(***************************************************************************)
EXTENDS Amounts, TLAPS, WellFoundedInduction

-----------------------------------------------------------------------------
(* Least and greatest elements. *)

LEMMA LeastExists ==
    ASSUME NEW S, S \subseteq Nat, S # {}
    PROVE  \E x \in S : \A y \in S : x <= y
  <1> DEFINE R == OpToRel(<, Nat)
  <1>1. PICK x \in S : \A y \in S : ~ (<<y, x>> \in R)
    <2>1. IsWellFoundedOn(R, Nat)
      BY NatLessThanWellFounded
    <2> HIDE DEF R
    <2> QED
      BY <2>1, WFMin
  <1>2. \A y \in S : ~ (y < x)
    BY <1>1 DEF OpToRel
  <1>3. \A y \in S : x <= y
    BY <1>2
  <1> QED
    BY <1>3

LEMMA MinIs ==
    ASSUME NEW S, S \subseteq Nat, S # {}
    PROVE  Min(S) \in S /\ \A y \in S : Min(S) <= y
  <1>1. \E x \in S : \A y \in S : x =< y
    BY LeastExists
  <1> QED
    BY <1>1 DEF Min

LEMMA MaxIs ==
    ASSUME NEW S, S \subseteq Nat, S # {}, NEW b \in Nat, \A x \in S : x <= b
    PROVE  Max(S) \in S /\ \A y \in S : y <= Max(S)
  <1> DEFINE below == {b - x : x \in S}
  <1>1. below \subseteq Nat /\ below # {}
    <2>1. \A x \in S : b - x \in Nat
      OBVIOUS
    <2> QED
      BY <2>1
  <1>2. PICK d \in below : \A y \in below : d <= y
    BY <1>1, LeastExists
  <1>3. PICK x \in S : d = b - x
    BY <1>2
  <1>4. \A y \in S : x >= y
    <2> TAKE y \in S
    <2>1. d <= b - y
      BY <1>2
    <2> QED
      BY <1>3, <2>1
  <1>5. \E z \in S : \A y \in S : z >= y
    BY <1>4
  <1>6. Max(S) \in S /\ \A y \in S : Max(S) >= y
    BY <1>5 DEF Max
  <1> QED
    BY <1>6

-----------------------------------------------------------------------------
(* The floating-point numbers around n. *)

LEMMA UlpIs ==
    ASSUME NEW n \in Nat, InRange(n)
    PROVE  /\ Ulp(n) \in Ulps /\ Ulp(n) \in Nat \ {0}
           /\ n < Ulp(n) * Significands
           /\ \A u \in Ulps : n < u * Significands => Ulp(n) <= u
           /\ Ulp(n) = 1 \/ \E h \in Ulps : Ulp(n) = 2 * h /\ h * Significands <= n
  <1> DEFINE U == {u \in Ulps : n < u * Significands}
  <1>1. U # {} /\ U \subseteq Nat /\ U \subseteq Ulps
    BY NumberAssumption DEF InRange
  <1>2. Ulp(n) \in U /\ \A u \in U : Ulp(n) <= u
    <2> HIDE DEF U
    <2>1. Min(U) \in U /\ \A u \in U : Min(U) <= u
      BY <1>1, MinIs
    <2> QED
      BY <2>1 DEF Ulp, U
  <1>3. Ulp(n) \in Nat \ {0}
    BY <1>2, NumberAssumption
  <1>4. ASSUME Ulp(n) # 1 PROVE \E h \in Ulps : Ulp(n) = 2 * h /\ h * Significands <= n
    <2>1. PICK h \in Ulps : Ulp(n) = 2 * h
      BY <1>2, <1>4, NumberAssumption
    <2>2. h \in Nat \ {0}
      BY NumberAssumption
    <2>3. ~ (Ulp(n) <= h)
      BY <2>1, <2>2
    <2>4. ~ (n < h * Significands)
      BY <1>2, <2>3
    <2>5. h * Significands \in Nat
      BY <2>2, NumberAssumption
    <2> QED
      BY <2>1, <2>4, <2>5
  <1> QED
    BY <1>2, <1>3, <1>4

LEMMA UlpGrows ==
    ASSUME NEW m \in Nat, NEW n \in Nat, m <= n, InRange(n)
    PROVE  InRange(m) /\ Ulp(m) <= Ulp(n)
  <1>1. Ulp(n) \in Ulps /\ Ulp(n) \in Nat \ {0} /\ n < Ulp(n) * Significands
    BY UlpIs
  <1>2. Ulp(n) * Significands \in Nat
    BY <1>1, NumberAssumption
  <1>3. m < Ulp(n) * Significands
    BY <1>1, <1>2
  <1>4. InRange(m)
    BY <1>1, <1>3 DEF InRange
  <1> QED
    BY <1>1, <1>3, <1>4, UlpIs

(* Round is off by half a unit in the last place at most, and stays on the *)
(* same side of the numbers of the next smaller unit.                      *)
LEMMA RoundNear ==
    ASSUME NEW n \in Nat, InRange(n)
    PROVE  /\ Round(n) \in Nat
           /\ 2 * Round(n) <= 2 * n + Ulp(n)
           /\ 2 * n <= 2 * Round(n) + Ulp(n)
           /\ Ulp(n) = 1 => Round(n) = n
  <1> DEFINE u == Ulp(n)
             q == n \div u
             r == n % u
             up == 2 * r > u \/ (2 * r = u /\ q % 2 = 1)
  <1>1. u \in Nat \ {0}
    BY UlpIs
  <1>2. Round(n) = (IF up THEN q + 1 ELSE q) * u
    BY DEF Round
  <1> HIDE DEF u
  <1>3. q \in Nat /\ r \in Nat /\ r < u /\ n = u * q + r
    BY <1>1
  <1> HIDE DEF q, r
  <1>4. u * q \in Nat /\ q * u = u * q /\ (q + 1) * u = u * q + u
    BY <1>1, <1>3
  <1>5. CASE up
    <2>1. Round(n) = u * q + u /\ 2 * r >= u
      BY <1>1, <1>2, <1>3, <1>4, <1>5
    <2> DEFINE k == u * q
    <2>2. k \in Nat /\ Round(n) = k + u /\ n = k + r
      BY <1>3, <1>4, <2>1
    <2> HIDE DEF k, up
    <2> QED
      BY <1>1, <1>3, <2>1, <2>2 DEF u
  <1>6. CASE ~ up
    <2>1. Round(n) = u * q /\ 2 * r <= u
      BY <1>1, <1>2, <1>3, <1>4, <1>6
    <2> DEFINE k == u * q
    <2>2. k \in Nat /\ Round(n) = k /\ n = k + r
      BY <1>3, <1>4, <2>1
    <2> HIDE DEF k, up
    <2> QED
      BY <1>1, <1>3, <2>1, <2>2 DEF u
  <1> QED
    BY <1>5, <1>6

LEMMA SmallIsExact ==
    ASSUME NEW n \in Nat, n < Significands
    PROVE  InRange(n) /\ Ulp(n) = 1 /\ Round(n) = n
  <1>1. n < 1 * Significands
    BY NumberAssumption
  <1>2. InRange(n)
    BY <1>1, NumberAssumption DEF InRange
  <1>3. Ulp(n) <= 1 /\ Ulp(n) \in Nat \ {0}
    BY <1>1, <1>2, NumberAssumption, UlpIs
  <1>4. Ulp(n) = 1
    BY <1>3
  <1> QED
    BY <1>2, <1>4, RoundNear

(* Rounding loses less than one part in Significands. *)
LEMMA RoundLoses ==
    ASSUME NEW n \in Nat, InRange(n)
    PROVE  Significands * n <= Significands * Round(n) + n
  <1> DEFINE v == Round(n)
  <1>1. v \in Nat /\ 2 * n <= 2 * v + Ulp(n) /\ (Ulp(n) = 1 => v = n)
    BY RoundNear
  <1>2. Significands \in Nat
    BY NumberAssumption
  <1> HIDE DEF v
  <1>3. CASE Ulp(n) = 1
    BY <1>1, <1>2, <1>3 DEF v
  <1>4. CASE Ulp(n) # 1
    <2>1. PICK h \in Ulps : Ulp(n) = 2 * h /\ h * Significands <= n
      BY <1>4, UlpIs
    <2>2. h \in Nat
      BY NumberAssumption
    <2>3. n <= v + h
      BY <1>1, <2>1, <2>2
    <2>4. Significands * n <= Significands * (v + h)
      BY <1>1, <1>2, <2>2, <2>3
    <2>5. Significands * (v + h) = Significands * v + h * Significands
      BY <1>1, <1>2, <2>2
    <2>6. /\ Significands * n \in Nat /\ Significands * v \in Nat
          /\ h * Significands \in Nat
      BY <1>1, <1>2, <2>2
    <2> QED
      BY <2>1, <2>4, <2>5, <2>6 DEF v
  <1> QED
    BY <1>3, <1>4

(* Nor does it gain more. *)
LEMMA RoundGains ==
    ASSUME NEW n \in Nat, InRange(n)
    PROVE  Significands * Round(n) <= Significands * n + n
  <1> DEFINE v == Round(n)
  <1>1. v \in Nat /\ 2 * v <= 2 * n + Ulp(n) /\ (Ulp(n) = 1 => v = n)
    BY RoundNear
  <1>2. Significands \in Nat
    BY NumberAssumption
  <1> HIDE DEF v
  <1>3. CASE Ulp(n) = 1
    BY <1>1, <1>2, <1>3 DEF v
  <1>4. CASE Ulp(n) # 1
    <2>1. PICK h \in Ulps : Ulp(n) = 2 * h /\ h * Significands <= n
      BY <1>4, UlpIs
    <2>2. h \in Nat
      BY NumberAssumption
    <2>3. v <= n + h
      BY <1>1, <2>1, <2>2
    <2>4. Significands * v <= Significands * (n + h)
      BY <1>1, <1>2, <2>2, <2>3
    <2>5. Significands * (n + h) = Significands * n + h * Significands
      BY <1>1, <1>2, <2>2
    <2>6. /\ Significands * n \in Nat /\ Significands * v \in Nat
          /\ h * Significands \in Nat
      BY <1>1, <1>2, <2>2
    <2> QED
      BY <2>1, <2>4, <2>5, <2>6 DEF v
  <1> QED
    BY <1>3, <1>4

(* What is rounded does not fall below the numbers of its own unit. *)
LEMMA RoundKeepsUnit ==
    ASSUME NEW n \in Nat, InRange(n), NEW h \in Ulps, Ulp(n) = 2 * h, h * Significands <= n
    PROVE  h * Significands <= Round(n)
  <1> DEFINE u == Ulp(n)
             q == n \div u
  <1>1. u \in Nat \ {0} /\ u = 2 * h /\ h \in Nat \ {0}
    BY NumberAssumption, UlpIs
  <1>2. Round(n) = q * u \/ Round(n) = (q + 1) * u
    BY DEF Round
  <1> HIDE DEF u
  <1>3. PICK k \in Nat : Significands = 2 * k
    <2>1. Significands = 2 * (Significands \div 2) /\ Significands \div 2 \in Nat
      BY NumberAssumption
    <2> QED
      BY <2>1
  <1>4. h * Significands = k * u
    BY <1>1, <1>3
  <1>5. q \in Nat /\ n < u * q + u
    BY <1>1
  <1> HIDE DEF q
  <1>6. k <= q
    <2> SUFFICES ASSUME q + 1 <= k PROVE FALSE
      BY <1>3, <1>5
    <2>1. (q + 1) * u <= k * u
      BY <1>1, <1>3, <1>5
    <2>2. (q + 1) * u = u * q + u
      BY <1>1, <1>5
    <2> QED
      BY <1>1, <1>4, <1>5, <2>1, <2>2
  <1>7. k * u <= q * u /\ k * u <= (q + 1) * u
    BY <1>1, <1>3, <1>5, <1>6
  <1> QED
    BY <1>2, <1>4, <1>7

(* A number is within one unit of what it is rounded to; and whatever is,  *)
(* is not much larger.                                                     *)
LEMMA RoundedIsNear ==
    ASSUME NEW n \in Nat \ {0}, InRange(4 * n)
    PROVE  LET v == Round(n)
           IN  /\ v \in Nat \ {0} /\ InRange(v) /\ InRange(n)
               /\ n \in v - Ulp(v) .. v + Ulp(v)
               /\ v + Ulp(v) <= 4 * n
  <1> DEFINE v == Round(n)
             u == Ulp(n)
             w == Ulp(v)
  <1>1. InRange(n) /\ u \in Nat \ {0}
    BY UlpGrows, UlpIs
  <1>2. /\ v \in Nat /\ 2 * v <= 2 * n + u /\ 2 * n <= 2 * v + u
        /\ u = 1 => v = n
    BY <1>1, RoundNear
  <1>3. ASSUME u # 1
        PROVE  \E h \in Ulps : /\ h \in Nat \ {0} /\ u = 2 * h
                               /\ h * Significands <= n /\ h * Significands <= v
                               /\ h <= n /\ h <= v
    <2>1. PICK h \in Ulps : u = 2 * h /\ h * Significands <= n
      BY <1>1, <1>3, UlpIs
    <2>2. h \in Nat \ {0} /\ h * Significands <= v
      BY <1>1, <2>1, RoundKeepsUnit, NumberAssumption
    <2>3. h <= h * Significands /\ h * Significands \in Nat
      BY <2>2, NumberAssumption
    <2> HIDE DEF v, u
    <2>4. h <= n /\ h <= v
      BY <1>2, <2>1, <2>2, <2>3
    <2> QED
      BY <2>1, <2>2, <2>4
  <1> HIDE DEF u, v
  <1>4. v # 0 /\ v <= 2 * n
    BY <1>1, <1>2, <1>3
  <1>5. InRange(v)
    BY <1>2, <1>4, UlpGrows
  <1>6. w \in Nat \ {0} /\ v < w * Significands /\ w \in Ulps
    BY <1>2, <1>5, UlpIs
  <1>7. w <= v
    <2>1. CASE w = 1
      BY <1>2, <1>4, <2>1
    <2>2. CASE w # 1
      <3>1. PICK h \in Ulps : w = 2 * h /\ h * Significands <= v
        BY <1>2, <1>5, <2>2, UlpIs
      <3>2. h \in Nat \ {0} /\ 2 <= Significands /\ Significands \in Nat
        BY NumberAssumption
      <3>3. h * 2 <= h * Significands /\ h * Significands \in Nat
        BY <3>2
      <3> HIDE DEF w
      <3> QED
        BY <1>2, <3>1, <3>2, <3>3
    <2> QED
      BY <2>1, <2>2
  <1>8. n <= v + w /\ v <= n + w
    <2>1. CASE u = 1
      BY <1>2, <1>6, <2>1
    <2>2. CASE u # 1
      <3>1. PICK h \in Ulps : /\ h \in Nat \ {0} /\ u = 2 * h /\ h * Significands <= v
        BY <1>3, <2>2
      <3>2. h < w
        <4> HIDE DEF w
        <4> SUFFICES ASSUME w <= h PROVE FALSE
          BY <1>6, <3>1
        <4>1. w * Significands <= h * Significands
          BY <1>6, <3>1, NumberAssumption
        <4>2. w * Significands \in Nat /\ h * Significands \in Nat
          BY <1>6, <3>1, NumberAssumption
        <4> QED
          BY <1>2, <1>6, <3>1, <4>1, <4>2
      <3> HIDE DEF w
      <3> QED
        BY <1>2, <1>6, <3>1, <3>2
    <2> QED
      BY <2>1, <2>2
  <1> HIDE DEF w
  <1>9. n \in v - w .. v + w /\ v + w <= 4 * n
    BY <1>2, <1>4, <1>6, <1>7, <1>8
  <1> QED
    BY <1>1, <1>2, <1>4, <1>5, <1>9 DEF v, w

(* Of the multiples of s, only a * s is rounded to where a * s is: the     *)
(* next ones are further away than a unit in the last place.               *)
LEMMA OnlyMultiple ==
    ASSUME NEW a \in Nat \ {0}, NEW s \in Nat \ {0}, 2 * a + 2 < Significands,
           NEW b \in Nat, InRange(a * s), InRange(b * s), Round(b * s) = Round(a * s)
    PROVE  a = b
  <1> DEFINE n == a * s
             m == b * s
             v == Round(n)
  <1>1. n \in Nat /\ m \in Nat
    OBVIOUS
  <1>2. \A k \in {n, m} : /\ Ulp(k) \in Nat \ {0}
                          /\ 2 * v <= 2 * k + Ulp(k) /\ 2 * k <= 2 * v + Ulp(k)
                          /\ Ulp(k) = 1 => v = k
    BY <1>1, RoundNear, UlpIs
  <1>3. v \in Nat
    BY <1>1, RoundNear
  <1>4. Significands \in Nat
    BY NumberAssumption
  <1>5. ASSUME NEW c \in Nat, NEW d \in Nat, {c, d} = {a, b}, c < d PROVE FALSE
    <2> DEFINE low == c * s
               high == d * s
    <2>1. low \in Nat /\ high \in Nat /\ low < high /\ low \in {n, m} /\ high \in {n, m}
      <3>1. (c = a /\ d = b) \/ (c = b /\ d = a)
        BY <1>5
      <3>2. {low, high} = {n, m}
        BY <3>1
      <3>3. low < high
        BY <1>5
      <3> QED
        BY <1>1, <3>2, <3>3
    <2>2. (d - c) * s = high - low /\ d - c \in Nat \ {0}
      BY <1>5
    <2>3. InRange(high) /\ Ulp(low) <= Ulp(high)
      BY <2>1, UlpGrows
    <2> HIDE DEF low, high, n, m, v
    <2>4. high - low <= Ulp(high)
      <3>1. Ulp(low) \in Nat \ {0} /\ 2 * v <= 2 * low + Ulp(low)
        BY <1>2, <2>1
      <3>2. Ulp(high) \in Nat \ {0} /\ 2 * high <= 2 * v + Ulp(high)
        BY <1>2, <2>1
      <3> QED
        BY <1>3, <2>1, <2>3, <3>1, <3>2
    <2>5. Ulp(high) # 1
      BY <1>2, <1>3, <2>1, <2>3
    <2>6. PICK h \in Ulps : Ulp(high) = 2 * h /\ h * Significands <= high
      BY <2>1, <2>3, <2>5, UlpIs
    <2>7. h \in Nat
      BY NumberAssumption
    <2>8. (high - low) * Significands <= 2 * high
      <3>1. (high - low) * Significands <= (2 * h) * Significands
        BY <1>4, <2>1, <2>4, <2>6, <2>7
      <3>2. (2 * h) * Significands = 2 * (h * Significands) /\ h * Significands \in Nat
        BY <1>4, <2>7
      <3>3. (high - low) * Significands \in Nat
        BY <1>4, <2>1
      <3> QED
        BY <2>1, <2>6, <3>1, <3>2, <3>3
    <2>9. ((d - c) * Significands) * s <= (2 * d) * s
      <3>1. ((d - c) * Significands) * s = ((d - c) * s) * Significands
        BY <1>4, <2>2
      <3>2. (2 * d) * s = 2 * (d * s)
        OBVIOUS
      <3> QED
        BY <2>2, <2>8, <3>1, <3>2 DEF high
    <2>10. (d - c) * Significands <= 2 * d
      <3> DEFINE x == (d - c) * Significands
                 y == 2 * d
      <3>1. x \in Nat /\ y \in Nat /\ x * s <= y * s
        BY <1>4, <2>2, <2>9
      <3> HIDE DEF x, y
      <3>2. ~ (y + 1 <= x)
        <4> SUFFICES ASSUME y + 1 <= x PROVE FALSE
          OBVIOUS
        <4>1. (y + 1) * s <= x * s
          BY <3>1
        <4>2. (y + 1) * s = y * s + s /\ y * s \in Nat /\ x * s \in Nat
          BY <3>1
        <4> QED
          BY <3>1, <4>1, <4>2
      <3>3. x <= y
        BY <3>1, <3>2
      <3> QED
        BY <3>3 DEF x, y
    <2> DEFINE e == d - c
    <2>11. e \in Nat \ {0} /\ d = c + e /\ e * Significands <= 2 * d
      BY <2>2, <2>10
    <2> HIDE DEF e
    <2>12. e * Significands - 2 * e = e * (Significands - 2)
      BY <1>4, <2>11
    <2>13. Significands - 2 <= e * (Significands - 2)
      BY <1>4, <2>11
    <2>14. e * Significands \in Nat /\ e * (Significands - 2) \in Int
      BY <1>4, <2>11
    <2>15. Significands - 2 <= 2 * c
      BY <1>4, <2>11, <2>12, <2>13, <2>14
    <2>16. CASE c = a
      BY <1>4, <2>15, <2>16
    <2>17. CASE d = a
      BY <1>4, <1>5, <2>15, <2>17
    <2> QED
      BY <1>5, <2>16, <2>17
  <1>6. a < b \/ b < a \/ a = b
    OBVIOUS
  <1> QED
    BY <1>5, <1>6

(* The product of such an amount and a scale is rounded by less than half  *)
(* the scale.                                                              *)
LEMMA RoundedProduct ==
    ASSUME NEW a \in Nat \ {0}, NEW s \in Nat \ {0}, 2 * a + 2 < Significands,
           InRange(a * s)
    PROVE  /\ Round(a * s) \in Nat
           /\ 2 * Round(a * s) < 2 * (a * s) + s
           /\ 2 * (a * s) < 2 * Round(a * s) + s
  <1> DEFINE n == a * s
             v == Round(n)
             u == Ulp(n)
  <1>1. n \in Nat
    OBVIOUS
  <1>2. /\ v \in Nat /\ u \in Nat \ {0}
        /\ 2 * v <= 2 * n + u /\ 2 * n <= 2 * v + u
        /\ u = 1 => v = n
    BY <1>1, RoundNear, UlpIs
  <1>3. Significands \in Nat
    BY NumberAssumption
  <1>4. CASE u = 1
    <2> HIDE DEF n, v, u
    <2> QED
      BY <1>1, <1>2, <1>4 DEF n, v
  <1>5. CASE u # 1
    <2>1. PICK h \in Ulps : u = 2 * h /\ h * Significands <= n
      BY <1>1, <1>5, UlpIs
    <2>2. h \in Nat
      BY NumberAssumption
    <2>3. u * Significands <= 2 * n
      <3>1. (2 * h) * Significands = 2 * (h * Significands) /\ h * Significands \in Nat
        BY <1>3, <2>2
      <3> HIDE DEF n, u
      <3> QED
        BY <1>1, <2>1, <3>1
    <2>4. u < s
      <3> SUFFICES ASSUME s <= u PROVE FALSE
        BY <1>2
      <3>1. s * Significands <= u * Significands
        BY <1>2, <1>3
      <3>2. s * (2 * a + 3) <= s * Significands
        BY <1>3
      <3>3. s * (2 * a + 3) = 2 * n + 3 * s
        OBVIOUS
      <3>4. /\ s * (2 * a + 3) \in Nat /\ s * Significands \in Nat
            /\ u * Significands \in Nat
        BY <1>2, <1>3
      <3> HIDE DEF n, u
      <3> QED
        BY <1>1, <2>3, <3>1, <3>2, <3>3, <3>4
    <2> HIDE DEF n, v, u
    <2> QED
      BY <1>1, <1>2, <2>4 DEF n, v
  <1> QED
    BY <1>4, <1>5

(* Number.prototype.toString gives back the product of an amount and a     *)
(* power of ten, if the amount is below half the significands.             *)
THEOREM PrintedExactly ==
    ASSUME NEW a \in Nat \ {0}, NEW s \in Tens, 2 * a + 2 < Significands, InRange(4 * (a * s))
    PROVE  Printed(Round(a * s)) = a * s
  <1> DEFINE n == a * s
             v == Round(n)
             near == {k \in v - Ulp(v) .. v + Ulp(v) : k > 0 /\ Round(k) = v}
             shared == {ten \in Tens : \E k \in near : k % ten = 0}
             t == Max(shared)
             short == {k \in near : k % t = 0}
  <1>1. s \in Nat \ {0} /\ n \in Nat \ {0}
    BY NumberAssumption
  <1>2. /\ v \in Nat \ {0} /\ InRange(v) /\ InRange(n)
        /\ n \in v - Ulp(v) .. v + Ulp(v)
        /\ v + Ulp(v) <= 4 * n
    BY <1>1, RoundedIsNear
  <1>3. n \in near
    BY <1>1, <1>2
  <1>4. n % s = 0
    BY <1>1
  <1>5. Ulp(v) \in Nat
    BY <1>2, UlpIs
  <1> HIDE DEF n, v
  <1>6. ASSUME NEW k \in near
        PROVE  k \in Nat \ {0} /\ k <= 4 * n /\ InRange(k)
    <2>1. k \in Nat \ {0} /\ k <= 4 * n
      BY <1>1, <1>2, <1>5
    <2> QED
      BY <1>1, <2>1, UlpGrows DEF n
  <1>7. ASSUME NEW k \in near, k % s = 0 PROVE k = n
    <2>1. k \in Nat /\ InRange(k) /\ Round(k) = v
      BY <1>6
    <2>2. k = (k \div s) * s /\ k \div s \in Nat
      BY <1>1, <1>7, <2>1
    <2>3. a = k \div s
      BY <1>1, <1>2, <2>1, <2>2, OnlyMultiple DEF n, v
    <2> QED
      BY <2>2, <2>3 DEF n
  <1>8. shared \subseteq Nat \ {0} /\ s \in shared
    BY <1>3, <1>4, NumberAssumption
  <1>9. ASSUME NEW ten \in shared PROVE ten <= 4 * n
    <2>1. PICK k \in near : k % ten = 0
      OBVIOUS
    <2>2. k \in Nat \ {0} /\ ten \in Nat \ {0} /\ k <= 4 * n
      BY <1>6, <1>8
    <2> HIDE DEF near, shared
    <2>3. ten <= k
      BY <2>1, <2>2
    <2> QED
      BY <1>1, <2>2, <2>3
  <1>10. t \in shared /\ s <= t
    <2>1. 4 * n \in Nat
      BY <1>1
    <2> HIDE DEF shared
    <2> QED
      BY <1>8, <1>9, <2>1, MaxIs
  <1> HIDE DEF t
  <1>11. t \in Nat \ {0} /\ t % s = 0
    BY <1>8, <1>10, NumberAssumption
  <1>12. ASSUME NEW k \in near, k % t = 0 PROVE k = n
    <2>1. k \in Nat /\ k = t * (k \div t) /\ k \div t \in Nat
      BY <1>6, <1>11, <1>12
    <2>2. t = s * (t \div s) /\ t \div s \in Nat
      BY <1>1, <1>11
    <2> HIDE DEF near
    <2>3. k % s = 0
      <3> DEFINE x == t \div s
                 y == k \div t
      <3>1. k = s * (x * y) /\ x * y \in Nat
        <4> HIDE DEF x, y
        <4>1. x \in Nat /\ y \in Nat /\ t = s * x /\ k = t * y
          BY <2>1, <2>2 DEF x, y
        <4> QED
          BY <1>1, <4>1
      <3> DEFINE z == x * y
      <3>2. z \in Nat /\ k = z * s
        BY <1>1, <3>1
      <3> HIDE DEF x, y, z
      <3>3. (z * s) % s = 0
        BY <1>1, <3>2
      <3> QED
        BY <3>2, <3>3
    <2> QED
      BY <1>7, <2>3
  <1>13. short = {n}
    <2>1. PICK k \in near : k % t = 0
      BY <1>10
    <2>2. k = n
      BY <1>12, <2>1
    <2> QED
      BY <1>12, <2>1, <2>2
  <1>14. Printed(v) = CHOOSE k \in short :
                       \A m \in short : (IF k < v THEN v - k ELSE k - v)
                                        <= (IF m < v THEN v - m ELSE m - v)
    BY DEF Printed, t
  <1> HIDE DEF short
  <1>15. Printed(v) = n
    BY <1>1, <1>2, <1>13, <1>14
  <1> QED
    BY <1>15 DEF v, n

(* The job of a transfer from Solana of few digits says its amount if that *)
(* is below 10^21, and is unreadable otherwise: from 1000 tokens on.       *)
THEOREM ReadBelowLimit ==
    ASSUME LimitIsNumber, NEW a \in Nat \ {0}, NEW s \in Scales, 2 * a + 2 < Significands,
           InRange(4 * (a * s))
    PROVE  JobAmount("solana", a, s) = IF a * s < PlainBelow THEN a * s ELSE Exponential
  <1> DEFINE n == a * s
             v == Round(n)
             p == PlainBelow \div s
  <1>1. s \in Tens /\ s \in Nat \ {0} /\ PlainBelow \in Nat /\ n \in Nat
    BY NumberAssumption
  <1>2. InRange(n) /\ Round(a) = a
    BY <1>1, SmallIsExact, RoundedIsNear, NumberAssumption
  <1>3. p \in Nat /\ PlainBelow = p * s
    BY <1>1 DEF LimitIsNumber
  <1>4. v \in Nat /\ 2 * v < 2 * n + s /\ 2 * n < 2 * v + s
    BY <1>1, <1>2, RoundedProduct
  <1>5. CASE n < PlainBelow
    <2>1. a + 1 <= p
      BY <1>1, <1>3, <1>5
    <2>2. (a + 1) * s <= p * s /\ (a + 1) * s = n + s
      BY <1>1, <1>3, <2>1
    <2>3. v < PlainBelow
      <3> HIDE DEF n, v
      <3> QED
        BY <1>1, <1>3, <1>4, <2>2
    <2>4. Printed(v) = n
      BY <1>1, PrintedExactly
    <2> QED
      BY <1>2, <1>5, <2>3, <2>4 DEF JobAmount
  <1>6. CASE n = PlainBelow
    BY <1>1, <1>2, <1>6 DEF LimitIsNumber, JobAmount
  <1>7. CASE n > PlainBelow
    <2>1. p + 1 <= a
      BY <1>1, <1>3, <1>7
    <2>2. (p + 1) * s <= a * s /\ (p + 1) * s = PlainBelow + s
      BY <1>1, <1>3, <2>1
    <2>3. ~ (v < PlainBelow) /\ ~ (n < PlainBelow)
      <3> HIDE DEF v
      <3> QED
        BY <1>1, <1>4, <1>7, <2>2
    <2> QED
      BY <1>2, <2>3 DEF JobAmount
  <1> QED
    BY <1>1, <1>5, <1>6, <1>7

(* A product of more digits than a number keeps is not printed plainly, if *)
(* the scale is large enough.                                              *)
LEMMA LargeProduct ==
    ASSUME NEW a \in Nat \ {0}, NEW s \in Nat \ {0}, InRange(4 * (a * s)),
           2 * a + 2 >= Significands,
           2 * Significands * PlainBelow <= (Significands - 1) * (Significands - 2) * s
    PROVE  Round(Round(a) * s) \in Nat /\ Round(Round(a) * s) >= PlainBelow
  <1> DEFINE S == Significands
             P == PlainBelow
             x == Round(a)
             n == x * s
             v == Round(n)
  <1>1. S \in Nat \ {0} /\ P \in Nat
    BY NumberAssumption
  <1>2. a <= a * s /\ a * s \in Nat /\ a <= 4 * (a * s)
    <2>1. a <= a * s /\ a * s \in Nat
      OBVIOUS
    <2> QED
      BY <2>1
  <1>3. InRange(a) /\ InRange(4 * a)
    <2>1. 4 * a <= 4 * (a * s) /\ 4 * a \in Nat /\ 4 * (a * s) \in Nat
      BY <1>2
    <2> QED
      BY <1>2, <2>1, UlpGrows
  <1>4. x \in Nat /\ x <= 4 * a /\ S * a <= S * x + a
    BY <1>3, RoundedIsNear, RoundLoses, RoundNear, UlpIs
  <1>5. 2 * x + 2 >= S
    <2>1. CASE a < S
      BY <2>1, SmallIsExact
    <2>2. CASE a >= S
      <3> SUFFICES ASSUME 2 * x + 3 <= S PROVE FALSE
        BY <1>1, <1>4
      <3> HIDE DEF x, S
      <3>1. PICK d \in Nat : a = S + d
        <4>1. a = S + (a - S) /\ a - S \in Nat
          BY <1>1, <2>2
        <4> QED
          BY <4>1
      <3>2. x + 1 <= S - 1 /\ S - 1 \in Nat
        BY <1>1, <1>4
      <3>3. S * x <= S * (S - 2)
        BY <1>1, <1>4, <3>2
      <3>4. S * a = S * S + S * d /\ S * (S - 2) = S * S - 2 * S /\ d <= S * d
        BY <1>1, <3>1
      <3>5. S * x \in Nat /\ S * S \in Nat /\ S * d \in Nat
        BY <1>1, <1>4, <3>1
      <3> QED
        BY <1>1, <1>4, <3>1, <3>3, <3>4, <3>5
    <2> QED
      BY <1>1, <2>1, <2>2
  <1>6. n \in Nat /\ InRange(n)
    <2>1. x * s <= (4 * a) * s /\ x * s \in Nat
      BY <1>4
    <2>2. (4 * a) * s = 4 * (a * s)
      OBVIOUS
    <2>3. x * s <= 4 * (a * s) /\ 4 * (a * s) \in Nat
      BY <1>2, <2>1, <2>2
    <2> QED
      BY <2>1, <2>3, UlpGrows
  <1>7. v \in Nat /\ S * n <= S * v + n
    BY <1>6, RoundNear, RoundLoses
  <1> HIDE DEF v, x, S, P
  <1>8. (S - 2) * s <= 2 * n
    <2>1. (S - 2) * s <= (2 * x) * s
      BY <1>1, <1>4, <1>5
    <2>2. (2 * x) * s = 2 * n
      BY <1>4
    <2> QED
      BY <2>1, <2>2
  <1> HIDE DEF n
  <1>9. (S - 1) * ((S - 2) * s) <= (S - 1) * (2 * n)
    BY <1>1, <1>6, <1>8
  <1>10. (S - 1) * (2 * n) = 2 * (S * n - n) /\ S * n \in Nat /\ S * v \in Nat
    BY <1>1, <1>6, <1>7
  <1>11. (S - 1) * (2 * n) <= 2 * (S * v)
    BY <1>6, <1>7, <1>10
  <1>12. 2 * S * P <= (S - 1) * ((S - 2) * s)
    <2>1. (S - 1) * (S - 2) * s = (S - 1) * ((S - 2) * s)
      BY <1>1
    <2> QED
      BY <2>1 DEF S, P
  <1>13. /\ 2 * S * P = 2 * (S * P) /\ S * P \in Nat
         /\ (S - 1) * ((S - 2) * s) \in Int /\ (S - 1) * (2 * n) \in Int
    BY <1>1, <1>6
  <1>14. S * P <= S * v
    BY <1>9, <1>10, <1>11, <1>12, <1>13
  <1>15. P <= v
    <2> SUFFICES ASSUME v + 1 <= P PROVE FALSE
      BY <1>1, <1>7
    <2>1. S * (v + 1) <= S * P
      BY <1>1, <1>7
    <2>2. S * (v + 1) = S * v + S
      BY <1>1, <1>7
    <2> QED
      BY <1>1, <1>10, <1>13, <1>14, <2>1, <2>2
  <1> QED
    BY <1>7, <1>15 DEF v, n, x, P

-----------------------------------------------------------------------------
(* Amounts of any number of digits.                                        *)

(* What toString prints is read back as the number that was printed.       *)
LEMMA PrintedReadsBack ==
    ASSUME NEW n \in Nat \ {0}, NEW s \in Tens, n % s = 0, InRange(4 * n)
    PROVE  LET p == Printed(Round(n))
           IN  p \in Nat \ {0} /\ InRange(p) /\ Round(p) = Round(n)
  <1> DEFINE v == Round(n)
             near == {k \in v - Ulp(v) .. v + Ulp(v) : k > 0 /\ Round(k) = v}
             shared == {ten \in Tens : \E k \in near : k % ten = 0}
             t == Max(shared)
             short == {k \in near : k % t = 0}
             distance(k) == IF k < v THEN v - k ELSE k - v
  <1>1. /\ v \in Nat \ {0} /\ InRange(v) /\ InRange(n)
        /\ n \in v - Ulp(v) .. v + Ulp(v)
        /\ v + Ulp(v) <= 4 * n
    BY RoundedIsNear
  <1>2. n \in near
    BY <1>1
  <1>3. Ulp(v) \in Nat
    BY <1>1, UlpIs
  <1> HIDE DEF v
  <1>4. ASSUME NEW k \in near
        PROVE  k \in Nat \ {0} /\ k <= 4 * n /\ InRange(k) /\ Round(k) = v
    <2>1. k \in Nat \ {0} /\ k <= 4 * n /\ Round(k) = v
      BY <1>1, <1>3
    <2> QED
      BY <2>1, UlpGrows
  <1>5. shared \subseteq Nat \ {0} /\ s \in shared
    BY <1>2, NumberAssumption
  <1>6. ASSUME NEW ten \in shared PROVE ten <= 4 * n
    <2>1. PICK k \in near : k % ten = 0
      OBVIOUS
    <2>2. k \in Nat \ {0} /\ ten \in Nat \ {0} /\ k <= 4 * n
      BY <1>4, <1>5
    <2> HIDE DEF near, shared
    <2>3. ten <= k
      BY <2>1, <2>2
    <2> QED
      BY <2>2, <2>3
  <1>7. t \in shared
    <2>1. 4 * n \in Nat
      OBVIOUS
    <2> HIDE DEF shared
    <2> QED
      BY <1>5, <1>6, <2>1, MaxIs
  <1> HIDE DEF t
  <1>8. short # {} /\ short \subseteq near
    BY <1>7
  <1>9. \E k \in short : \A m \in short : distance(k) <= distance(m)
    <2> DEFINE distances == {distance(k) : k \in short}
    <2>1. \A k \in short : distance(k) \in Nat
      BY <1>1, <1>4, <1>8
    <2> HIDE DEF distance, short
    <2>2. distances \subseteq Nat /\ distances # {}
      BY <1>8, <2>1
    <2>3. PICK d \in distances : \A e \in distances : d <= e
      <3> HIDE DEF distances
      <3> QED
        BY <2>2, LeastExists
    <2> QED
      BY <2>3
  <1>10. Printed(v) = CHOOSE k \in short : \A m \in short : distance(k) <= distance(m)
    BY DEF Printed, t
  <1> HIDE DEF short, distance
  <1>11. Printed(v) \in short
    BY <1>9, <1>10
  <1>12. Printed(v) \in near
    BY <1>8, <1>11
  <1> HIDE DEF near
  <1> QED
    BY <1>4, <1>12 DEF v

(* An error of one part in eight or less, of what is read or of what is    *)
(* printed.                                                                *)
LEMMA SmallErrors ==
    ASSUME NEW S \in Nat, S >= 8, NEW x \in Nat, NEW y \in Nat
    PROVE  /\ S * x <= S * y + y => 8 * x <= 9 * y
           /\ S * x <= S * y + x => 7 * x <= 8 * y
  <1>1. PICK d \in Nat : S = 8 + d
    <2>1. S = 8 + (S - 8) /\ S - 8 \in Nat
      OBVIOUS
    <2> QED
      BY <2>1
  <1>2. S * x = 8 * x + d * x /\ S * y = 8 * y + d * y
    BY <1>1
  <1>3. d * x \in Nat /\ d * y \in Nat
    BY <1>1
  <1>4. CASE x <= y
    BY <1>4
  <1>5. CASE y <= x
    <2>1. d * y <= d * x
      BY <1>1, <1>5
    <2> QED
      BY <1>2, <1>3, <2>1
  <1> QED
    BY <1>4, <1>5

(* The job of a transfer from Solana, of any number of digits, says its    *)
(* amount to four parts in 2^53, or cannot be read.                        *)
THEOREM JobIsNear ==
    ASSUME NEW a \in Nat \ {0}, NEW s \in Scales, InRange(16 * (a * s))
    PROVE  LET n == JobAmount("solana", a, s)
           IN  \/ n = Exponential
               \/ /\ n \in Nat \ {0}
                  /\ Significands * n <= Significands * (a * s) + 4 * (a * s)
                  /\ Significands * (a * s) <= Significands * n + 4 * (a * s)
  <1> DEFINE S == Significands
             x == Round(a)
             b == a * s
             w == x * s
             v == Round(w)
             p == Printed(v)
  <1>1. S \in Nat /\ S >= 8 /\ s \in Tens /\ s \in Nat \ {0} /\ b \in Nat \ {0}
    BY NumberAssumption
  <1>2. a <= b /\ 4 * a \in Nat /\ 4 * a <= 16 * b
    <2>1. a <= a * s
      BY <1>1
    <2> QED
      BY <1>1, <2>1
  <1>3. InRange(4 * a) /\ InRange(a)
    <2>1. 16 * b \in Nat /\ a <= 16 * b
      BY <1>1, <1>2
    <2> QED
      BY <1>2, <2>1, UlpGrows
  <1>4. x \in Nat \ {0} /\ x <= 4 * a
    BY <1>3, RoundedIsNear, UlpIs
  <1>5. S * x <= S * a + a /\ S * a <= S * x + a
    BY <1>3, RoundGains, RoundLoses
  <1> HIDE DEF x
  <1>6. w \in Nat \ {0} /\ w % s = 0 /\ 4 * w \in Nat
    BY <1>1, <1>4
  <1>7. InRange(4 * w) /\ InRange(w)
    <2>1. x * s <= (4 * a) * s /\ (4 * a) * s = 4 * (a * s)
      BY <1>1, <1>4
    <2>2. w <= 4 * b
      BY <2>1
    <2> HIDE DEF w, b
    <2>3. 4 * w <= 16 * b /\ w <= 16 * b /\ 16 * b \in Nat
      BY <1>1, <1>6, <2>2
    <2> QED
      BY <1>6, <2>3, UlpGrows DEF b
  <1>8. S * w <= S * b + b /\ S * b <= S * w + b
    <2>1. (S * x) * s <= (S * a + a) * s /\ (S * a) * s <= (S * x + a) * s
      BY <1>1, <1>4, <1>5
    <2>2. /\ (S * x) * s = S * (x * s)
          /\ (S * a) * s = S * (a * s)
          /\ (S * a + a) * s = (S * a) * s + a * s
          /\ (S * x + a) * s = (S * x) * s + a * s
      BY <1>1, <1>4
    <2> QED
      BY <2>1, <2>2
  <1>9. v \in Nat /\ S * v <= S * w + w /\ S * w <= S * v + w
    BY <1>6, <1>7, RoundGains, RoundLoses, RoundNear
  <1>10. p \in Nat \ {0} /\ InRange(p) /\ Round(p) = v
    BY <1>1, <1>6, <1>7, PrintedReadsBack
  <1>11. S * v <= S * p + p /\ S * p <= S * v + p
    BY <1>10, RoundGains, RoundLoses
  <1>12. JobAmount("solana", a, s) \in {p, Exponential}
    BY DEF JobAmount, x
  <1> HIDE DEF S, b, w, v, p
  <1>13. 8 * w <= 9 * b /\ 8 * v <= 9 * w /\ 7 * p <= 8 * v
    BY <1>1, <1>6, <1>8, <1>9, <1>10, <1>11, SmallErrors
  <1>14. S * p \in Nat /\ S * v \in Nat /\ S * w \in Nat /\ S * b \in Nat
    BY <1>1, <1>6, <1>9, <1>10
  <1>15. S * p <= S * b + 4 * b /\ S * b <= S * p + 4 * b
    BY <1>1, <1>6, <1>8, <1>9, <1>10, <1>11, <1>13, <1>14
  <1> QED
    BY <1>10, <1>12, <1>15 DEF S, b
=============================================================================
