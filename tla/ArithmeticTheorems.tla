--------------------------- MODULE ArithmeticTheorems ---------------------------
(***************************************************************************)
(* What every proof about amounts rests on.  The fixed-point conversions,  *)
(* for every scale ONE: natural numbers, and between SY and PY exact       *)
(* floors, so that value converted in parts and back is never more than    *)
(* value converted at once.  And sums over a finite set: how one changes   *)
(* at one place, by adding a second function, by scaling, and that it is   *)
(* monotone.                                                               *)
(***************************************************************************)
EXTENDS FixedPoint, Sums, FiniteSetTheorems, TLAPS

(* Flooring division of naturals is a natural.                             *)
LEMMA DivNat ==
    ASSUME NEW a \in Nat, NEW b \in Nat \ {0}
    PROVE  a \div b \in Nat
    OBVIOUS

(* So is a product.                                                        *)
LEMMA ProductNat ==
    ASSUME NEW a \in Nat, NEW b \in Nat
    PROVE  a * b \in Nat
    OBVIOUS

(* A larger divisor gives a quotient that is not larger.                   *)
LEMMA DivAntitone ==
    ASSUME NEW a \in Nat, NEW b \in Nat \ {0}, NEW c \in Nat, b <= c
    PROVE  a \div c <= a \div b
    OBVIOUS

-----------------------------------------------------------------------------
(* Quotients and products of integers.                                     *)

(* A quotient of naturals lies within one of the fraction.                 *)
LEMMA Quotient ==
    ASSUME NEW a \in Nat, NEW b \in Nat \ {0}
    PROVE  /\ a \div b \in Nat
           /\ (a \div b) * b <= a
           /\ a < ((a \div b) + 1) * b
  OBVIOUS

(* A common factor cancels out of an inequality.                           *)
LEMMA Cancel ==
    ASSUME NEW a \in Int, NEW b \in Int, NEW c \in Nat \ {0}, a * c <= b * c
    PROVE  a <= b
  OBVIOUS

(* The same for a strict inequality.                                       *)
LEMMA StrictCancel ==
    ASSUME NEW a \in Int, NEW b \in Int, NEW c \in Nat \ {0}, a * c < b * c
    PROVE  a < b
  OBVIOUS

(* Multiplying both sides by a natural.                                    *)
LEMMA Scaled ==
    ASSUME NEW a \in Int, NEW b \in Int, NEW c \in Nat, a <= b
    PROVE  a * c <= b * c
  OBVIOUS

(* Half a unit is less than a unit.                                        *)
LEMMA CorrectionSmall == Correction \in Nat /\ Correction < ONE
<1>1. ONE \in Nat \ {0}
  BY ONEAssumption
<1>2. \A n \in Nat \ {0} : n \div 2 \in Nat /\ n \div 2 < n
  OBVIOUS
<1> QED BY <1>1, <1>2 DEF Correction

(* A product with a natural keeps its value: the correction is lost again. *)
LEMMA HalfLost ==
    ASSUME NEW k \in Nat, NEW one \in Nat \ {0}, NEW c \in Nat, c < one
    PROVE  (k * one + c) \div one = k
<1>1. k * one \in Nat
  OBVIOUS
<1> QED BY <1>1

(* A quotient is determined by its two bounds.                             *)
LEMMA QuotientIs ==
    ASSUME NEW a \in Nat, NEW b \in Nat \ {0}, NEW q \in Int,
           q * b <= a, a < (q + 1) * b
    PROVE  a \div b = q
<1> DEFINE p == a \div b
<1>1. p \in Nat /\ p * b <= a /\ a < (p + 1) * b
  BY Quotient
<1> HIDE DEF p
<1>2. p * b < (q + 1) * b /\ q * b < (p + 1) * b
  <2>1. p * b \in Int /\ q * b \in Int /\ (p + 1) * b \in Int /\ (q + 1) * b \in Int
    BY <1>1
  <2> QED BY ONLY <1>1, <2>1, a \in Nat, q * b <= a, a < (q + 1) * b
<1>3. p < q + 1 /\ q < p + 1
  BY <1>1, <1>2, StrictCancel
<1>4. p = q
  BY ONLY <1>1, <1>3, q \in Int
<1> QED BY <1>4 DEF p

(* A larger dividend gives a quotient that is not smaller.                 *)
LEMMA DivMonotone ==
    ASSUME NEW a \in Nat, NEW b \in Nat, NEW c \in Nat \ {0}, a <= b
    PROVE  a \div c <= b \div c
  OBVIOUS

(* Two floors add up to no more than the floor of the sum.                 *)
LEMMA FloorsAdd ==
    ASSUME NEW a \in Nat, NEW b \in Nat, NEW c \in Nat \ {0}
    PROVE  (a \div c) + (b \div c) <= (a + b) \div c
  OBVIOUS

(* Adding at most m divisors raises a floor by at most m.                  *)
LEMMA FloorRises ==
    ASSUME NEW a \in Nat, NEW x \in Nat, NEW m \in Nat, NEW c \in Nat \ {0},
           x <= m * c
    PROVE  (a + x) \div c <= (a \div c) + m
  OBVIOUS

-----------------------------------------------------------------------------
(* The operators of FixedPoint.                                            *)

(* Number arithmetic stays within the naturals: multiplication, flooring   *)
(* and scaling always, division when the divisor is not zero.              *)
LEMMA NumberNat ==
    ASSUME NEW a \in Nat, NEW b \in Nat
    PROVE  /\ Natural(a) \in Nat
           /\ FloorU64(a) \in Nat /\ CeilU64(a) \in Nat
           /\ NumMul(a, b) \in Nat
           /\ b # 0 => NumDiv(a, b) \in Nat
<1>1. ONE \in Nat \ {0}
    BY ONEAssumption
<1>2. Correction \in Nat
    BY <1>1, DivNat, 2 \in Nat \ {0} DEF Correction
<1>3. a * b + Correction \in Nat /\ a * ONE + Correction \in Nat
    BY <1>1, <1>2, ProductNat
<1>4. Natural(a) \in Nat
    BY <1>1, ProductNat DEF Natural
<1>5. FloorU64(a) \in Nat /\ NumMul(a, b) \in Nat
    BY <1>1, <1>3, DivNat DEF FloorU64, NumMul
<1>6. CeilU64(a) \in Nat
    <2>1. a + ONE - 1 \in Nat
        BY <1>1
    <2> QED BY ONLY <1>1, <2>1, DivNat DEF CeilU64
<1>7. ASSUME b # 0 PROVE NumDiv(a, b) \in Nat
    BY <1>3, <1>7, DivNat DEF NumDiv
<1> QED BY <1>4, <1>5, <1>6, <1>7

(* The conversions between SY and PY return whole token amounts.           *)
LEMMA ConversionNat ==
    ASSUME NEW rate \in Nat, NEW n \in Nat
    PROVE  /\ SyToPy(rate, n) \in Nat
           /\ rate # 0 => PyToSy(rate, n) \in Nat /\ PyToSyCeil(rate, n) \in Nat
<1>1. SyToPy(rate, n) \in Nat
    BY NumberNat DEF SyToPy
<1>2. ASSUME rate # 0 PROVE NumDiv(Natural(n), rate) \in Nat
    BY <1>2, NumberNat
<1>3. ASSUME rate # 0 PROVE PyToSy(rate, n) \in Nat /\ PyToSyCeil(rate, n) \in Nat
    BY <1>2, <1>3, NumberNat DEF PyToSy, PyToSyCeil
<1> QED BY <1>1, <1>3

(* The value of a share is a whole amount.                                 *)
LEMMA ShareValueNat ==
    ASSUME NEW old \in Nat, NEW new \in Nat, NEW shares \in Nat
    PROVE  ShareValue(old, new, shares) \in Nat
<1>1. CASE new <= old
    BY <1>1 DEF ShareValue
<1>2. CASE ~(new <= old)
    <2>1. new - old \in Nat
        BY <1>2
    <2> QED BY <1>2, <2>1, NumberNat DEF ShareValue
<1> QED BY <1>1, <1>2

(* So is the appreciation of an amount of SY.                              *)
LEMMA AppreciationNat ==
    ASSUME NEW old \in Nat, NEW new \in Nat, NEW amount \in Nat
    PROVE  Appreciation(old, new, amount) \in Nat
<1>1. CASE new <= old
    BY <1>1 DEF Appreciation
<1>2. CASE ~(new <= old)
    <2>1. new - old \in Nat /\ new # 0
        BY <1>2
    <2>2. NumMul(new - old, Natural(amount)) \in Nat
        BY <2>1, NumberNat
    <2> QED BY <1>2, <2>1, <2>2, NumberNat DEF Appreciation
<1> QED BY <1>1, <1>2

(* Earned interest is a whole amount: 1/idx - 1/rate is not negative when  *)
(* the rate has risen, whatever the rounding of the two quotients.         *)
LEMMA EarnedNat ==
    ASSUME NEW yt \in Nat, NEW idx \in Nat, NEW rate \in Nat
    PROVE  Earned(yt, idx, rate) \in Nat
<1>1. CASE idx >= rate \/ yt = 0 \/ idx = 0
    BY <1>1 DEF Earned
<1>2. CASE ~(idx >= rate \/ yt = 0 \/ idx = 0)
    <2>1. ONE \in Nat
        BY ONEAssumption
    <2>2. idx # 0 /\ rate # 0 /\ idx <= rate
        BY <1>2
    <2>3. ONE * ONE + Correction \in Nat
        BY ONEAssumption, DivNat, ProductNat, 2 \in Nat \ {0} DEF Correction
    <2>4. NumDiv(ONE, rate) <= NumDiv(ONE, idx)
        BY <2>2, <2>3, DivAntitone DEF NumDiv
    <2>5. NumDiv(ONE, idx) \in Nat /\ NumDiv(ONE, rate) \in Nat
        BY <2>1, <2>2, NumberNat
    <2>6. NumDiv(ONE, idx) - NumDiv(ONE, rate) \in Nat
        BY <2>4, <2>5
    <2> QED BY <1>2, <2>6, NumberNat DEF Earned
<1> QED BY <1>1, <1>2

(* Scaling earned SY to the current rate returns a whole amount.           *)
LEMMA ScaleNat ==
    ASSUME NEW n \in Nat, NEW final \in Nat, NEW current \in Nat
    PROVE  ScaleToCurrent(n, final, current) \in Nat
<1>1. CASE current <= final
    BY <1>1 DEF ScaleToCurrent
<1>2. CASE ~(current <= final)
    <2>1. current # 0
        BY <1>2
    <2>2. NumDiv(final, current) \in Nat
        BY <2>1, NumberNat
    <2> QED BY <1>2, <2>2, NumberNat DEF ScaleToCurrent
<1> QED BY <1>1, <1>2

(* A fee of at most 100%, although rounded up, never exceeds the amount.   *)
LEMMA FeeWithinAmount ==
    ASSUME NEW amount \in Nat, NEW bps \in Nat, bps <= 10000
    PROVE  FeeCeil(amount, bps) \in Nat /\ FeeCeil(amount, bps) <= amount
<1> DEFINE k == amount * bps
<1>1. k \in Nat /\ k <= 10000 * amount
    BY ProductNat
<1>2. FeeCeil(amount, bps) = (k + 9999) \div 10000
    BY DEF FeeCeil
<1> HIDE DEF k
<1>3. (k + 9999) \div 10000 \in Nat /\ (k + 9999) \div 10000 <= amount
    BY <1>1
<1> QED BY <1>2, <1>3

(* A rate in basis points is a number of at most 10000.                    *)
LEMMA BasisPointsNat == \A b \in BasisPoints : b \in Nat /\ b <= 10000
    BY DEF BasisPoints

(* A fee at such a rate is no more than the amount it is taken from.       *)
LEMMA FeeOfBps ==
    ASSUME NEW n \in Nat, NEW b \in BasisPoints
    PROVE  FeeCeil(n, b) \in Nat /\ FeeCeil(n, b) <= n
<1>1. b \in Nat /\ b <= 10000
    BY BasisPointsNat
<1> QED BY <1>1, FeeWithinAmount

-----------------------------------------------------------------------------
(* The conversions between SY and PY as floors.                            *)

(* The rounding of the product is lost: PY for SY are a plain floor.       *)
LEMMA SyToPyFloor ==
    ASSUME NEW rate \in Nat, NEW n \in Nat
    PROVE  SyToPy(rate, n) = (n * rate) \div ONE
<1>1. ONE \in Nat \ {0} /\ Correction \in Nat /\ Correction < ONE
    BY ONEAssumption, CorrectionSmall
<1>2. n * rate \in Nat /\ (n * ONE) * rate = (n * rate) * ONE
    BY <1>1
<1>3. ((n * rate) * ONE + Correction) \div ONE = n * rate
    BY ONLY <1>1, <1>2, HalfLost
<1> QED BY ONLY <1>2, <1>3 DEF SyToPy, FloorU64, NumMul, Natural

(* So is that of the quotient: SY for PY are a plain floor.                *)
LEMMA PyToSyFloor ==
    ASSUME NEW rate \in Nat \ {0}, NEW n \in Nat
    PROVE  PyToSy(rate, n) = (n * ONE) \div rate
<1> DEFINE k == n * ONE
           q == k \div rate
           x == k * ONE + Correction
           y == x \div rate
<1>1. ONE \in Nat \ {0} /\ Correction \in Nat /\ Correction < ONE
    BY ONEAssumption, CorrectionSmall
<1>2. k \in Nat /\ x \in Nat
    BY <1>1, ProductNat
<1>3. PyToSy(rate, n) = y \div ONE
    BY DEF PyToSy, FloorU64, NumDiv, Natural
<1>4. q \in Nat /\ q * rate <= k /\ k < (q + 1) * rate
    BY <1>2, Quotient
<1>5. y \in Nat /\ y * rate <= x /\ x < (y + 1) * rate
    BY <1>2, Quotient
<1> HIDE DEF k, q, y
<1>6. q * ONE \in Nat /\ (q + 1) * ONE \in Nat /\ rate \in Nat \ {0}
    BY <1>1, <1>4, ProductNat
<1>7. (q * rate) * ONE <= k * ONE /\ (k + 1) * ONE <= ((q + 1) * rate) * ONE
    <2>1. q * rate \in Int /\ (q + 1) * rate \in Int /\ k \in Int /\ k + 1 \in Int
        BY <1>2, <1>4
    <2>2. k + 1 <= (q + 1) * rate
        BY ONLY <1>4, <2>1
    <2> QED BY ONLY <1>1, <1>4, <2>1, <2>2, Scaled
<1>8. /\ (q * rate) * ONE = (q * ONE) * rate
      /\ ((q + 1) * rate) * ONE = ((q + 1) * ONE) * rate
      /\ (k + 1) * ONE = k * ONE + ONE
    BY ONLY <1>1, <1>2, <1>4, rate \in Nat \ {0}
<1>9. /\ (q * ONE) * rate \in Int /\ ((q + 1) * ONE) * rate \in Int /\ k * ONE \in Int
      /\ y * rate \in Int /\ (y + 1) * rate \in Int
    BY ONLY <1>1, <1>2, <1>4, <1>5, <1>6
<1>10. (q * ONE) * rate < (y + 1) * rate /\ y * rate < ((q + 1) * ONE) * rate
    BY ONLY <1>1, <1>5, <1>7, <1>8, <1>9
<1>11. q * ONE <= y /\ y < (q + 1) * ONE
    <2>1. q * ONE < y + 1 /\ y < (q + 1) * ONE
        BY ONLY <1>5, <1>6, <1>10, StrictCancel
    <2> QED BY ONLY <1>5, <1>6, <2>1
<1>12. y \div ONE = q
    <2>1. q \in Int /\ y \in Nat /\ ONE \in Nat \ {0}
        BY ONLY <1>1, <1>4, <1>5
    <2> QED BY ONLY <1>11, <2>1, QuotientIs, Zenon
<1> QED BY <1>3, <1>12 DEF q, k

(* SY converted in parts give no more PY than converted at once.           *)
LEMMA SyToPyParts ==
    ASSUME NEW rate \in Nat, NEW a \in Nat, NEW b \in Nat
    PROVE  SyToPy(rate, a) + SyToPy(rate, b) <= SyToPy(rate, a + b)
<1>1. a * rate \in Nat /\ b * rate \in Nat /\ (a + b) * rate = a * rate + b * rate
    OBVIOUS
<1>2. (a * rate) \div ONE + (b * rate) \div ONE <= (a * rate + b * rate) \div ONE
    BY ONLY <1>1, ONEAssumption, FloorsAdd
<1>3. a + b \in Nat
    OBVIOUS
<1> QED BY ONLY <1>1, <1>2, <1>3, rate \in Nat, a \in Nat, b \in Nat, SyToPyFloor

(* More SY are worth no less PY.                                           *)
LEMMA SyToPyMonotone ==
    ASSUME NEW rate \in Nat, NEW a \in Nat, NEW b \in Nat, a <= b
    PROVE  SyToPy(rate, a) <= SyToPy(rate, b)
<1>1. a * rate \in Nat /\ b * rate \in Nat /\ a * rate <= b * rate
    BY Scaled
<1> QED BY <1>1, DivMonotone, SyToPyFloor, ONEAssumption

(* PY converted in parts give no more SY than converted at once.           *)
LEMMA PyToSyParts ==
    ASSUME NEW rate \in Nat \ {0}, NEW a \in Nat, NEW b \in Nat
    PROVE  PyToSy(rate, a) + PyToSy(rate, b) <= PyToSy(rate, a + b)
<1>1. ONE \in Nat
    BY ONEAssumption
<1>2. a * ONE \in Nat /\ b * ONE \in Nat /\ (a + b) * ONE = a * ONE + b * ONE
    BY <1>1
<1>3. a + b \in Nat
    OBVIOUS
<1> QED BY <1>2, <1>3, FloorsAdd, PyToSyFloor

(* At a higher rate the same PY are worth no more SY.                      *)
LEMMA PyToSyAntitone ==
    ASSUME NEW low \in Nat \ {0}, NEW high \in Nat \ {0}, low <= high, NEW n \in Nat
    PROVE  PyToSy(high, n) <= PyToSy(low, n)
<1>1. n * ONE \in Nat /\ high \in Nat
    BY ONEAssumption, ProductNat
<1> QED BY ONLY <1>1, low \in Nat \ {0}, high \in Nat \ {0}, low <= high, n \in Nat,
              DivAntitone, PyToSyFloor

(* The PY that s SY give are worth at most s SY more.                      *)
LEMMA StrippedAtPar ==
    ASSUME NEW rate \in Nat \ {0}, NEW p \in Nat, NEW s \in Nat
    PROVE  PyToSy(rate, p + SyToPy(rate, s)) <= PyToSy(rate, p) + s
<1> DEFINE x == SyToPy(rate, s)
<1>1. ONE \in Nat \ {0} /\ s * rate \in Nat
    BY ONEAssumption, ProductNat
<1>2. x \in Nat /\ x * ONE <= s * rate
    BY <1>1, SyToPyFloor, Quotient
<1> HIDE DEF x
<1>3. /\ p * ONE \in Nat /\ x * ONE \in Nat /\ p + x \in Nat
      /\ (p + x) * ONE = p * ONE + x * ONE
    BY <1>1, <1>2
<1>4. (p * ONE + x * ONE) \div rate <= ((p * ONE) \div rate) + s
    BY ONLY <1>2, <1>3, s \in Nat, rate \in Nat \ {0}, FloorRises
<1>5. PyToSy(rate, p + x) <= PyToSy(rate, p) + s
    BY ONLY <1>3, <1>4, p \in Nat, rate \in Nat \ {0}, PyToSyFloor
<1> QED BY <1>5 DEF x

(* The SY that b base give are worth at most b base more.                  *)
LEMMA MintedAtPar ==
    ASSUME NEW rate \in Nat \ {0}, NEW s \in Nat, NEW b \in Nat
    PROVE  SyToPy(rate, s + PyToSy(rate, b)) <= SyToPy(rate, s) + b
<1> DEFINE x == PyToSy(rate, b)
<1>1. ONE \in Nat \ {0} /\ b * ONE \in Nat
    BY ONEAssumption, ProductNat
<1>2. x \in Nat /\ x * rate <= b * ONE
    BY <1>1, PyToSyFloor, Quotient
<1> HIDE DEF x
<1>3. /\ s * rate \in Nat /\ x * rate \in Nat /\ s + x \in Nat
      /\ (s + x) * rate = s * rate + x * rate
    BY <1>1, <1>2
<1>4. (s * rate + x * rate) \div ONE <= ((s * rate) \div ONE) + b
    BY ONLY <1>1, <1>2, <1>3, b \in Nat, FloorRises
<1>5. SyToPy(rate, s + x) <= SyToPy(rate, s) + b
    BY ONLY <1>3, <1>4, s \in Nat, rate \in Nat \ {0}, SyToPyFloor
<1> QED BY <1>5 DEF x

-----------------------------------------------------------------------------
(* Ratios and shares.                                                      *)

(* The quotient of a division, times the divisor, stays below the number.  *)
LEMMA ProductOfQuotient ==
    ASSUME NEW k \in Nat, NEW one \in Nat \ {0}
    PROVE  k \div one \in Nat /\ one * (k \div one) <= k
  OBVIOUS

(* What a settlement credits never exceeds what was earned.                *)
LEMMA ShareBelow ==
    ASSUME NEW old \in Nat, NEW new \in Nat, NEW shares \in Nat, old <= new
    PROVE  /\ ShareValue(old, new, shares) \in Nat
           /\ ONE * ShareValue(old, new, shares) <= (new - old) * shares
<1>1. ONE \in Nat \ {0} /\ Correction \in Nat /\ Correction < ONE
  BY ONEAssumption, CorrectionSmall
<1> DEFINE d == new - old
<1>2. d \in Nat
  OBVIOUS
<1>3. d * shares \in Nat
  BY <1>2, ProductNat
<1>4. CASE new <= old
  <2>1. ShareValue(old, new, shares) = 0
    BY <1>4 DEF ShareValue
  <2> QED BY <1>1, <1>3, <2>1
<1>5. CASE ~(new <= old)
  <2> HIDE DEF d
  <2>1. NumMul(d, Natural(shares)) = d * shares
    <3>1. NumMul(d, Natural(shares)) = (d * (shares * ONE) + Correction) \div ONE
      BY DEF NumMul, Natural
    <3>2. d * (shares * ONE) = (d * shares) * ONE
      BY <1>1, <1>2
    <3>3. ((d * shares) * ONE + Correction) \div ONE = d * shares
      BY ONLY <1>1, <1>3, HalfLost
    <3> QED BY <3>1, <3>2, <3>3
  <2>2. ShareValue(old, new, shares) = (d * shares) \div ONE
    BY <1>5, <2>1 DEF ShareValue, FloorU64, d
  <2>3. (d * shares) \div ONE \in Nat /\ ONE * ((d * shares) \div ONE) <= d * shares
    BY ONLY <1>1, <1>3, ProductOfQuotient
  <2>4. ShareValue(old, new, shares) \in Nat /\ ONE * ShareValue(old, new, shares) <= d * shares
    BY <2>2, <2>3
  <2> QED BY <2>4 DEF d
<1> QED BY <1>4, <1>5

(* A ratio is rounded down: it never claims more than its fraction.        *)
LEMMA RatioBelow ==
    ASSUME NEW n \in Nat, NEW d \in Nat \ {0}
    PROVE  FromRatio(n, d) \in Nat /\ FromRatio(n, d) * d <= n * ONE
<1> DEFINE k == n * ONE
           e == d * ONE
           x == k * ONE + Correction
           y == x \div e
<1>1. ONE \in Nat \ {0} /\ Correction \in Nat /\ Correction < ONE
    BY ONEAssumption, CorrectionSmall
<1>2. k \in Nat /\ e \in Nat \ {0}
    BY <1>1
<1> HIDE DEF k
<1>3. x \in Nat
    BY <1>1, <1>2
<1>4. FromRatio(n, d) = y
    BY DEF FromRatio, NumDiv, Natural, k
<1> HIDE DEF x
<1>5. y \in Nat /\ y * e <= x
    BY ONLY <1>2, <1>3, Quotient
<1> HIDE DEF y
<1>6. (y * d) * ONE < (k + 1) * ONE
    <2>1. y * e = (y * d) * ONE
        BY <1>1, <1>5 DEF e
    <2>2. x < (k + 1) * ONE
        BY <1>1, <1>2 DEF x
    <2>3. y * e \in Nat /\ (k + 1) * ONE \in Nat
        BY <1>1, <1>2, <1>5
    <2> QED BY <1>3, <1>5, <2>1, <2>2, <2>3
<1>7. y * d < k + 1
    <2>1. y * d \in Int /\ k + 1 \in Int
        BY <1>2, <1>5
    <2> QED BY ONLY <1>1, <1>6, <2>1, StrictCancel
<1>8. y * d \in Nat
    BY <1>5
<1> QED BY <1>2, <1>4, <1>5, <1>7, <1>8 DEF k

(* What is paid for n of d shares of m is no more than that share of m.    *)
LEMMA ShareOfRatio ==
    ASSUME NEW m \in Nat, NEW d \in Nat \ {0}, NEW n \in Nat
    PROVE  /\ SyToPy(FromRatio(m, d), n) \in Nat
           /\ SyToPy(FromRatio(m, d), n) * d <= n * m
<1> DEFINE q == FromRatio(m, d)
           r == SyToPy(q, n)
<1>1. ONE \in Nat \ {0} /\ q \in Nat /\ q * d <= m * ONE
    BY ONEAssumption, RatioBelow
<1> HIDE DEF q
<1>2. n * q \in Nat /\ r = (n * q) \div ONE
    BY <1>1, SyToPyFloor
<1> HIDE DEF r
<1>3. r \in Nat /\ r * ONE <= n * q
    BY <1>1, <1>2, Quotient
<1>4. (r * d) * ONE <= (n * m) * ONE
    <2>1. (r * ONE) * d <= (n * q) * d
        <3>1. r * ONE \in Int /\ n * q \in Int /\ d \in Nat
            BY <1>1, <1>2, <1>3
        <3> QED BY ONLY <1>3, <3>1, Scaled
    <2>2. (q * d) * n <= (m * ONE) * n
        <3>1. q * d \in Int /\ m * ONE \in Int
            BY <1>1
        <3> QED BY ONLY <1>1, <3>1, n \in Nat, Scaled
    <2>3. (r * ONE) * d = (r * d) * ONE /\ (n * q) * d = (q * d) * n
          /\ (m * ONE) * n = (n * m) * ONE
        BY <1>1, <1>3
    <2>4. (r * d) * ONE \in Nat /\ (q * d) * n \in Nat /\ (n * m) * ONE \in Nat
        BY <1>1, <1>3
    <2> QED BY ONLY <2>1, <2>2, <2>3, <2>4
<1>5. r * d \in Int /\ n * m \in Int
    BY <1>3
<1>6. r * d <= n * m
    BY ONLY <1>1, <1>4, <1>5, Cancel
<1> QED BY <1>3, <1>6 DEF r, q

-----------------------------------------------------------------------------
(* Reciprocals of rates, and what interest and surplus lose to rounding.   *)

(* The reciprocal falls as the rate rises.                                 *)
LEMMA ReciprocalFalls ==
    ASSUME NEW low \in Nat \ {0}, NEW high \in Nat \ {0}, low <= high
    PROVE  /\ NumDiv(ONE, low) \in Nat /\ NumDiv(ONE, high) \in Nat
           /\ NumDiv(ONE, high) <= NumDiv(ONE, low)
<1> DEFINE x == ONE * ONE + Correction
<1>1. ONE \in Nat \ {0} /\ Correction \in Nat
    BY ONEAssumption, CorrectionSmall
<1>2. x \in Nat
    BY <1>1
<1>3. NumDiv(ONE, low) = x \div low /\ NumDiv(ONE, high) = x \div high
    BY DEF NumDiv
<1> HIDE DEF x
<1>4. x \div high <= x \div low
    BY ONLY <1>2, low \in Nat \ {0}, high \in Nat \ {0}, low <= high, DivAntitone
<1>5. x \div low \in Nat /\ x \div high \in Nat
    BY ONLY <1>2, low \in Nat \ {0}, high \in Nat \ {0}, DivNat
<1> QED BY <1>3, <1>4, <1>5

(* Interest is rounded down from the difference of two reciprocals.        *)
LEMMA EarnedRoundsDown ==
    ASSUME NEW yt \in Nat, NEW idx \in Nat \ {0}, NEW rate \in Nat \ {0}, idx <= rate
    PROVE  /\ Earned(yt, idx, rate) \in Nat
           /\ Earned(yt, idx, rate) * ONE
                <= (NumDiv(ONE, idx) - NumDiv(ONE, rate)) * yt
<1> DEFINE d == NumDiv(ONE, idx) - NumDiv(ONE, rate)
           k == d * yt
<1>1. ONE \in Nat \ {0} /\ Correction \in Nat /\ Correction < ONE
    BY ONEAssumption, CorrectionSmall
<1>2. d \in Nat
    BY ReciprocalFalls
<1>3. Earned(yt, idx, rate) \in Nat
    BY EarnedNat
<1>4. Earned(yt, idx, rate) = IF idx >= rate \/ yt = 0 \/ idx = 0 THEN 0
                              ELSE ((d * (yt * ONE) + Correction) \div ONE) \div ONE
    BY DEF Earned, FloorU64, NumMul, Natural
<1> HIDE DEF d
<1>5. k \in Nat
    BY <1>2
<1>6. d * (yt * ONE) = k * ONE
    BY <1>1, <1>2
<1> HIDE DEF k
<1>7. (k * ONE + Correction) \div ONE = k
    BY ONLY <1>1, <1>5, HalfLost
<1>8. (k \div ONE) * ONE <= k
    BY ONLY <1>1, <1>5, Quotient
<1>9. CASE idx >= rate \/ yt = 0 \/ idx = 0
    <2>1. Earned(yt, idx, rate) = 0
        BY <1>4, <1>9
    <2> QED BY ONLY <1>1, <1>3, <1>5, <2>1 DEF k, d
<1>10. CASE ~(idx >= rate \/ yt = 0 \/ idx = 0)
    <2>1. Earned(yt, idx, rate) = k \div ONE
        BY <1>4, <1>6, <1>7, <1>10
    <2>2. Earned(yt, idx, rate) * ONE <= k
        BY <1>8, <2>1
    <2> QED BY <1>3, <2>2 DEF k, d
<1> QED BY <1>9, <1>10

(* Interest at the final rate is worth no more SY at a later rate, if the  *)
(* ratio of the two is not rounded up.                                     *)
LEMMA ScaledDown ==
    ASSUME NEW n \in Nat, NEW f \in Nat \ {0}, NEW r \in Nat \ {0}, f <= r,
           NumDiv(f, r) * r <= f * ONE
    PROVE  /\ ScaleToCurrent(n, f, r) \in Nat
           /\ ScaleToCurrent(n, f, r) * r <= n * f
<1>1. ONE \in Nat \ {0} /\ Correction \in Nat /\ Correction < ONE
    BY ONEAssumption, CorrectionSmall
<1>2. ScaleToCurrent(n, f, r) \in Nat
    BY ScaleNat
<1>3. CASE r <= f
    <2>1. f = r /\ ScaleToCurrent(n, f, r) = n
        BY <1>3 DEF ScaleToCurrent
    <2> QED BY <2>1
<1>4. CASE ~(r <= f)
    <2> DEFINE q == NumDiv(f, r)
               k == q * n
               s == k \div ONE
    <2>1. q \in Nat
        BY NumberNat
    <2>2. ScaleToCurrent(n, f, r) = ((q * (n * ONE) + Correction) \div ONE) \div ONE
        BY <1>4 DEF ScaleToCurrent, FloorU64, NumMul, Natural
    <2>3. q * r <= f * ONE
        OBVIOUS
    <2> HIDE DEF q
    <2>4. k \in Nat /\ q * (n * ONE) = k * ONE
        BY <1>1, <2>1
    <2>5. (k * ONE + Correction) \div ONE = k
        BY ONLY <1>1, <2>4, HalfLost
    <2>6. ScaleToCurrent(n, f, r) = s
        BY <2>2, <2>4, <2>5
    <2>7. s \in Nat /\ s * ONE <= k
        BY ONLY <1>1, <2>4, Quotient
    <2> HIDE DEF s
    <2>8. (s * ONE) * r <= k * r
        <3>1. s * ONE \in Int /\ k \in Int
            BY <1>1, <2>4, <2>7
        <3> QED BY ONLY <2>7, <3>1, r \in Nat, Scaled
    <2>9. (q * r) * n <= (f * ONE) * n
        <3>1. q * r \in Int /\ f * ONE \in Int
            BY <1>1, <2>1
        <3> QED BY ONLY <2>3, <3>1, n \in Nat, Scaled
    <2>10. k * r = (q * r) * n /\ (s * ONE) * r = (s * r) * ONE
           /\ (f * ONE) * n = (n * f) * ONE
        BY <1>1, <2>1, <2>7
    <2>11. (s * r) * ONE <= (n * f) * ONE
        <3>1. (s * r) * ONE \in Int /\ (q * r) * n \in Int /\ (n * f) * ONE \in Int
            BY <1>1, <2>1, <2>7
        <3> QED BY ONLY <2>8, <2>9, <2>10, <3>1
    <2>12. s * r \in Int /\ n * f \in Int
        BY <2>7
    <2>13. s * r <= n * f
        BY ONLY <1>1, <2>11, <2>12, Cancel
    <2> QED BY <1>2, <2>6, <2>13
<1> QED BY <1>3, <1>4

(* The appreciation is rounded down.                                       *)
LEMMA AppreciationDown ==
    ASSUME NEW old \in Nat, NEW new \in Nat, old < new, NEW n \in Nat
    PROVE  /\ Appreciation(old, new, n) \in Nat
           /\ Appreciation(old, new, n) * new <= (new - old) * n
<1> DEFINE d == new - old
           k == d * n
           x == k * ONE + Correction
           s == (x \div new) \div ONE
<1>1. ONE \in Nat \ {0} /\ Correction \in Nat /\ Correction < ONE
    BY ONEAssumption, CorrectionSmall
<1>2. d \in Nat /\ new \in Nat \ {0}
    OBVIOUS
<1>3. Appreciation(old, new, n)
        = ((((d * (n * ONE) + Correction) \div ONE) * ONE + Correction) \div new) \div ONE
    BY DEF Appreciation, FloorU64, NumMul, NumDiv, Natural
<1> HIDE DEF d
<1>4. k \in Nat /\ d * (n * ONE) = k * ONE
    BY <1>1, <1>2
<1> HIDE DEF k
<1>5. (k * ONE + Correction) \div ONE = k
    BY ONLY <1>1, <1>4, HalfLost
<1>6. Appreciation(old, new, n) = s
    BY <1>3, <1>4, <1>5
<1>7. x \in Nat
    BY <1>1, <1>4
<1> HIDE DEF x
<1>8. x \div new \in Nat /\ (x \div new) * new <= x
    BY ONLY <1>2, <1>7, Quotient
<1>9. PICK y \in Nat : y = x \div new /\ y * new <= x
    BY <1>8
<1>10. s \in Nat /\ s * ONE <= y
    BY ONLY <1>1, <1>9, Quotient
<1> HIDE DEF s
<1>11. (s * new) * ONE < (k + 1) * ONE
    <2>1. (s * ONE) * new <= y * new
        <3>1. s * ONE \in Int /\ new \in Nat
            BY <1>1, <1>10
        <3> QED BY ONLY <1>9, <1>10, <3>1, Scaled
    <2>2. (s * ONE) * new = (s * new) * ONE
        BY <1>1, <1>10
    <2>3. x < (k + 1) * ONE
        BY <1>1, <1>4 DEF x
    <2>4. (s * new) * ONE \in Nat /\ y * new \in Nat /\ (k + 1) * ONE \in Nat
        BY <1>1, <1>4, <1>9, <1>10
    <2> QED BY ONLY <1>7, <1>9, <2>1, <2>2, <2>3, <2>4
<1>12. s * new \in Int /\ k + 1 \in Int
    BY <1>4, <1>10
<1>13. s * new < k + 1
    BY ONLY <1>1, <1>11, <1>12, StrictCancel
<1>14. s * new <= k
    BY <1>4, <1>12, <1>13
<1> QED BY <1>6, <1>10, <1>14 DEF k, d

(* What an escrow keeps after the surplus is worth, at the new rate, what  *)
(* it was worth at the old one.                                            *)
LEMMA WorthKept ==
    ASSUME NEW old \in Nat, NEW new \in Nat, old < new, NEW n \in Nat
    PROVE  n * old <= (n - Appreciation(old, new, n)) * new
<1>1. PICK s \in Nat : s = Appreciation(old, new, n) /\ s * new <= (new - old) * n
    BY AppreciationDown
<1>2. (new - old) * n = new * n - old * n
    OBVIOUS
<1>3. (n - s) * new = n * new - s * new
    BY <1>1
<1>4. n * old = old * n /\ n * new = new * n
      /\ n * old \in Int /\ n * new \in Int /\ s * new \in Int
    BY <1>1
<1>5. n * old <= (n - s) * new
    BY ONLY <1>1, <1>2, <1>3, <1>4
<1> QED BY <1>1, <1>5

(* PY stripped from n SY stand for no more than the n SY, if the           *)
(* reciprocal of the rate is exact; and SY paid for PY at no more than par *)
(* are no more than the PY stand for.                                      *)
LEMMA StripStandsFor ==
    ASSUME NEW rate \in Nat \ {0}, NumDiv(ONE, rate) * rate = ONE * ONE, NEW n \in Nat
    PROVE  /\ SyToPy(rate, n) \in Nat
           /\ NumDiv(ONE, rate) * SyToPy(rate, n) <= n * ONE
<1>1. PICK d \in Nat : d = NumDiv(ONE, rate)
    BY ReciprocalFalls
<1>2. ONE \in Nat \ {0} /\ d * rate = ONE * ONE
    BY <1>1, ONEAssumption
<1>3. n * rate \in Nat /\ SyToPy(rate, n) = (n * rate) \div ONE
    BY SyToPyFloor, ProductNat
<1>4. PICK p \in Nat : p = SyToPy(rate, n) /\ p * ONE <= n * rate
    BY <1>2, <1>3, Quotient
<1>5. (p * ONE) * d <= (n * rate) * d
    <2>1. p * ONE \in Int /\ n * rate \in Int
        BY <1>2, <1>4
    <2> QED BY ONLY <1>1, <1>4, <2>1, Scaled
<1>6. (p * ONE) * d = (d * p) * ONE /\ (n * rate) * d = n * (d * rate)
      /\ n * (ONE * ONE) = (n * ONE) * ONE
    BY <1>1, <1>2, <1>4
<1>7. (d * p) * ONE <= (n * ONE) * ONE
    BY <1>2, <1>5, <1>6
<1>8. d * p \in Int /\ n * ONE \in Int
    BY <1>1, <1>2, <1>4
<1>9. d * p <= n * ONE
    BY ONLY <1>2, <1>7, <1>8, Cancel
<1> QED BY <1>1, <1>4, <1>9

LEMMA PaidForStanding ==
    ASSUME NEW rate \in Nat \ {0}, NumDiv(ONE, rate) * rate = ONE * ONE,
           NEW p \in Nat, NEW out \in Nat, out * rate <= p * ONE
    PROVE  out * ONE <= NumDiv(ONE, rate) * p
<1>1. PICK d \in Nat : d = NumDiv(ONE, rate)
    BY ReciprocalFalls
<1>2. ONE \in Nat \ {0} /\ d * rate = ONE * ONE
    BY <1>1, ONEAssumption
<1>3. (out * rate) * d <= (p * ONE) * d
    <2>1. out * rate \in Int /\ p * ONE \in Int
        BY <1>2
    <2> QED BY ONLY <1>1, <2>1, out * rate <= p * ONE, Scaled
<1>4. (p * ONE) * d = (d * p) * ONE /\ (out * rate) * d = out * (d * rate)
      /\ out * (ONE * ONE) = (out * ONE) * ONE
    BY <1>1, <1>2
<1>5. (out * ONE) * ONE <= (d * p) * ONE
    BY <1>2, <1>3, <1>4
<1>6. d * p \in Int /\ out * ONE \in Int
    BY <1>1, <1>2
<1>7. out * ONE <= d * p
    BY ONLY <1>2, <1>5, <1>6, Cancel
<1> QED BY <1>1, <1>7

(* PY converted back are worth no more than at par.                        *)
LEMMA ConvertedAtPar ==
    ASSUME NEW rate \in Nat \ {0}, NEW p \in Nat
    PROVE  PyToSy(rate, p) \in Nat /\ PyToSy(rate, p) * rate <= p * ONE
<1>1. p * ONE \in Nat
    BY ONEAssumption
<1> QED BY ONLY <1>1, rate \in Nat \ {0}, p \in Nat, PyToSyFloor, Quotient

-----------------------------------------------------------------------------
(* Sums over a finite set.                                                 *)

(* The units of a sum are the pairs of a place and a number up to its value. *)
LEMMA UnitsMember ==
    ASSUME NEW S, NEW f, NEW p
    PROVE  p \in Units(S, f) <=> \E x \in S : \E i \in 1..f[x] : p = <<x, i>>
  BY DEF Units

(* A sum of naturals is a natural: its units are finitely many.            *)
LEMMA TotalNat ==
    ASSUME NEW S, IsFiniteSet(S), NEW f, \A x \in S : f[x] \in Nat
    PROVE  IsFiniteSet(Units(S, f)) /\ Total(S, f) \in Nat
<1> DEFINE part == [x \in S |-> {x} \X (1..f[x])]
           parts == {{x} \X (1..f[x]) : x \in S}
<1>1. part \in Surjection(S, parts)
  BY DEF Surjection
<1>2. IsFiniteSet(parts)
  BY <1>1, FS_Surjection
<1>3. ASSUME NEW x \in S
      PROVE  IsFiniteSet({x} \X (1..f[x]))
  <2>1. IsFiniteSet({x})
    BY FS_Singleton
  <2>2. IsFiniteSet(1..f[x])
    <3>1. f[x] \in Int /\ 1 \in Int
      OBVIOUS
    <3> QED BY <3>1, FS_Interval
  <2> QED BY <2>1, <2>2, FS_Product
<1>4. \A T \in parts : IsFiniteSet(T)
  BY <1>3
<1>5. IsFiniteSet(UNION parts)
  BY <1>2, <1>4, FS_UNION
<1>6. IsFiniteSet(Units(S, f))
  BY <1>5 DEF Units
<1> QED BY <1>6, FS_CardinalityType DEF Total

(* A larger function has a larger sum.                                     *)
LEMMA TotalMonotone ==
    ASSUME NEW S, IsFiniteSet(S), NEW f, NEW g,
           \A x \in S : f[x] \in Nat /\ g[x] \in Nat /\ f[x] <= g[x]
    PROVE  Total(S, f) <= Total(S, g)
<1>1. IsFiniteSet(Units(S, g))
  BY TotalNat
<1>2. Units(S, f) \subseteq Units(S, g)
  <2> SUFFICES ASSUME NEW x \in S, NEW i \in Nat, i \in 1..f[x]
               PROVE  <<x, i>> \in Units(S, g)
    BY UnitsMember
  <2>1. i \in 1..g[x]
    OBVIOUS
  <2> QED BY <2>1, UnitsMember
<1> QED BY <1>1, <1>2, FS_Subset DEF Total

(* Functions that agree on a set have the same sum over it.                *)
LEMMA TotalSame ==
    ASSUME NEW S, NEW f, NEW g, \A x \in S : f[x] = g[x]
    PROVE  Total(S, f) = Total(S, g)
<1>1. Units(S, f) = Units(S, g)
  BY DEF Units
<1> QED BY <1>1 DEF Total

(* The sum of two functions is the sum of their sums: the units of the     *)
(* second, moved behind those of the first.                                *)
LEMMA TotalPlus ==
    ASSUME NEW S, IsFiniteSet(S), NEW f, NEW g, NEW h,
           \A x \in S : f[x] \in Nat /\ g[x] \in Nat /\ h[x] = f[x] + g[x]
    PROVE  Total(S, h) = Total(S, f) + Total(S, g)
<1> DEFINE F == Units(S, f)  G == Units(S, g)  H == Units(S, h)
           R == {p \in H : p[2] > f[p[1]]}
           move == [p \in G |-> <<p[1], f[p[1]] + p[2]>>]
<1>1. IsFiniteSet(F) /\ IsFiniteSet(G) /\ IsFiniteSet(H)
  <2>1. \A x \in S : h[x] \in Nat
    OBVIOUS
  <2> QED BY <2>1, TotalNat
<1>2. move \in Bijection(G, R)
  <2>1. ASSUME NEW p \in G
        PROVE  move[p] \in R
    <3>1. PICK x \in S, i \in Nat : i \in 1..g[x] /\ p = <<x, i>>
      BY UnitsMember
    <3>2. move[p] = <<x, f[x] + i>> /\ f[x] + i \in 1..h[x] /\ f[x] + i > f[x]
      BY <3>1
    <3>3. <<x, f[x] + i>> \in H
      BY <3>2, UnitsMember
    <3> QED BY <3>2, <3>3
  <2>2. ASSUME NEW p \in G, NEW q \in G, move[p] = move[q]
        PROVE  p = q
    <3>1. PICK x \in S, i \in Nat : i \in 1..g[x] /\ p = <<x, i>>
      BY UnitsMember
    <3>2. PICK y \in S, j \in Nat : j \in 1..g[y] /\ q = <<y, j>>
      BY UnitsMember
    <3>3. x = y /\ f[x] + i = f[y] + j
      BY <3>1, <3>2, <2>2
    <3>4. i = j
      BY <3>3
    <3> QED BY <3>1, <3>2, <3>3, <3>4
  <2>3. ASSUME NEW r \in R
        PROVE  \E p \in G : move[p] = r
    <3>1. PICK x \in S, i \in Nat : i \in 1..h[x] /\ r = <<x, i>>
      BY UnitsMember
    <3>2. i - f[x] \in 1..g[x] /\ f[x] + (i - f[x]) = i
      BY <3>1
    <3>3. <<x, i - f[x]>> \in G
      BY <3>2, UnitsMember
    <3>4. move[<<x, i - f[x]>>] = <<x, f[x] + (i - f[x])>>
      BY <3>3
    <3> QED BY <3>1, <3>2, <3>3, <3>4
  <2>4. move \in [G -> R]
    BY <2>1
  <2> QED BY <2>2, <2>3, <2>4 DEF Bijection, Injection, IsInjective, Surjection
<1>3. IsFiniteSet(R) /\ Cardinality(R) = Cardinality(G)
  BY <1>1, <1>2, FS_Bijection DEF ExistsBijection
<1>4. H = F \cup R
  <2>1. ASSUME NEW p \in H
        PROVE  p \in F \cup R
    <3>1. PICK x \in S, i \in Nat : i \in 1..h[x] /\ p = <<x, i>>
      BY UnitsMember
    <3>2. CASE i <= f[x]
      <4>1. i \in 1..f[x]
        BY <3>1, <3>2
      <4> QED BY <3>1, <4>1, UnitsMember
    <3>3. CASE i > f[x]
      BY <3>1, <3>3
    <3> QED BY <3>2, <3>3
  <2>2. ASSUME NEW p \in F
        PROVE  p \in H
    <3>1. PICK x \in S, i \in Nat : i \in 1..f[x] /\ p = <<x, i>>
      BY UnitsMember
    <3>2. i \in 1..h[x]
      BY <3>1
    <3> QED BY <3>1, <3>2, UnitsMember
  <2> QED BY <2>1, <2>2
<1>5. F \cap R = {}
  <2> SUFFICES ASSUME NEW p \in F, p \in R
               PROVE  FALSE
    OBVIOUS
  <2>1. PICK x \in S, i \in Nat : i \in 1..f[x] /\ p = <<x, i>>
    BY UnitsMember
  <2> QED BY <2>1
<1>6. Cardinality(H) = Cardinality(F) + Cardinality(R) - Cardinality({})
  BY <1>1, <1>3, <1>4, <1>5, FS_Union
<1>7. Cardinality({}) = 0 /\ Cardinality(F) \in Nat /\ Cardinality(R) \in Nat
  BY <1>1, <1>3, FS_EmptySet, FS_CardinalityType
<1> QED BY <1>3, <1>6, <1>7 DEF Total

(* Division with remainder, counted from one.                              *)
LEMMA BlockOf ==
    ASSUME NEW n \in Nat, NEW k \in Nat \ {0}, NEW i \in 1..(n * k)
    PROVE  \E q \in 1..n : \E r \in 1..k : i = (q - 1) * k + r
<1> DEFINE q == ((i - 1) \div k) + 1   r == ((i - 1) % k) + 1
<1>1. i \in Nat /\ i >= 1 /\ i <= n * k /\ k \in Nat /\ k > 0 /\ n \in Nat
  <2>1. n * k \in Nat
    OBVIOUS
  <2> QED BY <2>1
<1>2. i - 1 = ((i - 1) \div k) * k + ((i - 1) % k)
  BY <1>1
<1>3. (i - 1) \div k \in Nat /\ (i - 1) % k \in 0..(k - 1)
  BY <1>1
<1>4. (i - 1) \div k < n
  <2> DEFINE d == (i - 1) \div k  m == (i - 1) % k
  <2>1. d \in Nat /\ m \in Nat /\ i = d * k + m + 1
    BY <1>1, <1>2, <1>3
  <2> HIDE DEF d, m
  <2>2. d >= n => d * k >= n * k
    BY <2>1, <1>1
  <2>3. d * k \in Nat /\ n * k \in Nat
    BY <2>1, <1>1
  <2>4. d < n
    BY <2>1, <2>2, <2>3, <1>1
  <2> QED BY <2>4 DEF d
<1>5. q \in 1..n /\ r \in 1..k /\ i = (q - 1) * k + r
  BY <1>1, <1>2, <1>3, <1>4
<1> QED BY <1>5

(* A place in one block of k, and only there.                              *)
LEMMA BlockPlace ==
    ASSUME NEW n \in Nat, NEW k \in Nat \ {0}, NEW q \in 1..n, NEW r \in 1..k
    PROVE  (q - 1) * k + r \in 1..(n * k)
<1>1. (q - 1) * k \in Nat /\ (q - 1) * k + k = q * k /\ q * k <= n * k
  OBVIOUS
<1> QED BY <1>1

(* Two places are the same only in the same block.                         *)
LEMMA BlockUnique ==
    ASSUME NEW k \in Nat \ {0}, NEW q \in Nat, NEW r \in 1..k,
           NEW v \in Nat, NEW s \in 1..k, (q - 1) * k + r = (v - 1) * k + s
    PROVE  q = v /\ r = s
<1>1. (q - 1) * k = q * k - k /\ (v - 1) * k = v * k - k
  OBVIOUS
<1>2. q * k - v * k = s - r
  BY <1>1
<1>3. s - r < k /\ r - s < k
  OBVIOUS
<1>4. q > v => q * k >= v * k + k
  OBVIOUS
<1>5. v > q => v * k >= q * k + k
  OBVIOUS
<1>6. q * k \in Nat /\ v * k \in Nat
  OBVIOUS
<1>7. q = v
  BY <1>2, <1>3, <1>4, <1>5, <1>6
<1> QED BY <1>2, <1>7, <1>6

(* A constant factor comes out of the sum: every unit becomes k units.     *)
LEMMA TotalTimes ==
    ASSUME NEW S, IsFiniteSet(S), NEW k \in Nat, NEW f, NEW h,
           \A x \in S : f[x] \in Nat /\ h[x] = f[x] * k
    PROVE  Total(S, h) = Total(S, f) * k
<1> DEFINE F == Units(S, f)  H == Units(S, h)  P == F \X (1..k)
           spread == [p \in P |-> <<p[1][1], (p[1][2] - 1) * k + p[2]>>]
<1>1. IsFiniteSet(F) /\ IsFiniteSet(H)
  <2>1. \A x \in S : h[x] \in Nat
    OBVIOUS
  <2> QED BY <2>1, TotalNat
<1>2. CASE k = 0
  <2>1. \A x \in S : h[x] = 0
    BY <1>2
  <2>2. H = {}
    BY <2>1, UnitsMember
  <2>3. Total(S, f) \in Nat
    BY TotalNat
  <2> QED BY <1>2, <2>2, <2>3, FS_EmptySet DEF Total
<1>3. CASE k # 0
  <2>0. k \in Nat \ {0}
    BY <1>3
  <2>1. ASSUME NEW p \in P
        PROVE  spread[p] \in H
    <3>1. PICK x \in S, q \in Nat : q \in 1..f[x] /\ p[1] = <<x, q>>
      BY UnitsMember
    <3>2. (q - 1) * k + p[2] \in 1..(f[x] * k)
      <4>1. f[x] \in Nat /\ p[2] \in 1..k
        OBVIOUS
      <4> QED BY <2>0, <3>1, <4>1, BlockPlace
    <3>3. spread[p] = <<x, (q - 1) * k + p[2]>>
      BY <3>1
    <3>4. h[x] = f[x] * k
      OBVIOUS
    <3> QED BY <3>2, <3>3, <3>4, UnitsMember
  <2>2. ASSUME NEW p \in P, NEW t \in P, spread[p] = spread[t]
        PROVE  p = t
    <3>1. PICK x \in S, q \in Nat : q \in 1..f[x] /\ p[1] = <<x, q>>
      BY UnitsMember
    <3>2. PICK y \in S, v \in Nat : v \in 1..f[y] /\ t[1] = <<y, v>>
      BY UnitsMember
    <3>3. x = y /\ (q - 1) * k + p[2] = (v - 1) * k + t[2]
      BY <3>1, <3>2, <2>2
    <3>4. p[2] \in 1..k /\ t[2] \in 1..k
      OBVIOUS
    <3>5. q = v /\ p[2] = t[2]
      <4> DEFINE a == p[2]  b == t[2]
      <4>1. a \in 1..k /\ b \in 1..k /\ (q - 1) * k + a = (v - 1) * k + b
        BY <3>3, <3>4
      <4> HIDE DEF a, b
      <4>2. q = v /\ a = b
        BY ONLY <2>0, <4>1, BlockUnique, q \in Nat, v \in Nat
      <4> QED BY <4>2 DEF a, b
    <3> QED BY <3>1, <3>2, <3>3, <3>5
  <2>3. ASSUME NEW r \in H
        PROVE  \E p \in P : spread[p] = r
    <3>1. PICK x \in S, i \in Nat : i \in 1..h[x] /\ r = <<x, i>>
      BY UnitsMember
    <3>2. i \in 1..(f[x] * k) /\ f[x] \in Nat
      BY <3>1
    <3>3. PICK q \in 1..f[x], j \in 1..k : i = (q - 1) * k + j
      BY <2>0, <3>2, BlockOf, Zenon
    <3>4. <<x, q>> \in F
      BY UnitsMember
    <3>5. spread[<< <<x, q>>, j>>] = <<x, (q - 1) * k + j>>
      BY <3>4
    <3> QED BY <3>1, <3>3, <3>4, <3>5
  <2>4. spread \in [P -> H]
    BY <2>1
  <2>5. spread \in Bijection(P, H)
    BY <2>2, <2>3, <2>4 DEF Bijection, Injection, IsInjective, Surjection
  <2>6. k = Cardinality(1..k) /\ IsFiniteSet(1..k)
    <3>1. 1 \in Int /\ k \in Int
      OBVIOUS
    <3> QED BY <2>0, <3>1, FS_Interval
  <2>7. IsFiniteSet(P) /\ Cardinality(P) = Cardinality(F) * Cardinality(1..k)
    BY <1>1, <2>6, FS_Product
  <2>8. Cardinality(H) = Cardinality(P)
    BY <2>5, <2>7, FS_Bijection DEF ExistsBijection
  <2> QED BY <2>6, <2>7, <2>8 DEF Total
<1> QED BY <1>2, <1>3

(* An interval from one on has as many elements as its end.                *)
LEMMA IntervalSize ==
    ASSUME NEW n \in Nat
    PROVE  IsFiniteSet(1..n) /\ Cardinality(1..n) = n
<1>1. 1 \in Int /\ n \in Int /\ (IF 1 > n THEN 0 ELSE n - 1 + 1) = n
  OBVIOUS
<1> QED BY <1>1, FS_Interval

(* One place can be taken out of a sum.                                    *)
LEMMA TotalSplit ==
    ASSUME NEW S, IsFiniteSet(S), NEW x \in S, NEW f, \A y \in S : f[y] \in Nat
    PROVE  Total(S, f) = Total(S \ {x}, f) + f[x]
<1> DEFINE A == Units(S \ {x}, f)  B == {x} \X (1..f[x])
<1>1. IsFiniteSet(S \ {x})
  BY FS_RemoveElement
<1>2. IsFiniteSet(A) /\ Cardinality(A) \in Nat
  BY <1>1, TotalNat DEF Total
<1>3. IsFiniteSet(B) /\ Cardinality(B) = f[x]
  <2>1. 1 \in Int /\ f[x] \in Int /\ f[x] \in Nat
    OBVIOUS
  <2>2. IsFiniteSet(1..f[x]) /\ Cardinality(1..f[x]) = f[x]
    BY <2>1, IntervalSize
  <2>3. IsFiniteSet({x}) /\ Cardinality({x}) = 1
    BY FS_Singleton
  <2> QED BY <2>1, <2>2, <2>3, FS_Product
<1>4. Units(S, f) = A \cup B
  BY DEF Units
<1>5. A \cap B = {}
  BY DEF Units
<1>6. Cardinality({}) = 0
  BY FS_EmptySet
<1> HIDE DEF A, B
<1>7. Cardinality(A \cup B) = Cardinality(A) + Cardinality(B) - 0
  BY <1>2, <1>3, <1>5, <1>6, FS_Union
<1>8. Cardinality(A) = Total(S \ {x}, f)
  BY DEF Total, A
<1> QED BY <1>2, <1>3, <1>4, <1>7, <1>8 DEF Total

(* A function changed at one place changes its sum by the difference.      *)
LEMMA TotalUpdate ==
    ASSUME NEW S, IsFiniteSet(S), NEW x \in S, NEW f, NEW g,
           \A y \in S : f[y] \in Nat /\ g[y] \in Nat,
           \A y \in S \ {x} : g[y] = f[y]
    PROVE  Total(S, g) + f[x] = Total(S, f) + g[x]
<1>1. Total(S \ {x}, g) = Total(S \ {x}, f)
  BY TotalSame
<1>2. Total(S, f) = Total(S \ {x}, f) + f[x]
  BY TotalSplit
<1>3. Total(S, g) = Total(S \ {x}, g) + g[x]
  BY TotalSplit
<1>4. IsFiniteSet(S \ {x})
  BY FS_RemoveElement
<1>5. Total(S \ {x}, f) \in Nat
  BY <1>4, TotalNat
<1> QED BY <1>1, <1>2, <1>3, <1>5

(* No value exceeds the sum.                                               *)
LEMMA TotalBounds ==
    ASSUME NEW S, IsFiniteSet(S), NEW x \in S, NEW f, \A y \in S : f[y] \in Nat
    PROVE  f[x] <= Total(S, f)
<1>1. Total(S, f) = Total(S \ {x}, f) + f[x]
  BY TotalSplit
<1>2. IsFiniteSet(S \ {x})
  BY FS_RemoveElement
<1>3. Total(S \ {x}, f) \in Nat
  BY <1>2, TotalNat
<1> QED BY <1>1, <1>3

(* A sum of zeros is zero.                                                 *)
LEMMA TotalZero ==
    ASSUME NEW S, NEW f, \A x \in S : f[x] = 0
    PROVE  Total(S, f) = 0
<1>1. Units(S, f) = {}
  BY UnitsMember
<1> QED BY <1>1, FS_EmptySet DEF Total
=============================================================================
