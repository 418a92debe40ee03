----------------------------- MODULE KaminoProofs -----------------------------
(***************************************************************************)
(* Theorems about KaminoAdapter for every value of its constants: deposits *)
(* are escrowed, ctokens back the SY, and the rate read from the reserve   *)
(* stays near its high although its fractions are cut off.                 *)
(***************************************************************************)
EXTENDS KaminoAdapter, ArithmeticTheorems

(* The reserve owes no less per ctoken than the highest rate ever read.    *)
Sound(r, h) ==
    /\ r \in ReserveRecord
    /\ OwedSf(r) \in Nat
    /\ (h * Scale) * r.supply <= OwedSf(r) * ONE

(* The adapter's ctokens and the first deposit's are among the supply.     *)
Outstanding == collateral + Locked <= reserve.supply

DueType == due \in DueRecord /\ due.fee <= due.interest

IInv ==
    /\ TypeOK
    /\ DueType
    /\ PositionsEscrowed
    /\ CtokensBackSy
    /\ Outstanding
    /\ Sound(reserve, high)

-----------------------------------------------------------------------------
(* Arithmetic.                                                             *)

(* Lending k for no more than its share c of the supply s keeps what is    *)
(* owed per ctoken.                                                        *)
LEMMA LendingKeepsRate ==
    ASSUME NEW H \in Nat, NEW s \in Nat, NEW o \in Nat \ {0}, NEW k \in Nat,
           NEW c \in Nat, NEW one \in Nat,
           H * s <= o * one, c * o <= k * s
    PROVE  H * (s + c) <= (o + k) * one
<1>1. (H * s) * o <= (o * one) * o
  BY Scaled
<1>2. (c * o) * H <= (k * s) * H
  BY Scaled
<1>3. (H * s) * k <= (o * one) * k
  BY Scaled
<1>4. (k * s) * H = (H * s) * k /\ (c * o) * H = (H * c) * o
  OBVIOUS
<1>5. (H * (s + c)) * o = (H * s) * o + (H * c) * o
  OBVIOUS
<1>6. ((o + k) * one) * o = (o * one) * o + (o * one) * k
  OBVIOUS
<1>7. /\ H * s \in Int /\ (H * s) * o \in Int /\ (H * c) * o \in Int
      /\ (o * one) * o \in Int /\ (o * one) * k \in Int /\ (H * s) * k \in Int
  OBVIOUS
<1>8. (H * c) * o <= (o * one) * k
  BY ONLY <1>2, <1>3, <1>4, <1>7
<1>9. (H * (s + c)) * o <= ((o + k) * one) * o
  BY ONLY <1>1, <1>5, <1>6, <1>7, <1>8
<1>10. H * (s + c) \in Int /\ (o + k) * one \in Int
  OBVIOUS
<1> QED BY ONLY <1>9, <1>10, o \in Nat \ {0}, Cancel

(* Redeeming c of the supply s for a payment l of no more than its share   *)
(* keeps it too, and can be paid.                                          *)
LEMMA RedeemingKeepsRate ==
    ASSUME NEW H \in Nat, NEW s \in Nat \ {0}, NEW o \in Nat, NEW l \in Nat,
           NEW c \in Nat, NEW one \in Nat,
           H * s <= o * one, c <= s, l * s <= c * o
    PROVE  l <= o /\ H * (s - c) <= (o - l) * one
<1>1. c * o <= s * o
  BY Scaled
<1>2. l * s <= o * s
  <2>1. c * o \in Int /\ s * o \in Int /\ l * s \in Int /\ s * o = o * s
    OBVIOUS
  <2> QED BY ONLY <1>1, <2>1, l * s <= c * o
<1>3. l <= o
  BY <1>2, Cancel
<1>4. s - c \in Nat
  OBVIOUS
<1>5. (H * s) * (s - c) <= (o * one) * (s - c)
  BY <1>4, Scaled
<1>6. (l * s) * one <= (c * o) * one
  BY Scaled
<1>7. (H * s) * (s - c) = (H * (s - c)) * s
  BY <1>4
<1>8. (o * one) * (s - c) = (o * one) * s - (c * o) * one
  OBVIOUS
<1>9. ((o - l) * one) * s = (o * one) * s - (l * s) * one
  OBVIOUS
<1>10. /\ (H * (s - c)) * s \in Int /\ (o * one) * s \in Int /\ (c * o) * one \in Int
       /\ (l * s) * one \in Int
  OBVIOUS
<1>11. (H * (s - c)) * s <= ((o - l) * one) * s
  BY ONLY <1>5, <1>6, <1>7, <1>8, <1>9, <1>10
<1>12. H * (s - c) \in Int /\ (o - l) * one \in Int
  OBVIOUS
<1> QED BY ONLY <1>3, <1>11, <1>12, s \in Nat \ {0}, Cancel

(* The rounded ratio of t units to s, times s, is within s of the units.   *)
LEMMA RatioBounds ==
    ASSUME NEW t \in Nat, NEW s \in Nat \ {0}, NEW one \in Nat \ {0},
           NEW c \in Nat, c < one, NEW q, q = ((t * one) * one + c) \div (s * one)
    PROVE  q \in Nat /\ q * s <= t * one /\ t * one < (q + 1) * s
<1>1. s * one \in Nat \ {0} /\ (t * one) * one + c \in Nat /\ t * one \in Nat
  OBVIOUS
<1>2. /\ q \in Nat
      /\ q * (s * one) <= (t * one) * one + c
      /\ (t * one) * one + c < (q + 1) * (s * one)
  BY <1>1, Quotient
<1>3. q * (s * one) = (q * s) * one /\ (q + 1) * (s * one) = ((q + 1) * s) * one
  <2>1. q \in Nat /\ s \in Nat /\ one \in Nat
    BY <1>2
  <2> QED BY ONLY <2>1
<1>4. (t * one) * one + one = (t * one + 1) * one
  OBVIOUS
<1>5. q * s \in Int /\ (q + 1) * s \in Int /\ (q * s) * one \in Int
      /\ ((q + 1) * s) * one \in Int /\ (t * one) * one \in Int
  BY <1>2
<1>6. (q * s) * one < (t * one + 1) * one
  BY ONLY <1>2, <1>3, <1>4, <1>5, c < one, c \in Nat, one \in Nat \ {0}
<1>7. (t * one) * one < ((q + 1) * s) * one
  BY ONLY <1>2, <1>3, <1>5, c \in Nat
<1>8. q * s < t * one + 1
  BY ONLY <1>1, <1>5, <1>6, one \in Nat \ {0}, StrictCancel
<1>9. t * one < (q + 1) * s
  BY ONLY <1>1, <1>5, <1>7, one \in Nat \ {0}, StrictCancel
<1> QED BY ONLY <1>1, <1>2, <1>5, <1>8, <1>9

(* What the adapter reads: the owed liquidity cut off to whole units, as a *)
(* ratio to the supply.                                                    *)
LEMMA ReadBounds ==
    ASSUME NEW r \in ReserveRecord, OwedSf(r) \in Nat, RateReadable(r)
    PROVE  \E t \in Nat \ {0} :
             /\ t * Scale <= OwedSf(r) /\ OwedSf(r) < (t + 1) * Scale
             /\ ReadExchangeRate(r) \in Nat
             /\ ReadExchangeRate(r) * r.supply <= t * ONE
             /\ t * ONE < (ReadExchangeRate(r) + 1) * r.supply
<1> DEFINE t == TotalSupply(r)  s == r.supply  q == ReadExchangeRate(r)
<1>1. /\ r.available \in Nat /\ r.borrowed \in Nat /\ r.fees \in Nat /\ s \in Nat
      /\ Scale \in Nat \ {0} /\ ONE \in Nat \ {0}
  BY KaminoAssumptions, ONEAssumption DEF ReserveRecord
<1>2. TotalSupplySf(r) = OwedSf(r)
  <2>1. r.available * Scale \in Nat
    BY <1>1
  <2>2. ~(r.fees > r.available * Scale + r.borrowed)
    BY <1>1, <2>1 DEF OwedSf
  <2> QED BY <2>2 DEF TotalSupplySf, OwedSf
<1>3. /\ t \in Nat
      /\ t * Scale <= OwedSf(r)
      /\ OwedSf(r) < (t + 1) * Scale
  BY <1>1, <1>2, Quotient DEF TotalSupply
<1>4. s \in Nat \ {0} /\ t \in Nat \ {0}
  BY <1>1, <1>3 DEF RateReadable
<1>5. q = ((t * ONE) * ONE + Correction) \div (s * ONE)
  BY <1>4 DEF ReadExchangeRate, FromRatio, NumDiv, Natural
<1> HIDE DEF t, s, q
<1>6. q \in Nat /\ q * s <= t * ONE /\ t * ONE < (q + 1) * s
  BY <1>1, <1>4, <1>5, CorrectionSmall, RatioBounds
<1> USE DEF t, s, q
<1> QED BY <1>3, <1>4, <1>6

(* A rate that is read is sound with the reserve it is read from.          *)
LEMMA ReadIsSound ==
    ASSUME NEW r \in ReserveRecord, OwedSf(r) \in Nat, RateReadable(r)
    PROVE  ReadExchangeRate(r) \in Nat /\ Sound(r, ReadExchangeRate(r))
<1> DEFINE s == r.supply  q == ReadExchangeRate(r)  o == OwedSf(r)
<1>1. PICK t \in Nat \ {0} :
        /\ t * Scale <= o /\ q \in Nat /\ q * s <= t * ONE
  BY ReadBounds
<1>2. s \in Nat /\ Scale \in Nat \ {0} /\ ONE \in Nat \ {0} /\ o \in Nat
  BY KaminoAssumptions, ONEAssumption DEF ReserveRecord
<1> HIDE DEF s, q, o
<1>3. (q * s) * Scale <= (t * ONE) * Scale
  BY <1>1, <1>2, Scaled
<1>4. (t * Scale) * ONE <= o * ONE
  BY <1>1, <1>2, Scaled
<1>5. (q * s) * Scale = (q * Scale) * s /\ (t * ONE) * Scale = (t * Scale) * ONE
  BY <1>1, <1>2
<1>6. (q * Scale) * s \in Int /\ (t * Scale) * ONE \in Int /\ o * ONE \in Int
  BY <1>1, <1>2
<1>7. (q * Scale) * s <= o * ONE
  BY ONLY <1>3, <1>4, <1>5, <1>6
<1> USE DEF s, q, o
<1> QED BY <1>1, <1>7 DEF Sound

(* A sound rate is near the one that is read.                              *)
LEMMA SoundIsNear ==
    ASSUME NEW r, NEW h \in Nat, Sound(r, h), RateReadable(r)
    PROVE  (h - ReadExchangeRate(r)) * r.supply <= ONE + r.supply
<1> DEFINE s == r.supply  q == ReadExchangeRate(r)  o == OwedSf(r)
<1>1. r \in ReserveRecord /\ o \in Nat /\ (h * Scale) * s <= o * ONE
  BY DEF Sound
<1>2. PICK t \in Nat \ {0} :
        o < (t + 1) * Scale /\ q \in Nat /\ t * ONE < (q + 1) * s
  BY <1>1, ReadBounds
<1>3. s \in Nat /\ Scale \in Nat \ {0} /\ ONE \in Nat \ {0} /\ o \in Nat
  BY <1>1, KaminoAssumptions, ONEAssumption DEF ReserveRecord
<1> HIDE DEF s, q, o
<1>4. o * ONE <= ((t + 1) * Scale - 1) * ONE
  <2>1. (t + 1) * Scale - 1 \in Int /\ o <= (t + 1) * Scale - 1
    BY <1>2, <1>3
  <2> QED BY <1>3, <2>1, Scaled
<1>5. ((t + 1) * Scale - 1) * ONE = ((t + 1) * ONE) * Scale - ONE
  BY <1>3
<1>6. (h * Scale) * s = (h * s) * Scale
  BY <1>3
<1>7. h * s \in Int /\ (t + 1) * ONE \in Int /\ (h * s) * Scale \in Int
      /\ ((t + 1) * ONE) * Scale \in Int /\ o * ONE \in Int
  BY <1>3
<1>8. (h * s) * Scale < ((t + 1) * ONE) * Scale
  BY ONLY <1>1, <1>3, <1>4, <1>5, <1>6, <1>7
<1>9. h * s < (t + 1) * ONE
  BY ONLY <1>3, <1>7, <1>8, StrictCancel
<1>10. /\ (t + 1) * ONE = t * ONE + ONE
       /\ (q + 1) * s = q * s + s
       /\ (h - q) * s = h * s - q * s
       /\ t * ONE \in Int /\ q * s \in Int
  BY <1>2, <1>3
<1>11. (h - q) * s <= ONE + s
  BY ONLY <1>2, <1>3, <1>7, <1>9, <1>10
<1> USE DEF s, q, o
<1> QED BY <1>11

-----------------------------------------------------------------------------
(* What each change of the reserve preserves.                              *)

(* The fields of a reserve.                                                *)
LEMMA ReserveFields ==
    ASSUME NEW r \in ReserveRecord
    PROVE  /\ r.available \in Nat /\ r.borrowed \in Nat /\ r.fees \in Nat
           /\ r.supply \in Nat /\ r.available * Scale \in Nat
           /\ Scale \in Nat \ {0} /\ ONE \in Nat \ {0}
<1>1. /\ r.available \in Nat /\ r.borrowed \in Nat /\ r.fees \in Nat
      /\ r.supply \in Nat /\ Scale \in Nat \ {0} /\ ONE \in Nat \ {0}
  BY KaminoAssumptions, ONEAssumption DEF ReserveRecord
<1> QED BY <1>1

(* Booking the interest due raises what is owed: the fee is part of it.    *)
LEMMA RefreshSound ==
    ASSUME NEW h \in Nat, Sound(reserve, h), DueType
    PROVE  /\ Sound(Refreshed(reserve), h)
           /\ Refreshed(reserve).supply = reserve.supply
<1> DEFINE r == Refreshed(reserve)
<1>1. /\ reserve \in ReserveRecord /\ OwedSf(reserve) \in Nat
      /\ (h * Scale) * reserve.supply <= OwedSf(reserve) * ONE
  BY DEF Sound
<1>2. due.interest \in Nat /\ due.fee \in Nat /\ due.fee <= due.interest
  BY DEF DueType, DueRecord
<1>3. /\ reserve.borrowed + due.interest \in Nat /\ reserve.fees + due.fee \in Nat
  BY <1>1, <1>2, ReserveFields
<1>4. /\ r \in ReserveRecord
      /\ r.available = reserve.available /\ r.supply = reserve.supply
      /\ r.borrowed = reserve.borrowed + due.interest
      /\ r.fees = reserve.fees + due.fee
  BY <1>1, <1>3 DEF Refreshed, ReserveRecord
<1> HIDE DEF r
<1>5. OwedSf(r) \in Nat /\ OwedSf(reserve) <= OwedSf(r)
  BY <1>1, <1>2, <1>4, ReserveFields DEF OwedSf
<1>6. OwedSf(reserve) * ONE <= OwedSf(r) * ONE
  BY <1>1, <1>5, ReserveFields, Scaled
<1>7. (h * Scale) * r.supply <= OwedSf(r) * ONE
  <2>1. /\ (h * Scale) * reserve.supply \in Int
        /\ OwedSf(reserve) * ONE \in Int /\ OwedSf(r) * ONE \in Int
    BY <1>1, <1>5, ReserveFields
  <2> QED BY ONLY <1>1, <1>4, <1>6, <2>1
<1>8. Sound(r, h)
  BY <1>4, <1>5, <1>7 DEF Sound
<1> USE DEF r
<1> QED BY <1>4, <1>8

(* A deposit of liquidity issues no more ctokens than its share.           *)
LEMMA DepositSound ==
    ASSUME NEW r, NEW h \in Nat, Sound(r, h), NEW n \in Nat,
           r.supply > 0, CanLend(r, n)
    PROVE  /\ CtokensFor(r, n) \in Nat
           /\ Sound(Deposited(r, n), h)
           /\ Deposited(r, n).supply = r.supply + CtokensFor(r, n)
<1> DEFINE s == r.supply  o == OwedSf(r)  c == CtokensFor(r, n)  k == n * Scale
           d == Deposited(r, n)  H == h * Scale
<1>1. r \in ReserveRecord /\ o \in Nat /\ H * s <= o * ONE
  BY DEF Sound
<1>2. /\ s \in Nat \ {0} /\ o \in Nat \ {0} /\ k \in Nat /\ H \in Nat
      /\ ONE \in Nat /\ k * s \in Nat
  BY <1>1, ReserveFields DEF CanLend
<1>3. c = (k * s) \div o
  BY <1>2 DEF CtokensFor
<1>4. c \in Nat /\ c * o <= k * s
  BY <1>2, <1>3, Quotient
<1>5. H * (s + c) <= (o + k) * ONE
  BY ONLY <1>1, <1>2, <1>4, LendingKeepsRate
<1>6. /\ d \in ReserveRecord /\ d.available = r.available + n /\ d.supply = s + c
      /\ d.borrowed = r.borrowed /\ d.fees = r.fees
  <2>1. r.available + n \in Nat /\ s + c \in Nat
    BY <1>1, <1>2, <1>4, ReserveFields
  <2>2. d = [r EXCEPT !.available = r.available + n, !.supply = s + c]
    BY DEF Deposited
  <2> QED BY ONLY <1>1, <2>1, <2>2 DEF ReserveRecord
<1>7. OwedSf(d) = o + k
  <2>1. (r.available + n) * Scale = r.available * Scale + n * Scale
    BY <1>1, ReserveFields
  <2> QED BY <1>1, <1>2, <1>6, <2>1, ReserveFields DEF OwedSf
<1>8. Sound(d, h)
  <2>1. o + k \in Nat
    BY <1>2
  <2> QED BY <1>5, <1>6, <1>7, <2>1 DEF Sound
<1> QED BY <1>4, <1>6, <1>8

(* A redemption of ctokens pays no more than their share.                  *)
LEMMA RedeemSound ==
    ASSUME NEW r, NEW h \in Nat, Sound(r, h), NEW n \in Nat,
           n <= r.supply, CanPay(r, n)
    PROVE  /\ LiquidityFor(r, n) \in Nat
           /\ Sound(Redeemed(r, n), h)
           /\ Redeemed(r, n).supply = r.supply - n
<1> DEFINE s == r.supply  o == OwedSf(r)  q == LiquidityFor(r, n)  l == q * Scale
           d == Redeemed(r, n)  H == h * Scale
<1>1. r \in ReserveRecord /\ o \in Nat /\ H * s <= o * ONE
  BY DEF Sound
<1>2. /\ s \in Nat \ {0} /\ H \in Nat /\ ONE \in Nat /\ Scale \in Nat \ {0}
      /\ n * o \in Nat /\ s * Scale \in Nat \ {0}
  BY <1>1, ReserveFields DEF CanPay
<1>3. q \in Nat /\ q * (s * Scale) <= n * o
  BY <1>2, Quotient DEF LiquidityFor
<1>4. l \in Nat /\ l * s <= n * o
  <2>1. q \in Nat /\ s \in Nat /\ Scale \in Nat
    BY <1>2, <1>3
  <2> HIDE DEF q, s
  <2>2. (q * Scale) * s = q * (s * Scale) /\ q * Scale \in Nat
    BY ONLY <2>1
  <2> QED BY <1>3, <2>2
<1> HIDE DEF q
<1>5. l <= o /\ H * (s - n) <= (o - l) * ONE
  BY ONLY <1>1, <1>2, <1>4, n \in Nat, n <= s, RedeemingKeepsRate
<1>6. /\ d \in ReserveRecord /\ d.available = r.available - q /\ d.supply = s - n
      /\ d.borrowed = r.borrowed /\ d.fees = r.fees
  <2>1. r.available - q \in Nat /\ s - n \in Nat
    BY <1>1, <1>2, <1>3, ReserveFields DEF CanPay, q
  <2>2. d = [r EXCEPT !.available = r.available - q, !.supply = s - n]
    BY DEF Redeemed, q
  <2> QED BY ONLY <1>1, <2>1, <2>2 DEF ReserveRecord
<1>7. OwedSf(d) = o - l
  <2>1. (r.available - q) * Scale = r.available * Scale - q * Scale
    BY <1>1, <1>3, ReserveFields
  <2> QED BY <1>1, <1>4, <1>6, <2>1, ReserveFields DEF OwedSf
<1>8. Sound(d, h)
  <2>1. o - l \in Nat
    BY <1>1, <1>4, <1>5
  <2> QED BY <1>5, <1>6, <1>7, <2>1 DEF Sound
<1> USE DEF q
<1> QED BY <1>3, <1>6, <1>8

(* A change that leaves the supply and what is owed is sound.              *)
LEMMA OwedSame ==
    ASSUME NEW r, NEW h \in Nat, Sound(r, h), NEW d \in ReserveRecord,
           d.supply = r.supply, OwedSf(d) = OwedSf(r)
    PROVE  Sound(d, h)
  BY DEF Sound

(* Every reader's high stays sound with the reserve it was read from.      *)
LEMMA SeenSound ==
    ASSUME high \in Nat, Sound(reserve', high), Seen
    PROVE  high' \in Nat /\ Sound(reserve', high')
<1>1. CASE RateReadable(reserve')
  <2>1. reserve' \in ReserveRecord /\ OwedSf(reserve') \in Nat
    BY DEF Sound
  <2>2. /\ ReadExchangeRate(reserve') \in Nat
        /\ Sound(reserve', ReadExchangeRate(reserve'))
    BY <1>1, <2>1, ReadIsSound
  <2>3. high' = high \/ high' = ReadExchangeRate(reserve')
    BY <1>1 DEF Seen, Larger
  <2> QED BY <2>2, <2>3
<1>2. CASE ~RateReadable(reserve')
  BY <1>2 DEF Seen
<1> QED BY <1>1, <1>2

-----------------------------------------------------------------------------
(* The positions and the wallets.                                          *)

(* One user's balance changes, and the total with it.                      *)
LEMMA BalanceMoves ==
    ASSUME NEW f \in [Users -> Nat], NEW g \in [Users -> Nat], NEW u \in Users,
           \A y \in Users \ {u} : g[y] = f[y]
    PROVE  /\ Total(Users, f) \in Nat /\ Total(Users, g) \in Nat
           /\ Total(Users, g) + f[u] = Total(Users, f) + g[u]
<1>1. \A y \in Users : f[y] \in Nat /\ g[y] \in Nat
  OBVIOUS
<1>2. Total(Users, f) \in Nat /\ Total(Users, g) \in Nat
  BY <1>1, UsersAssumption, TotalNat
<1>3. Total(Users, g) + f[u] = Total(Users, f) + g[u]
  BY ONLY <1>1, u \in Users, \A y \in Users \ {u} : g[y] = f[y], UsersAssumption,
     TotalUpdate
<1> QED BY <1>2, <1>3

(* What the invariant says of the positions alone.                         *)
PositionsInv == PositionsTypeOK /\ PositionsEscrowed

(* Opening a position finds it empty.                                      *)
LEMMA OpenStep ==
    ASSUME PositionsInv, NEW u \in Users, InitPersonalAccount(u)
    PROVE  PositionsInv' /\ Issued' = Issued
<1>1. /\ position' = [position EXCEPT ![u] = 0] /\ position \in [Users -> Nat]
      /\ sy' = sy /\ poolEscrow' = poolEscrow /\ accounts' = accounts \cup {u}
  BY DEF InitPersonalAccount, PositionsInv, PositionsTypeOK
<1>2. /\ position' \in [Users -> Nat] /\ position[u] \in Nat
      /\ Total(Users, position) \in Nat /\ Total(Users, position') \in Nat
      /\ Total(Users, position') + position[u] = Total(Users, position) + 0
  <2>1. /\ position \in [Users -> Nat] /\ position' \in [Users -> Nat]
        /\ position'[u] = 0 /\ position[u] \in Nat
        /\ \A y \in Users \ {u} : position'[y] = position[y]
    BY ONLY <1>1, u \in Users
  <2>2. /\ Total(Users, position) \in Nat /\ Total(Users, position') \in Nat
        /\ Total(Users, position') + position[u] = Total(Users, position) + position'[u]
    BY ONLY <2>1, u \in Users, BalanceMoves
  <2> QED BY ONLY <2>1, <2>2
<1>3. Total(Users, position) <= poolEscrow /\ poolEscrow \in Nat
  BY DEF PositionsInv, PositionsEscrowed, PositionsTypeOK
<1>4. PositionsTypeOK'
  BY <1>1, <1>2 DEF PositionsInv, PositionsTypeOK
<1>5. PositionsEscrowed'
  BY <1>1, <1>2, <1>3 DEF PositionsEscrowed
<1>6. Issued' = Issued
  BY <1>1 DEF Issued
<1> QED BY <1>4, <1>5, <1>6 DEF PositionsInv

(* A deposit moves SY from a wallet to the escrow, and is recorded.        *)
LEMMA DepositStep ==
    ASSUME PositionsInv, NEW u \in Users, NEW n \in Nat, DepositSy(u, n)
    PROVE  PositionsInv' /\ Issued' = Issued
<1>1. /\ sy \in [Users -> Nat] /\ position \in [Users -> Nat] /\ poolEscrow \in Nat
      /\ sy' = [sy EXCEPT ![u] = sy[u] - n] /\ poolEscrow' = poolEscrow + n
      /\ position' = [position EXCEPT ![u] = position[u] + n]
      /\ n <= sy[u] /\ accounts' = accounts
  BY DEF DepositSy, PositionsInv, PositionsTypeOK
<1>2. sy[u] - n \in Nat /\ position[u] + n \in Nat
  BY <1>1
<1>3. /\ position' \in [Users -> Nat] /\ position[u] \in Nat
      /\ Total(Users, position) \in Nat /\ Total(Users, position') \in Nat
      /\ Total(Users, position') + position[u] = Total(Users, position) + (position[u] + n)
  <2>1. /\ position \in [Users -> Nat] /\ position' \in [Users -> Nat]
        /\ position'[u] = position[u] + n /\ position[u] \in Nat
        /\ \A y \in Users \ {u} : position'[y] = position[y]
    BY ONLY <1>1, <1>2, u \in Users
  <2>2. /\ Total(Users, position) \in Nat /\ Total(Users, position') \in Nat
        /\ Total(Users, position') + position[u] = Total(Users, position) + position'[u]
    BY ONLY <2>1, u \in Users, BalanceMoves
  <2> QED BY ONLY <2>1, <2>2
<1>4. /\ sy' \in [Users -> Nat] /\ sy[u] \in Nat
      /\ Total(Users, sy) \in Nat /\ Total(Users, sy') \in Nat
      /\ Total(Users, sy') + sy[u] = Total(Users, sy) + (sy[u] - n)
  <2>1. /\ sy \in [Users -> Nat] /\ sy' \in [Users -> Nat]
        /\ sy'[u] = sy[u] - n /\ sy[u] \in Nat
        /\ \A y \in Users \ {u} : sy'[y] = sy[y]
    BY ONLY <1>1, <1>2, u \in Users
  <2>2. /\ Total(Users, sy) \in Nat /\ Total(Users, sy') \in Nat
        /\ Total(Users, sy') + sy[u] = Total(Users, sy) + sy'[u]
    BY ONLY <2>1, u \in Users, BalanceMoves
  <2> QED BY ONLY <2>1, <2>2
<1>5. Total(Users, position) <= poolEscrow
  BY DEF PositionsInv, PositionsEscrowed
<1>6. PositionsTypeOK'
  BY <1>1, <1>3, <1>4 DEF PositionsInv, PositionsTypeOK
<1>7. PositionsEscrowed'
  BY <1>1, <1>3, <1>5 DEF PositionsEscrowed
<1>8. Issued' = Issued
  BY <1>1, <1>4 DEF Issued
<1> QED BY <1>6, <1>7, <1>8 DEF PositionsInv

(* A withdrawal takes from the escrow what it takes from the position.     *)
LEMMA WithdrawStep ==
    ASSUME PositionsInv, NEW u \in Users, NEW to \in Users, NEW n \in Nat,
           WithdrawSy(u, to, n)
    PROVE  PositionsInv' /\ Issued' = Issued
<1>1. /\ sy \in [Users -> Nat] /\ position \in [Users -> Nat] /\ poolEscrow \in Nat
      /\ sy' = [sy EXCEPT ![to] = sy[to] + n] /\ poolEscrow' = poolEscrow - n
      /\ position' = [position EXCEPT ![u] = position[u] - n]
      /\ n <= position[u] /\ n <= poolEscrow /\ accounts' = accounts
  BY DEF WithdrawSy, InPosition, PositionsInv, PositionsTypeOK
<1>2. sy[to] + n \in Nat /\ position[u] - n \in Nat
  BY <1>1
<1>3. /\ position' \in [Users -> Nat] /\ position[u] \in Nat
      /\ Total(Users, position) \in Nat /\ Total(Users, position') \in Nat
      /\ Total(Users, position') + position[u] = Total(Users, position) + (position[u] - n)
  <2>1. /\ position \in [Users -> Nat] /\ position' \in [Users -> Nat]
        /\ position'[u] = position[u] - n /\ position[u] \in Nat
        /\ \A y \in Users \ {u} : position'[y] = position[y]
    BY ONLY <1>1, <1>2, u \in Users
  <2>2. /\ Total(Users, position) \in Nat /\ Total(Users, position') \in Nat
        /\ Total(Users, position') + position[u] = Total(Users, position) + position'[u]
    BY ONLY <2>1, u \in Users, BalanceMoves
  <2> QED BY ONLY <2>1, <2>2
<1>4. /\ sy' \in [Users -> Nat] /\ sy[to] \in Nat
      /\ Total(Users, sy) \in Nat /\ Total(Users, sy') \in Nat
      /\ Total(Users, sy') + sy[to] = Total(Users, sy) + (sy[to] + n)
  <2>1. /\ sy \in [Users -> Nat] /\ sy' \in [Users -> Nat]
        /\ sy'[to] = sy[to] + n /\ sy[to] \in Nat
        /\ \A y \in Users \ {to} : sy'[y] = sy[y]
    BY ONLY <1>1, <1>2, to \in Users
  <2>2. /\ Total(Users, sy) \in Nat /\ Total(Users, sy') \in Nat
        /\ Total(Users, sy') + sy[to] = Total(Users, sy) + sy'[to]
    BY ONLY <2>1, to \in Users, BalanceMoves
  <2> QED BY ONLY <2>1, <2>2
<1>5. Total(Users, position) <= poolEscrow
  BY DEF PositionsInv, PositionsEscrowed
<1>6. PositionsTypeOK'
  BY <1>1, <1>3, <1>4 DEF PositionsInv, PositionsTypeOK
<1>7. PositionsEscrowed'
  BY <1>1, <1>3, <1>5 DEF PositionsEscrowed
<1>8. Issued' = Issued
  BY <1>1, <1>4 DEF Issued
<1> QED BY <1>6, <1>7, <1>8 DEF PositionsInv

(* SY sent to the escrow belongs to no position.                           *)
LEMMA SendStep ==
    ASSUME PositionsInv, NEW u \in Users, NEW n \in Nat, SendToEscrow(u, n)
    PROVE  PositionsInv' /\ Issued' = Issued
<1>1. /\ sy \in [Users -> Nat] /\ position' = position /\ poolEscrow \in Nat
      /\ sy' = [sy EXCEPT ![u] = sy[u] - n] /\ poolEscrow' = poolEscrow + n
      /\ n <= sy[u] /\ accounts' = accounts
  BY DEF SendToEscrow, PositionsInv, PositionsTypeOK
<1>2. sy[u] - n \in Nat
  BY <1>1
<1>3. /\ sy' \in [Users -> Nat] /\ sy[u] \in Nat
      /\ Total(Users, sy) \in Nat /\ Total(Users, sy') \in Nat
      /\ Total(Users, sy') + sy[u] = Total(Users, sy) + (sy[u] - n)
  <2>1. /\ sy \in [Users -> Nat] /\ sy' \in [Users -> Nat]
        /\ sy'[u] = sy[u] - n /\ sy[u] \in Nat
        /\ \A y \in Users \ {u} : sy'[y] = sy[y]
    BY ONLY <1>1, <1>2, u \in Users
  <2>2. /\ Total(Users, sy) \in Nat /\ Total(Users, sy') \in Nat
        /\ Total(Users, sy') + sy[u] = Total(Users, sy) + sy'[u]
    BY ONLY <2>1, u \in Users, BalanceMoves
  <2> QED BY ONLY <2>1, <2>2
<1>4. position \in [Users -> Nat]
  BY DEF PositionsInv, PositionsTypeOK
<1>5. Total(Users, position) <= poolEscrow /\ Total(Users, position) \in Nat
  BY <1>4, UsersAssumption, TotalNat DEF PositionsInv, PositionsEscrowed
<1>6. PositionsTypeOK'
  BY <1>1, <1>3 DEF PositionsInv, PositionsTypeOK
<1>7. PositionsEscrowed'
  BY <1>1, <1>5 DEF PositionsEscrowed
<1>8. Issued' = Issued
  BY <1>1, <1>3 DEF Issued
<1> QED BY <1>6, <1>7, <1>8 DEF PositionsInv

(* Minting or burning SY in a wallet changes the amount issued alone.      *)
LEMMA WalletStep ==
    ASSUME PositionsInv, NEW u \in Users, NEW v \in Nat,
           sy' = [sy EXCEPT ![u] = v], UNCHANGED <<poolEscrow, accounts, position>>
    PROVE  PositionsInv' /\ Issued' + sy[u] = Issued + v /\ sy[u] \in Nat
           /\ Issued \in Nat /\ Issued' \in Nat
<1>1. sy \in [Users -> Nat] /\ poolEscrow \in Nat
  BY DEF PositionsInv, PositionsTypeOK
<1>2. /\ sy' \in [Users -> Nat] /\ sy[u] \in Nat
      /\ Total(Users, sy) \in Nat /\ Total(Users, sy') \in Nat
      /\ Total(Users, sy') + sy[u] = Total(Users, sy) + v
  <2>1. /\ sy \in [Users -> Nat] /\ sy' \in [Users -> Nat]
        /\ sy'[u] = v /\ sy[u] \in Nat
        /\ \A y \in Users \ {u} : sy'[y] = sy[y]
    BY ONLY <1>1, u \in Users, sy' = [sy EXCEPT ![u] = v], v \in Nat
  <2>2. /\ Total(Users, sy) \in Nat /\ Total(Users, sy') \in Nat
        /\ Total(Users, sy') + sy[u] = Total(Users, sy) + sy'[u]
    BY ONLY <2>1, u \in Users, BalanceMoves
  <2> QED BY ONLY <2>1, <2>2
<1>3. PositionsTypeOK' /\ PositionsEscrowed'
  BY <1>2 DEF PositionsInv, PositionsTypeOK, PositionsEscrowed
<1> QED BY <1>1, <1>2, <1>3 DEF PositionsInv, Issued

-----------------------------------------------------------------------------
(* The steps of the adapter and of others.                                 *)

(* The constants' types.                                                   *)
LEMMA ConstantTypes ==
    /\ Locked \in Nat \ {0}
    /\ \A n \in Amounts : n \in Nat
    /\ NothingDue \in DueRecord /\ NothingDue.fee <= NothingDue.interest
<1>1. InitialReserve.supply \in Nat
  BY KaminoAssumptions DEF ReserveRecord
<1>2. Locked \in Nat \ {0}
  BY <1>1, KaminoAssumptions
<1>3. NothingDue \in DueRecord /\ NothingDue.fee <= NothingDue.interest
  BY DEF NothingDue, DueRecord
<1> QED BY <1>2, <1>3, KaminoAssumptions

(* The invariant of the positions, and the reserve refreshed.              *)
LEMMA Parts ==
    ASSUME IInv
    PROVE  /\ PositionsInv
           /\ Issued <= collateral /\ collateral \in Nat /\ high \in Nat
           /\ base \in [Users -> Nat] /\ metadata.exists \in BOOLEAN
           /\ reserve.supply \in Nat \ {0}
           /\ collateral + Locked <= reserve.supply
           /\ Sound(Refreshed(reserve), high)
           /\ Refreshed(reserve) \in ReserveRecord
           /\ Refreshed(reserve).supply = reserve.supply
<1>1. /\ PositionsInv /\ Issued <= collateral /\ collateral \in Nat
      /\ high \in Nat /\ reserve \in ReserveRecord /\ DueType
      /\ base \in [Users -> Nat] /\ metadata.exists \in BOOLEAN
      /\ Sound(reserve, high) /\ collateral + Locked <= reserve.supply
  BY DEF IInv, TypeOK, PositionsInv, CtokensBackSy, Outstanding
<1>2. reserve.supply \in Nat \ {0}
  BY <1>1, ReserveFields, ConstantTypes
<1>3. /\ Sound(Refreshed(reserve), high)
      /\ Refreshed(reserve).supply = reserve.supply
  BY <1>1, RefreshSound
<1>4. Refreshed(reserve) \in ReserveRecord
  BY <1>3 DEF Sound
<1> QED BY <1>1, <1>2, <1>3, <1>4

(* A change of the reserve by others, which leaves enough ctokens.         *)
LEMMA OnReserveStep ==
    ASSUME IInv, NEW r, OnReserve(r), Sound(r, high),
           collateral + Locked <= r.supply
    PROVE  IInv'
<1>1. /\ reserve' = r /\ due' = NothingDue /\ Seen
      /\ collateral' = collateral /\ metadata' = metadata /\ base' = base
      /\ sy' = sy /\ poolEscrow' = poolEscrow /\ accounts' = accounts
      /\ position' = position
  BY DEF OnReserve, positionVars
<1>2. Sound(reserve', high)
  BY <1>1
<1>3. high' \in Nat /\ Sound(reserve', high')
  BY <1>1, <1>2, SeenSound, Parts
<1>4. reserve' \in ReserveRecord
  BY <1>3 DEF Sound
<1>5. /\ PositionsTypeOK' /\ PositionsEscrowed' /\ Issued' = Issued
  BY <1>1 DEF IInv, TypeOK, PositionsTypeOK, PositionsEscrowed, Issued
<1>6. TypeOK'
  BY <1>1, <1>3, <1>4, <1>5, Parts, ConstantTypes DEF TypeOK
<1>7. DueType' /\ Outstanding' /\ CtokensBackSy'
  BY <1>1, <1>5, Parts, ConstantTypes DEF DueType, Outstanding, CtokensBackSy
<1> QED BY <1>3, <1>5, <1>6, <1>7 DEF IInv

(* A step that leaves the reserve alone.                                   *)
LEMMA OffReserveStep ==
    ASSUME IInv, UNCHANGED <<base, collateral, reserve, due, high>>,
           metadata'.exists \in BOOLEAN, PositionsInv', Issued' = Issued
    PROVE  IInv'
<1>1. /\ TypeOK' /\ PositionsEscrowed'
  BY DEF IInv, TypeOK, PositionsInv
<1>2. /\ DueType' /\ Outstanding' /\ CtokensBackSy' /\ Sound(reserve', high')
  BY DEF IInv, DueType, Outstanding, CtokensBackSy
<1> QED BY <1>1, <1>2 DEF IInv

(* mint_sy: SY is issued for the ctokens that arrive in the vault.          *)
LEMMA MintSyStep ==
    ASSUME IInv, NEW u \in Users, NEW to \in Users, NEW n \in Nat,
           MintSy(u, to, n)
    PROVE  IInv'
<1> DEFINE q == Refreshed(reserve)  r == Deposited(q, n)  c == CtokensFor(q, n)
<1>1. /\ n \in Nat /\ n <= base[u] /\ CanLend(q, n)
      /\ base' = [base EXCEPT ![u] = base[u] - n] /\ reserve' = r
      /\ due' = NothingDue /\ collateral' = collateral + c
      /\ sy' = [sy EXCEPT ![to] = sy[to] + ((collateral + c) - collateral)]
      /\ Seen /\ metadata' = metadata
      /\ UNCHANGED <<poolEscrow, accounts, position>>
  BY ConstantTypes DEF MintSy, Credited
<1>2. /\ Sound(q, high) /\ q.supply > 0 /\ q.supply = reserve.supply
  BY Parts
<1>3. /\ c \in Nat /\ Sound(r, high) /\ r.supply = reserve.supply + c
  BY <1>1, <1>2, Parts, DepositSound
<1> HIDE DEF q, r, c
<1>4. /\ high' \in Nat /\ Sound(reserve', high') /\ reserve' \in ReserveRecord
  <2>1. Sound(reserve', high)
    BY <1>1, <1>3
  <2>2. high' \in Nat /\ Sound(reserve', high')
    BY <1>1, <2>1, Parts, SeenSound
  <2> QED BY <2>2 DEF Sound
<1>5. sy[to] \in Nat /\ collateral \in Nat
  BY Parts DEF PositionsInv, PositionsTypeOK
<1> DEFINE v == sy[to] + ((collateral + c) - collateral)
<1>6. v \in Nat /\ v = sy[to] + c
  BY <1>3, <1>5
<1>7. sy' = [sy EXCEPT ![to] = v]
  BY <1>1
<1> HIDE DEF v
<1>8. /\ PositionsInv' /\ Issued' + sy[to] = Issued + v
      /\ Issued \in Nat /\ Issued' \in Nat
  BY ONLY <1>1, <1>6, <1>7, to \in Users, IInv, Parts, WalletStep
<1>9. Issued' = Issued + c
  BY <1>3, <1>5, <1>6, <1>8
<1>10. base' \in [Users -> Nat]
  <2>1. base \in [Users -> Nat] /\ base[u] - n \in Nat
    BY <1>1, Parts
  <2> QED BY ONLY <1>1, <2>1
<1>11. collateral' \in Nat /\ Issued' <= collateral'
  BY <1>1, <1>3, <1>5, <1>8, <1>9, Parts
<1>12. TypeOK'
  BY <1>1, <1>4, <1>8, <1>10, <1>11, Parts, ConstantTypes DEF TypeOK, PositionsInv
<1>13. Outstanding'
  BY <1>1, <1>3, <1>5, Parts, ConstantTypes DEF Outstanding
<1>14. DueType' /\ CtokensBackSy'
  BY <1>1, <1>11, ConstantTypes DEF DueType, CtokensBackSy
<1> QED BY <1>4, <1>8, <1>12, <1>13, <1>14 DEF IInv, PositionsInv

(* Burning n of an amount lowers the amount issued by n.                   *)
LEMMA Burned ==
    ASSUME NEW i \in Nat, NEW j \in Nat, NEW s \in Nat, NEW v \in Nat, NEW n \in Nat,
           v + n = s, j + s = i + v
    PROVE  j + n = i
  OBVIOUS

(* What covered the amount before the burning covers it less n after.      *)
LEMMA StillCovered ==
    ASSUME NEW i \in Nat, NEW j \in Nat, NEW c \in Nat, NEW n \in Nat,
           j + n = i, i <= c, n <= c
    PROVE  c - n \in Nat /\ j <= c - n
  OBVIOUS

(* redeem_sy: SY is burned for ctokens of the vault, which klend redeems.   *)
LEMMA RedeemSyStep ==
    ASSUME IInv, NEW u \in Users, NEW to \in Users, NEW n \in Nat,
           RedeemSy(u, to, n)
    PROVE  IInv'
<1> DEFINE q == Refreshed(reserve)  r == Redeemed(q, n)  l == LiquidityFor(q, n)
<1>1. /\ n \in Nat /\ n <= sy[u] /\ n <= collateral /\ CanPay(q, n)
      /\ base' = [base EXCEPT ![to] = base[to] + l] /\ reserve' = r
      /\ due' = NothingDue /\ collateral' = collateral - n
      /\ sy' = [sy EXCEPT ![u] = sy[u] - n]
      /\ Seen /\ metadata' = metadata
      /\ UNCHANGED <<poolEscrow, accounts, position>>
  BY ConstantTypes DEF RedeemSy
<1>2. /\ Sound(q, high) /\ q.supply = reserve.supply /\ n <= q.supply
  BY <1>1, Parts, ConstantTypes
<1>3. /\ l \in Nat /\ Sound(r, high) /\ r.supply = reserve.supply - n
  BY <1>1, <1>2, Parts, RedeemSound
<1> HIDE DEF q, r, l
<1>4. /\ high' \in Nat /\ Sound(reserve', high') /\ reserve' \in ReserveRecord
  <2>1. Sound(reserve', high)
    BY <1>1, <1>3
  <2>2. high' \in Nat /\ Sound(reserve', high')
    BY <1>1, <2>1, Parts, SeenSound
  <2> QED BY <2>2 DEF Sound
<1>5. sy[u] \in Nat /\ collateral \in Nat
  BY Parts DEF PositionsInv, PositionsTypeOK
<1> DEFINE v == sy[u] - n
<1>6. v \in Nat
  BY <1>1, <1>5
<1>7. sy' = [sy EXCEPT ![u] = v] /\ v + n = sy[u]
  BY <1>1, <1>5
<1> HIDE DEF v
<1>8. /\ PositionsInv' /\ Issued' + sy[u] = Issued + v
      /\ Issued \in Nat /\ Issued' \in Nat
  BY ONLY <1>1, <1>6, <1>7, u \in Users, IInv, Parts, WalletStep
<1>9. Issued' + n = Issued
  <2>1. /\ n \in Nat /\ v \in Nat /\ v + n = sy[u] /\ sy[u] \in Nat
        /\ Issued' + sy[u] = Issued + v /\ Issued \in Nat /\ Issued' \in Nat
    BY <1>1, <1>5, <1>6, <1>7, <1>8
  <2>2. PICK i \in Nat : i = Issued
    BY <2>1
  <2>3. PICK j \in Nat : j = Issued'
    BY <2>1
  <2>4. PICK s \in Nat : s = sy[u]
    BY <2>1
  <2>5. PICK w \in Nat : w = v
    BY <2>1
  <2>6. w + n = s /\ j + s = i + w
    BY ONLY <2>1, <2>2, <2>3, <2>4, <2>5
  <2>7. j + n = i
    BY ONLY <2>6, i \in Nat, j \in Nat, s \in Nat, w \in Nat, n \in Nat, Burned
  <2> QED BY ONLY <2>2, <2>3, <2>7
<1>10. base' \in [Users -> Nat]
  <2>1. base \in [Users -> Nat] /\ base[to] + l \in Nat
    BY <1>3, Parts
  <2> QED BY ONLY <1>1, <2>1
<1>11. collateral' \in Nat /\ Issued' <= collateral'
  <2>1. Issued <= collateral
    BY Parts
  <2>2. collateral' = collateral - n /\ n \in Nat /\ n <= collateral
    BY <1>1
  <2>3. Issued \in Nat /\ Issued' \in Nat /\ Issued' + n = Issued /\ collateral \in Nat
    BY <1>5, <1>8, <1>9
  <2>4. collateral - n \in Nat /\ Issued' <= collateral - n
    BY ONLY <2>1, <2>2, <2>3, StillCovered
  <2> QED BY <2>2, <2>4
<1>12. TypeOK'
  BY <1>1, <1>4, <1>8, <1>10, <1>11, Parts, ConstantTypes DEF TypeOK, PositionsInv
<1>13. Outstanding'
  BY <1>1, <1>3, <1>5, Parts, ConstantTypes DEF Outstanding
<1>14. DueType' /\ CtokensBackSy'
  BY <1>1, <1>11, ConstantTypes DEF DueType, CtokensBackSy
<1> QED BY <1>4, <1>8, <1>12, <1>13, <1>14 DEF IInv, PositionsInv

(* Instructions on positions leave the reserve alone.                      *)
LEMMA PositionSteps ==
    ASSUME IInv, NEW u \in Users, NEW to \in Users, NEW n \in Nat,
           \/ OpenPosition(u) \/ Deposit(u, n) \/ Withdraw(u, to, n) \/ Transfer(u, n)
    PROVE  IInv'
<1>1. /\ metadata' = metadata
      /\ UNCHANGED <<base, collateral, reserve, due, high>>
  BY DEF OpenPosition, Deposit, Withdraw, Transfer
<1>2. PositionsInv /\ metadata.exists \in BOOLEAN
  BY Parts
<1>3. PositionsInv' /\ Issued' = Issued
  <2>1. CASE OpenPosition(u)
    BY <1>2, <2>1, OpenStep DEF OpenPosition
  <2>2. CASE Deposit(u, n)
    BY <1>2, <2>2, DepositStep DEF Deposit
  <2>3. CASE Withdraw(u, to, n)
    BY <1>2, <2>3, WithdrawStep DEF Withdraw
  <2>4. CASE Transfer(u, n)
    BY <1>2, <2>4, SendStep DEF Transfer
  <2> QED BY <2>1, <2>2, <2>3, <2>4
<1> QED BY <1>1, <1>2, <1>3, OffReserveStep

(* The wrapper is created before anything else.                            *)
LEMMA InitSyParamsStep ==
    ASSUME IInv, NEW kyc, NEW pdas, NEW wallets, InitSyParams(kyc, pdas, wallets)
    PROVE  IInv'
<1>1. /\ metadata'.exists \in BOOLEAN
      /\ UNCHANGED <<base, collateral, reserve, due, high>>
      /\ UNCHANGED <<sy, poolEscrow, accounts, position>>
  BY DEF InitSyParams, positionVars
<1>2. PositionsInv' /\ Issued' = Issued
  BY <1>1, Parts DEF PositionsInv, PositionsTypeOK, PositionsEscrowed, Issued
<1> QED BY <1>1, <1>2, OffReserveStep

(* Ctokens given to the vault come from those held by others.              *)
LEMMA DonateStep ==
    ASSUME IInv, NEW n \in Nat, DonateCtokens(n)
    PROVE  IInv'
<1>1. /\ n <= (reserve.supply - collateral) - Locked
      /\ collateral' = collateral + n
      /\ UNCHANGED <<metadata, base, reserve, due, high>>
      /\ UNCHANGED <<sy, poolEscrow, accounts, position>>
  BY DEF DonateCtokens, OthersCtokens, positionVars
<1>2. /\ collateral \in Nat /\ Issued <= collateral /\ reserve.supply \in Nat
      /\ Locked \in Nat
  BY Parts, ConstantTypes
<1>3. Issued \in Nat
  BY Parts, UsersAssumption, TotalNat DEF PositionsInv, PositionsTypeOK, Issued
<1>4. TypeOK' /\ PositionsEscrowed' /\ Issued' = Issued
  BY <1>1, <1>2 DEF IInv, TypeOK, PositionsTypeOK, PositionsEscrowed, Issued
<1>5. CtokensBackSy'
  <2>1. Issued <= collateral + n
    BY ONLY <1>2, <1>3, n \in Nat
  <2> QED BY <1>1, <1>4, <2>1 DEF CtokensBackSy
<1>6. Outstanding'
  BY <1>1, <1>2 DEF Outstanding
<1>7. DueType' /\ Sound(reserve', high')
  BY <1>1 DEF IInv, DueType
<1> QED BY <1>4, <1>5, <1>6, <1>7 DEF IInv

(* Lenders: theirs are the ctokens beyond the vault's and the locked ones. *)
LEMMA LenderSteps ==
    ASSUME IInv, NEW n \in Nat, RefreshReserve \/ Lend(n) \/ Unlend(n)
    PROVE  IInv'
<1> DEFINE q == Refreshed(reserve)
<1>1. /\ Sound(q, high) /\ q.supply = reserve.supply /\ q.supply \in Nat \ {0}
      /\ collateral + Locked <= q.supply /\ collateral \in Nat /\ high \in Nat
      /\ Locked \in Nat
  BY Parts, ConstantTypes
<1> HIDE DEF q
<1>2. CASE RefreshReserve
  BY <1>1, <1>2, OnReserveStep DEF RefreshReserve, q
<1>3. CASE Lend(n)
  <2>1. CanLend(q, n) /\ OnReserve(Deposited(q, n))
    BY <1>3 DEF Lend, q
  <2>2. /\ Sound(Deposited(q, n), high) /\ CtokensFor(q, n) \in Nat
        /\ Deposited(q, n).supply = q.supply + CtokensFor(q, n)
    BY <1>1, <2>1, DepositSound
  <2>3. collateral + Locked <= Deposited(q, n).supply
    BY <1>1, <2>2
  <2> QED BY <2>1, <2>2, <2>3, OnReserveStep
<1>4. CASE Unlend(n)
  <2>1. /\ CanPay(q, n) /\ OnReserve(Redeemed(q, n))
        /\ n <= (reserve.supply - collateral) - Locked
    BY <1>4 DEF Unlend, OthersCtokens, q
  <2>2. n <= q.supply /\ collateral + Locked <= q.supply - n
    BY <1>1, <2>1
  <2>3. /\ Sound(Redeemed(q, n), high)
        /\ Redeemed(q, n).supply = q.supply - n
    BY <1>1, <2>1, <2>2, RedeemSound
  <2>4. collateral + Locked <= Redeemed(q, n).supply
    BY <2>2, <2>3
  <2> QED BY <2>1, <2>3, <2>4, OnReserveStep
<1> QED BY <1>2, <1>3, <1>4

(* Borrowers and the fee collector move liquidity between what is          *)
(* available, what is borrowed and what is owed in fees.                   *)
LEMMA BorrowerSteps ==
    ASSUME IInv, NEW n \in Nat, Borrow(n) \/ Repay(n) \/ WithdrawFees(n)
    PROVE  IInv'
<1> DEFINE q == Refreshed(reserve)  k == n * Scale
<1>1. /\ Sound(q, high) /\ q.supply = reserve.supply /\ q.supply \in Nat \ {0}
      /\ collateral + Locked <= q.supply /\ high \in Nat /\ q \in ReserveRecord
  BY Parts
<1>2. /\ q.available \in Nat /\ q.borrowed \in Nat /\ q.fees \in Nat
      /\ Scale \in Nat \ {0} /\ k \in Nat /\ q.available * Scale \in Nat
  BY <1>1, ReserveFields
<1> HIDE DEF q
<1>3. CASE Borrow(n)
  <2> DEFINE r == [q EXCEPT !.available = q.available - n, !.borrowed = q.borrowed + k]
  <2>1. n <= q.available /\ OnReserve(r)
    BY <1>3 DEF Borrow, q
  <2>2. q.available - n \in Nat /\ q.borrowed + k \in Nat
    BY <1>2, <2>1
  <2>3. /\ r \in ReserveRecord /\ r.available = q.available - n
        /\ r.borrowed = q.borrowed + k /\ r.fees = q.fees /\ r.supply = q.supply
    BY ONLY <1>1, <2>2 DEF ReserveRecord
  <2> HIDE DEF r
  <2>4. (q.available - n) * Scale = q.available * Scale - k
    BY <1>2
  <2>5. OwedSf(r) = OwedSf(q)
    <3> HIDE DEF k
    <3> QED BY <1>2, <2>3, <2>4 DEF OwedSf
  <2> QED BY <1>1, <2>1, <2>3, <2>5, OwedSame, OnReserveStep
<1>4. CASE Repay(n)
  <2> DEFINE r == [q EXCEPT !.available = q.available + n, !.borrowed = q.borrowed - k]
  <2>1. k <= q.borrowed /\ OnReserve(r)
    BY <1>4 DEF Repay, q
  <2>2. q.available + n \in Nat /\ q.borrowed - k \in Nat
    BY <1>2, <2>1
  <2>3. /\ r \in ReserveRecord /\ r.available = q.available + n
        /\ r.borrowed = q.borrowed - k /\ r.fees = q.fees /\ r.supply = q.supply
    BY ONLY <1>1, <2>2 DEF ReserveRecord
  <2> HIDE DEF r
  <2>4. (q.available + n) * Scale = q.available * Scale + k
    BY <1>2
  <2>5. OwedSf(r) = OwedSf(q)
    <3> HIDE DEF k
    <3> QED BY <1>2, <2>3, <2>4 DEF OwedSf
  <2> QED BY <1>1, <2>1, <2>3, <2>5, OwedSame, OnReserveStep
<1>5. CASE WithdrawFees(n)
  <2> DEFINE r == [q EXCEPT !.available = q.available - n, !.fees = q.fees - k]
  <2>1. n <= q.available /\ k <= q.fees /\ OnReserve(r)
    BY <1>5 DEF WithdrawFees, q
  <2>2. q.available - n \in Nat /\ q.fees - k \in Nat
    BY <1>2, <2>1
  <2>3. /\ r \in ReserveRecord /\ r.available = q.available - n
        /\ r.borrowed = q.borrowed /\ r.fees = q.fees - k /\ r.supply = q.supply
    BY ONLY <1>1, <2>2 DEF ReserveRecord
  <2> HIDE DEF r
  <2>4. (q.available - n) * Scale = q.available * Scale - k
    BY <1>2
  <2>5. OwedSf(r) = OwedSf(q)
    <3> HIDE DEF k
    <3> QED BY <1>2, <2>3, <2>4 DEF OwedSf
  <2> QED BY <1>1, <2>1, <2>3, <2>5, OwedSame, OnReserveStep
<1> QED BY <1>3, <1>4, <1>5

(* Interest accrues unbooked, with no more fee than interest.              *)
LEMMA AccrueStep ==
    ASSUME IInv, NEW a \in Accruals, Accrue(a)
    PROVE  IInv'
<1>1. /\ due' = a
      /\ UNCHANGED <<metadata, base, collateral, reserve, high>>
      /\ UNCHANGED <<sy, poolEscrow, accounts, position>>
  BY DEF Accrue, positionVars
<1>2. a \in DueRecord /\ a.fee <= a.interest
  BY KaminoAssumptions
<1>3. TypeOK' /\ PositionsEscrowed' /\ CtokensBackSy'
  BY <1>1, <1>2 DEF IInv, TypeOK, PositionsTypeOK, PositionsEscrowed, CtokensBackSy,
     Issued
<1>4. DueType' /\ Outstanding' /\ Sound(reserve', high')
  BY <1>1, <1>2 DEF IInv, DueType, Outstanding
<1> QED BY <1>3, <1>4 DEF IInv

-----------------------------------------------------------------------------
(* The theorems.                                                           *)

(* The first reserve owes nothing to any rate.                             *)
LEMMA InitHolds == Init => IInv
<1> SUFFICES ASSUME Init PROVE IInv
  OBVIOUS
<1>1. /\ sy = [u \in Users |-> 0] /\ poolEscrow = 0 /\ accounts = {}
      /\ position = [u \in Users |-> 0] /\ metadata.exists = FALSE
      /\ base = Funds /\ collateral = 0 /\ reserve = InitialReserve
      /\ due = NothingDue /\ high = 0
  BY DEF Init
<1>2. Total(Users, sy) = 0 /\ Total(Users, position) = 0
  <2>1. \A u \in Users : sy[u] = 0 /\ position[u] = 0
    BY <1>1
  <2> QED BY <2>1, TotalZero
<1>3. TypeOK
  BY <1>1, KaminoAssumptions, ConstantTypes DEF TypeOK, PositionsTypeOK
<1>4. DueType /\ PositionsEscrowed /\ CtokensBackSy
  BY <1>1, <1>2, ConstantTypes DEF DueType, PositionsEscrowed, CtokensBackSy, Issued
<1>5. /\ reserve \in ReserveRecord /\ Locked \in 1..reserve.supply
      /\ reserve.fees <= reserve.available * Scale + reserve.borrowed
  BY <1>1, KaminoAssumptions
<1>6. Outstanding
  BY <1>1, <1>5, ReserveFields, ConstantTypes DEF Outstanding
<1>7. OwedSf(reserve) \in Nat
  BY <1>5, ReserveFields DEF OwedSf
<1>8. Sound(reserve, high)
  <2>1. (0 * Scale) * reserve.supply = 0 /\ 0 <= OwedSf(reserve) * ONE
    BY <1>5, <1>7, ReserveFields
  <2> QED BY <1>1, <1>5, <1>7, <2>1 DEF Sound
<1> QED BY <1>3, <1>4, <1>6, <1>8 DEF IInv

(* Every step keeps the invariant.                                         *)
LEMMA NextKeeps == IInv /\ [Next]_vars => IInv'
<1> SUFFICES ASSUME IInv, [Next]_vars PROVE IInv'
  OBVIOUS
<1>1. ASSUME NEW kyc \in BOOLEAN, NEW pdas \in PdaLists, NEW wallets \in PdaLists,
             InitSyParams(kyc, pdas, wallets)
      PROVE  IInv'
  BY <1>1, InitSyParamsStep
<1>2. ASSUME NEW u \in Users, NEW to \in Users, NEW n \in Amounts,
             MintSy(u, to, n) \/ RedeemSy(u, to, n) \/ Withdraw(u, to, n)
      PROVE  IInv'
  BY <1>2, ConstantTypes, MintSyStep, RedeemSyStep, PositionSteps
<1>3. ASSUME NEW u \in Users, OpenPosition(u)
      PROVE  IInv'
  <2>1. 0 \in Nat
    OBVIOUS
  <2> QED BY <1>3, <2>1, PositionSteps
<1>4. ASSUME NEW u \in Users, NEW n \in Amounts, Deposit(u, n) \/ Transfer(u, n)
      PROVE  IInv'
  BY <1>4, ConstantTypes, PositionSteps
<1>5. ASSUME NEW n \in Amounts,
             \/ DonateCtokens(n) \/ Lend(n) \/ Unlend(n)
             \/ Borrow(n) \/ Repay(n) \/ WithdrawFees(n)
      PROVE  IInv'
  BY <1>5, ConstantTypes, DonateStep, LenderSteps, BorrowerSteps
<1>6. ASSUME RefreshReserve
      PROVE  IInv'
  <2>1. 0 \in Nat
    OBVIOUS
  <2> QED BY <1>6, <2>1, LenderSteps
<1>7. ASSUME NEW a \in Accruals, Accrue(a)
      PROVE  IInv'
  BY <1>7, AccrueStep
<1>8. ASSUME UNCHANGED vars
      PROVE  IInv'
  BY <1>8 DEF vars, positionVars, IInv, TypeOK, PositionsTypeOK, DueType,
     PositionsEscrowed, CtokensBackSy, Issued, Outstanding
<1> QED BY <1>1, <1>2, <1>3, <1>4, <1>5, <1>6, <1>7, <1>8 DEF Next

(* The inductive invariant holds in every behaviour.                       *)
THEOREM InvariantHolds == Spec => []IInv
<1> QED BY InitHolds, NextKeeps, PTL DEF Spec

(* Deposits and withdrawals of SY: the pool escrow always holds what the   *)
(* positions promise together, for any number of owners.                   *)
THEOREM PositionsCovered == Spec => []PositionsEscrowed
<1>1. IInv => PositionsEscrowed
  BY DEF IInv
<1> QED BY <1>1, InvariantHolds, PTL

(* mint_sy and redeem_sy: every SY issued is backed by a ctoken of the     *)
(* vault, whatever lenders, borrowers and donors do in between.            *)
THEOREM SyBacked == Spec => []CtokensBackSy
<1>1. IInv => CtokensBackSy
  BY DEF IInv
<1> QED BY <1>1, InvariantHolds, PTL

(* read_real_klend_rate: cutting the fractions off never takes the rate    *)
(* further below the highest rate read than one unit of liquidity over the *)
(* supply of ctokens, and the rounding of the rate.                        *)
THEOREM RateStaysNear == Spec => []RateNearHigh
<1>1. IInv => RateNearHigh
  <2> SUFFICES ASSUME IInv, RateReadable(reserve)
               PROVE  (high - ReadExchangeRate(reserve)) * reserve.supply
                        <= ONE + reserve.supply
    BY DEF RateNearHigh
  <2>1. high \in Nat /\ Sound(reserve, high)
    BY DEF IInv, TypeOK
  <2> QED BY <2>1, SoundIsNear
<1> QED BY <1>1, InvariantHolds, PTL
=============================================================================
