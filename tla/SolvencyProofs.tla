---------------------------- MODULE SolvencyProofs ----------------------------
(***************************************************************************)
(* Solvency of Vault.  Rounding aside, the escrow holds what the vault     *)
(* owes to its YT holders, to the treasury and to those who redeem their   *)
(* PT, and while no rate has fallen each PT is backed at par.  This is     *)
(* proved for rates that fixed-point arithmetic represents without loss    *)
(* (ExactRates): a rounded reciprocal can owe a little more than is held.  *)
(* When no rate falls, the SY program also owes the vault the emissions    *)
(* credited to its positions and to the treasury.                          *)
(***************************************************************************)
EXTENDS VaultProofs

-----------------------------------------------------------------------------
(* Rates that are exact.                                                   *)

(* The rates Rates for which nothing is rounded: the reciprocal of each is *)
(* exact, and no ratio of two of them is rounded up.                       *)
ExactRates ==
    \A r \in Rates \ {0} :
        /\ NumDiv(ONE, r) * r = ONE * ONE
        /\ \A s \in Rates : r <= s => NumDiv(r, s) * s <= r * ONE

(* A ratio that divides is not rounded.                                    *)
LEMMA NumDivWhole ==
    ASSUME NEW a \in Nat, NEW b \in Nat, NEW q \in Nat,
           q * b = a * ONE, Correction < b
    PROVE  NumDiv(a, b) = q
<1> DEFINE n == a * ONE + Correction
<1>1. ONE \in Nat \ {0} /\ Correction \in Nat
    BY ONEAssumption, CorrectionSmall
<1>2. n \in Nat /\ q * b <= n /\ n < q * b + b
    BY <1>1
<1>3. NumDiv(a, b) = n \div b
    BY DEF NumDiv
<1>4. b \in Nat \ {0}
    BY <1>1
<1> HIDE DEF n
<1>5. n < (q + 1) * b
    BY ONLY <1>2, <1>4, q \in Nat
<1> QED BY <1>2, <1>3, <1>4, <1>5, QuotientIs

(* Rates whose reciprocals, and whose ratios of a smaller to a larger one, *)
(* need no rounding are exact: with an even ONE, such as ONE and 2 * ONE.  *)
LEMMA WholeRatesExact ==
    ASSUME \A r \in Rates \ {0} :
              /\ Correction < r
              /\ \E q \in Nat : q * r = ONE * ONE
              /\ \A s \in Rates : r <= s => \E q \in Nat : q * s = r * ONE
    PROVE  ExactRates
<1>1. ONE \in Nat \ {0} /\ Rates \subseteq Nat /\ Correction \in Nat
    BY ONEAssumption, VaultAssumptions, CorrectionSmall
<1> SUFFICES ASSUME NEW r \in Rates \ {0}
             PROVE  /\ NumDiv(ONE, r) * r = ONE * ONE
                    /\ \A s \in Rates : r <= s => NumDiv(r, s) * s <= r * ONE
    BY DEF ExactRates
<1>2. NumDiv(ONE, r) * r = ONE * ONE
    <2>1. PICK q \in Nat : q * r = ONE * ONE
        OBVIOUS
    <2>2. NumDiv(ONE, r) = q
        BY <1>1, <2>1, NumDivWhole
    <2> QED BY <2>1, <2>2
<1>3. ASSUME NEW s \in Rates, r <= s PROVE NumDiv(r, s) * s <= r * ONE
    <2>1. PICK q \in Nat : q * s = r * ONE
        BY <1>3
    <2>2. Correction < s
        BY <1>1, <1>3
    <2>3. NumDiv(r, s) = q
        BY <1>1, <2>1, <2>2, NumDivWhole
    <2>4. r * ONE \in Nat
        BY <1>1
    <2> QED BY <2>1, <2>3, <2>4
<1> QED BY <1>2, <1>3

-----------------------------------------------------------------------------
(* What is owed.                                                           *)

(* SY, scaled, that the YT of a position stand for: their PT's backing and *)
(* all the interest since they were last settled.                          *)
ParValue(p) ==
    IF p.yt = 0 \/ p.index = 0 THEN 0 ELSE NumDiv(ONE, p.index) * p.yt

(* SY, scaled, a position is due up to the final rate.                     *)
Rise(v, p) ==
    IF p.index >= v.final \/ p.yt = 0 \/ p.index = 0 THEN 0
    ELSE (NumDiv(ONE, p.index) - NumDiv(ONE, v.final)) * p.yt

(* The sums of both over all positions, P[q] being the position of q.      *)
SumOfPar(P) == Total(Positions, [q \in Positions |-> ParValue(P[q])])
SumOfRise(v, P) == Total(Positions, [q \in Positions |-> Rise(v, P[q])])

(* SY that is neither the treasury's nor staged.                           *)
Free(v) == v.total - v.treasury - v.uncollected

(* Before maturity the free SY cover what the YT stand for, and afterwards,*)
(* if no rate falls, the PT at the last rate and what is due on the YT.    *)
CoversYt(v, P) == SumOfPar(P) <= Free(v) * ONE
CoversPt(v, P) ==
    v.pts * (ONE * ONE) + SumOfRise(v, P) * v.final <= (Free(v) * v.last) * ONE

(* The rates of a vault v and of its positions P, matured or not: known,   *)
(* in order and, if no rate falls, at their highest.                       *)
Rated(matured, v, P) ==
    /\ v \in VaultRecord /\ P \in [Positions -> PositionRecord]
    /\ v.last \in Rates \cup {0} /\ v.final \in Rates \cup {0}
    /\ v.last <= v.ath /\ v.final <= v.ath
    /\ \A q \in Positions : /\ P[q].index \in Rates \cup {0}
                            /\ P[q].index <= v.ath
                            /\ P[q].yt > 0 => P[q].index > 0
    /\ ~matured => v.final = v.last
    /\ ~RateMayFall => /\ v.last = v.ath
                       /\ \A q \in Positions : P[q].index <= v.final

(* A vault that stands for what its YT and PT are worth.                   *)
Sound(matured, v, P) ==
    /\ Rated(matured, v, P)
    /\ ~matured => CoversYt(v, P)
    /\ matured /\ ~RateMayFall => CoversPt(v, P)

-----------------------------------------------------------------------------
(* The value of one position.                                              *)

(* Values are whole.                                                       *)
LEMMA ValuesNat ==
    ASSUME NEW v \in VaultRecord, NEW p \in PositionRecord
    PROVE  ParValue(p) \in Nat /\ Rise(v, p) \in Nat
<1>1. p.yt \in Nat /\ p.index \in Nat /\ v.final \in Nat
    BY DEF PositionRecord, VaultRecord
<1>2. ParValue(p) \in Nat
    <2>1. CASE p.yt = 0 \/ p.index = 0
        BY <2>1 DEF ParValue
    <2>2. CASE ~(p.yt = 0 \/ p.index = 0)
        <3>1. NumDiv(ONE, p.index) \in Nat
            BY <1>1, <2>2, NumberNat, ONEAssumption
        <3> QED BY <1>1, <2>2, <3>1, ProductNat DEF ParValue
    <2> QED BY <2>1, <2>2
<1>3. Rise(v, p) \in Nat
    <2>1. CASE p.index >= v.final \/ p.yt = 0 \/ p.index = 0
        BY <2>1 DEF Rise
    <2>2. CASE ~(p.index >= v.final \/ p.yt = 0 \/ p.index = 0)
        <3>1. PICK d \in Nat : d = NumDiv(ONE, p.index) - NumDiv(ONE, v.final)
            <4>1. p.index \in Nat \ {0} /\ v.final \in Nat \ {0} /\ p.index <= v.final
                BY <1>1, <2>2
            <4> QED BY <4>1, ReciprocalFalls
        <3> QED BY <1>1, <2>2, <3>1, ProductNat DEF Rise
    <2> QED BY <2>1, <2>2
<1> QED BY <1>2, <1>3

(* The value of a position that has an index.                              *)
LEMMA ParValueIs ==
    ASSUME NEW p \in PositionRecord, p.index > 0
    PROVE  /\ NumDiv(ONE, p.index) \in Nat
           /\ ParValue(p) = NumDiv(ONE, p.index) * p.yt
<1>1. p.yt \in Nat /\ p.index \in Nat \ {0}
    BY DEF PositionRecord
<1>2. NumDiv(ONE, p.index) \in Nat
    BY <1>1, ReciprocalFalls
<1>3. CASE p.yt = 0
    <2>1. ParValue(p) = 0
        BY <1>3 DEF ParValue
    <2> QED BY <1>2, <1>3, <2>1
<1>4. CASE p.yt # 0
    BY <1>1, <1>2, <1>4 DEF ParValue
<1> QED BY <1>3, <1>4

(* A settled position with its YT and its new index.                       *)
LEMMA EarnFields ==
    ASSUME NEW v \in VaultRecord, NEW p \in PositionRecord
    PROVE  /\ EarnPosition(v, p).yt = p.yt
           /\ EarnPosition(v, p).index = IF EmergencyMode(v) THEN p.index ELSE v.final
    BY DEF EarnPosition, PositionRecord

(* Before maturity a position turns no more of its value into interest     *)
(* than the value its YT then lose.                                        *)
LEMMA SettlesPar ==
    ASSUME NEW v \in VaultRecord, NEW p \in PositionRecord, v.final > 0,
           v.final = v.last, p.index <= v.ath, v.last <= v.ath, p.yt > 0 => p.index > 0
    PROVE  SyInterest(v, p) * ONE + ParValue(EarnPosition(v, p)) <= ParValue(p)
<1>1. /\ p.yt \in Nat /\ p.index \in Nat
      /\ v.final \in Nat \ {0} /\ v.ath \in Nat /\ v.last \in Nat
      /\ ONE \in Nat \ {0}
    BY ONEAssumption DEF PositionRecord, VaultRecord
<1>2. /\ ParValue(p) \in Nat /\ ParValue(EarnPosition(v, p)) \in Nat
    BY ValuesNat, EarnTypes
<1>3. CASE EmergencyMode(v)
    <2>1. SyInterest(v, p) = 0
        BY <1>3 DEF SyInterest
    <2>2. ParValue(EarnPosition(v, p)) = ParValue(p)
        BY <1>3, EarnFields DEF ParValue
    <2> QED BY ONLY <1>1, <1>2, <2>1, <2>2
<1>4. CASE ~EmergencyMode(v)
    <2>1. p.index <= v.final /\ EarnPosition(v, p).index = v.final
          /\ EarnPosition(v, p).yt = p.yt
        BY <1>1, <1>4, EarnFields DEF EmergencyMode
    <2>2. SyInterest(v, p) = Earned(p.yt, p.index, v.final)
        BY <1>1, <1>4 DEF SyInterest, ScaleToCurrent
    <2>3. CASE p.yt = 0
        <3>1. SyInterest(v, p) = 0
            BY <2>2, <2>3 DEF Earned
        <3>2. ParValue(EarnPosition(v, p)) = 0
            BY <2>1, <2>3 DEF ParValue
        <3> QED BY ONLY <1>1, <1>2, <3>1, <3>2
    <2>4. CASE p.yt # 0
        <3>1. p.index \in Nat \ {0}
            BY <1>1, <2>4
        <3>2. PICK a \in Nat, b \in Nat :
                a = NumDiv(ONE, p.index) /\ b = NumDiv(ONE, v.final)
            BY <1>1, <2>1, <3>1, ReciprocalFalls
        <3>3. ParValue(p) = a * p.yt /\ ParValue(EarnPosition(v, p)) = b * p.yt
            BY <1>1, <2>1, <2>4, <3>1, <3>2 DEF ParValue
        <3>4. PICK e \in Nat : e = SyInterest(v, p) /\ e * ONE <= (a - b) * p.yt
            BY <1>1, <2>1, <2>2, <3>1, <3>2, EarnedRoundsDown
        <3>5. (a - b) * p.yt = a * p.yt - b * p.yt
            BY ONLY <1>1, <3>2
        <3>6. e * ONE \in Nat /\ a * p.yt \in Nat /\ b * p.yt \in Nat
            BY ONLY <1>1, <3>2, <3>4
        <3> QED BY ONLY <3>3, <3>4, <3>5, <3>6
    <2> QED BY <2>3, <2>4
<1> QED BY <1>3, <1>4

(* After maturity it is paid, at the last rate, no more than what it was   *)
(* due up to the final rate, and is then due nothing.                      *)
LEMMA SettlesRise ==
    ASSUME NEW v \in VaultRecord, NEW p \in PositionRecord, ~EmergencyMode(v),
           v.final > 0, v.final <= v.last, p.index <= v.final,
           NumDiv(v.final, v.last) * v.last <= v.final * ONE
    PROVE  /\ (SyInterest(v, p) * v.last) * ONE <= Rise(v, p) * v.final
           /\ Rise(v, EarnPosition(v, p)) = 0
<1>1. /\ p.yt \in Nat /\ p.index \in Nat
      /\ v.final \in Nat \ {0} /\ v.last \in Nat \ {0}
      /\ ONE \in Nat \ {0}
    BY ONEAssumption DEF PositionRecord, VaultRecord
<1>2. Rise(v, EarnPosition(v, p)) = 0
    BY <1>1, EarnFields DEF Rise
<1>3. PICK e \in Nat : e = Earned(p.yt, p.index, v.final) /\ e * ONE <= Rise(v, p)
    <2>1. CASE p.index >= v.final \/ p.yt = 0 \/ p.index = 0
        <3>1. Earned(p.yt, p.index, v.final) = 0 /\ Rise(v, p) = 0
            BY <2>1 DEF Earned, Rise
        <3> QED BY <1>1, <3>1
    <2>2. CASE ~(p.index >= v.final \/ p.yt = 0 \/ p.index = 0)
        <3>1. p.index \in Nat \ {0}
            BY <1>1, <2>2
        <3>2. Rise(v, p) = (NumDiv(ONE, p.index) - NumDiv(ONE, v.final)) * p.yt
            BY <2>2 DEF Rise
        <3> QED BY <1>1, <3>1, <3>2, EarnedRoundsDown
    <2> QED BY <2>1, <2>2
<1>4. PICK s \in Nat : s = SyInterest(v, p) /\ s * v.last <= e * v.final
    <2>1. SyInterest(v, p) = ScaleToCurrent(e, v.final, v.last)
        BY <1>3 DEF SyInterest
    <2> QED BY <1>1, <2>1, ScaledDown
<1>5. PICK rise \in Nat : rise = Rise(v, p)
    BY ValuesNat
<1>6. (s * v.last) * ONE <= (e * v.final) * ONE
    <2>1. s * v.last \in Int /\ e * v.final \in Int
        BY <1>1
    <2> QED BY ONLY <1>1, <1>4, <2>1, Scaled
<1>7. (e * ONE) * v.final <= rise * v.final
    <2>1. e * ONE \in Int /\ e * ONE <= rise
        BY <1>1, <1>3, <1>5
    <2> QED BY ONLY <1>1, <2>1, rise \in Nat, Scaled
<1>8. (e * v.final) * ONE = (e * ONE) * v.final
    BY <1>1
<1>9. (s * v.last) * ONE <= rise * v.final
    <2>1. (s * v.last) * ONE \in Nat /\ (e * ONE) * v.final \in Nat
          /\ rise * v.final \in Nat
        BY <1>1
    <2> QED BY ONLY <1>6, <1>7, <1>8, <2>1
<1> QED BY <1>2, <1>4, <1>5, <1>9

-----------------------------------------------------------------------------
(* The value of all positions.                                             *)

(* Sums are whole.                                                         *)
LEMMA SumsOfValues ==
    ASSUME NEW v \in VaultRecord, NEW P \in [Positions -> PositionRecord]
    PROVE  SumOfPar(P) \in Nat /\ SumOfRise(v, P) \in Nat
<1> DEFINE f == [q \in Positions |-> ParValue(P[q])]
           g == [q \in Positions |-> Rise(v, P[q])]
<1>1. \A q \in Positions : f[q] \in Nat /\ g[q] \in Nat
    BY ValuesNat
<1> HIDE DEF f, g
<1>2. Total(Positions, f) \in Nat /\ Total(Positions, g) \in Nat
    BY <1>1, TotalNat, PositionsFinite
<1> QED BY <1>2 DEF f, g, SumOfPar, SumOfRise

(* When one position changes, so do the sums, by as much.                  *)
LEMMA ValueMoves ==
    ASSUME NEW v \in VaultRecord, NEW P \in [Positions -> PositionRecord],
           NEW Q \in [Positions -> PositionRecord], NEW x \in Positions,
           \A q \in Positions \ {x} : Q[q].yt = P[q].yt /\ Q[q].index = P[q].index
    PROVE  /\ SumOfPar(Q) + ParValue(P[x]) = SumOfPar(P) + ParValue(Q[x])
           /\ SumOfRise(v, Q) + Rise(v, P[x]) = SumOfRise(v, P) + Rise(v, Q[x])
<1> DEFINE f == [q \in Positions |-> ParValue(P[q])]
           g == [q \in Positions |-> ParValue(Q[q])]
           h == [q \in Positions |-> Rise(v, P[q])]
           k == [q \in Positions |-> Rise(v, Q[q])]
<1>1. \A q \in Positions : f[q] \in Nat /\ g[q] \in Nat /\ h[q] \in Nat /\ k[q] \in Nat
    BY ValuesNat
<1>2. \A q \in Positions \ {x} : g[q] = f[q] /\ k[q] = h[q]
    BY DEF ParValue, Rise
<1>3. f[x] = ParValue(P[x]) /\ g[x] = ParValue(Q[x])
      /\ h[x] = Rise(v, P[x]) /\ k[x] = Rise(v, Q[x])
    OBVIOUS
<1> HIDE DEF f, g, h, k
<1>4. Total(Positions, g) + f[x] = Total(Positions, f) + g[x]
    <2>1. /\ \A q \in Positions : f[q] \in Nat /\ g[q] \in Nat
          /\ \A q \in Positions \ {x} : g[q] = f[q]
        BY <1>1, <1>2
    <2> QED BY ONLY <2>1, x \in Positions, TotalUpdate, PositionsFinite
<1>5. Total(Positions, k) + h[x] = Total(Positions, h) + k[x]
    <2>1. /\ \A q \in Positions : h[q] \in Nat /\ k[q] \in Nat
          /\ \A q \in Positions \ {x} : k[q] = h[q]
        BY <1>1, <1>2
    <2> QED BY ONLY <2>1, x \in Positions, TotalUpdate, PositionsFinite
<1>6. /\ SumOfPar(P) = Total(Positions, f) /\ SumOfPar(Q) = Total(Positions, g)
      /\ SumOfRise(v, P) = Total(Positions, h) /\ SumOfRise(v, Q) = Total(Positions, k)
    BY DEF f, g, h, k, SumOfPar, SumOfRise
<1> QED BY <1>3, <1>4, <1>5, <1>6

(* The sum of what is due depends on the final rate only.                  *)
LEMMA SameFinal ==
    ASSUME NEW v, NEW w, v.final = w.final, NEW P
    PROVE  SumOfRise(v, P) = SumOfRise(w, P)
<1> DEFINE f == [q \in Positions |-> Rise(v, P[q])]
           g == [q \in Positions |-> Rise(w, P[q])]
<1>1. f = g
    BY DEF Rise
<1> QED BY <1>1 DEF SumOfRise

-----------------------------------------------------------------------------
(* What keeps a vault sound.                                               *)

(* The numbers in a sound vault.                                           *)
LEMMA SoundNumbers ==
    ASSUME NEW matured, NEW v, NEW P, Rated(matured, v, P)
    PROVE  /\ v.total \in Nat /\ v.treasury \in Nat /\ v.uncollected \in Nat
           /\ v.last \in Nat /\ v.ath \in Nat /\ v.final \in Nat /\ v.pts \in Nat
           /\ Free(v) \in Int
           /\ SumOfPar(P) \in Nat /\ SumOfRise(v, P) \in Nat
           /\ \A q \in Positions : /\ P[q] \in PositionRecord
                                   /\ P[q].yt \in Nat /\ P[q].index \in Nat
                                   /\ ParValue(P[q]) \in Nat /\ Rise(v, P[q]) \in Nat
<1>1. v \in VaultRecord /\ P \in [Positions -> PositionRecord]
    BY DEF Rated
<1>2. SumOfPar(P) \in Nat /\ SumOfRise(v, P) \in Nat
    BY <1>1, SumsOfValues
<1>3. /\ v.total \in Nat /\ v.treasury \in Nat /\ v.uncollected \in Nat
      /\ v.last \in Nat /\ v.ath \in Nat /\ v.final \in Nat /\ v.pts \in Nat
    BY <1>1 DEF VaultRecord
<1>4. ASSUME NEW q \in Positions
      PROVE  /\ P[q] \in PositionRecord
             /\ P[q].yt \in Nat /\ P[q].index \in Nat
             /\ ParValue(P[q]) \in Nat /\ Rise(v, P[q]) \in Nat
    <2>1. P[q] \in PositionRecord
        BY <1>1
    <2> QED BY <1>1, <2>1, ValuesNat DEF PositionRecord
<1>5. Free(v) \in Int
    BY <1>3 DEF Free
<1> QED BY <1>2, <1>3, <1>4, <1>5

(* Soundness is about rates, YT, PT and free SY only.                      *)
LEMMA SoundStill ==
    ASSUME NEW matured \in BOOLEAN, NEW v, NEW P, Sound(matured, v, P),
           NEW w \in VaultRecord, w.last = v.last, w.ath = v.ath, w.final = v.final,
           w.pts = v.pts, Free(w) = Free(v),
           NEW Q \in [Positions -> PositionRecord],
           \A q \in Positions : Q[q].yt = P[q].yt /\ Q[q].index = P[q].index
    PROVE  Sound(matured, w, Q)
<1>1. Rated(matured, v, P)
    BY DEF Sound
<1>2. Rated(matured, w, Q)
    BY <1>1 DEF Rated
<1> DEFINE f == [q \in Positions |-> ParValue(P[q])]
           g == [q \in Positions |-> ParValue(Q[q])]
           h == [q \in Positions |-> Rise(v, P[q])]
           k == [q \in Positions |-> Rise(w, Q[q])]
<1>3. f = g
    BY DEF ParValue
<1>4. h = k
    BY DEF Rise
<1>5. SumOfPar(P) = SumOfPar(Q) /\ SumOfRise(v, P) = SumOfRise(w, Q)
    BY <1>3, <1>4 DEF SumOfPar, SumOfRise
<1> QED BY <1>2, <1>5 DEF Sound, CoversYt, CoversPt

(* Balances and YT may move without touching a rate.                       *)
LEMMA RatedStill ==
    ASSUME NEW matured, NEW v, NEW P, Rated(matured, v, P),
           NEW w \in VaultRecord, w.last = v.last, w.ath = v.ath, w.final = v.final,
           NEW Q \in [Positions -> PositionRecord],
           \A q \in Positions : /\ Q[q].index = P[q].index
                                /\ Q[q].yt > 0 => P[q].index > 0
    PROVE  Rated(matured, w, Q)
    BY DEF Rated

(* Settling a position.                                                    *)
LEMMA SettlesSoundly ==
    ASSUME ExactRates, NEW matured \in BOOLEAN, NEW v, NEW P, Sound(matured, v, P),
           NEW x \in Positions, v.final > 0, v.last > 0
    PROVE  Sound(matured, EarnVault(v, P[x]), [P EXCEPT ![x] = EarnPosition(v, P[x])])
<1> DEFINE w == EarnVault(v, P[x])
           p == EarnPosition(v, P[x])
           Q == [P EXCEPT ![x] = p]
<1>1. /\ Rated(matured, v, P)
      /\ v \in VaultRecord /\ P \in [Positions -> PositionRecord] /\ P[x] \in PositionRecord
    BY DEF Sound, Rated
<1>2. PICK e \in Nat : e = SyInterest(v, P[x])
    BY <1>1, EarnTypes
<1>3. /\ w \in VaultRecord /\ p \in PositionRecord
      /\ w = [v EXCEPT !.uncollected = @ + e]
    BY <1>1, <1>2, EarnTypes
<1>4. /\ p.yt = P[x].yt
      /\ p.index = IF EmergencyMode(v) THEN P[x].index ELSE v.final
    BY <1>1, EarnFields
<1>5. /\ Q \in [Positions -> PositionRecord] /\ Q[x] = p
      /\ \A q \in Positions \ {x} : Q[q] = P[q]
    BY <1>1, <1>3
<1> HIDE DEF w, p, Q
<1>6. /\ w.last = v.last /\ w.final = v.final /\ w.ath = v.ath /\ w.pts = v.pts
      /\ w.total = v.total /\ w.treasury = v.treasury
      /\ w.uncollected = v.uncollected + e
    BY <1>1, <1>3 DEF VaultRecord
<1>7. Rated(matured, w, Q)
    <2>1. ASSUME NEW q \in Positions
          PROVE  /\ Q[q].index \in Rates \cup {0}
                 /\ Q[q].index <= v.ath
                 /\ Q[q].yt > 0 => Q[q].index > 0
                 /\ ~RateMayFall => Q[q].index <= v.final
        <3>1. CASE q # x \/ p.index = P[x].index
            BY <1>1, <1>4, <1>5, <3>1 DEF Rated
        <3>2. CASE q = x /\ p.index = v.final
            <4>1. Q[q].index = v.final
                BY <1>5, <3>2
            <4>2. /\ v.final \in Rates \cup {0} /\ v.final <= v.ath /\ v.final \in Nat
                BY <1>1 DEF Rated, VaultRecord
            <4> QED BY ONLY <4>1, <4>2, v.final > 0
        <3> QED BY <1>4, <3>1, <3>2
    <2> QED BY <1>1, <1>3, <1>5, <1>6, <2>1 DEF Rated
<1>8. Free(w) = Free(v) - e /\ Free(v) \in Int /\ ONE \in Nat \ {0}
    BY <1>1, <1>6, SoundNumbers, ONEAssumption DEF Free
<1>9. /\ SumOfPar(Q) + ParValue(P[x]) = SumOfPar(P) + ParValue(p)
      /\ SumOfRise(v, Q) + Rise(v, P[x]) = SumOfRise(v, P) + Rise(v, p)
    <2>1. \A q \in Positions \ {x} : Q[q].yt = P[q].yt /\ Q[q].index = P[q].index
        BY <1>5
    <2> QED BY <1>1, <1>5, <2>1, ValueMoves
<1>10. /\ SumOfPar(Q) \in Nat /\ SumOfPar(P) \in Nat
       /\ SumOfRise(v, Q) \in Nat /\ SumOfRise(v, P) \in Nat
       /\ ParValue(P[x]) \in Nat /\ ParValue(p) \in Nat
       /\ Rise(v, P[x]) \in Nat /\ Rise(v, p) \in Nat
    BY <1>1, <1>3, <1>5, SumsOfValues, ValuesNat
<1>11. ASSUME ~matured PROVE CoversYt(w, Q)
    <2>1. e * ONE + ParValue(p) <= ParValue(P[x])
        BY <1>1, <1>2, <1>11, SettlesPar DEF Rated, p
    <2>2. SumOfPar(P) <= Free(v) * ONE
        BY <1>11 DEF Sound, CoversYt
    <2>3. (Free(v) - e) * ONE = Free(v) * ONE - e * ONE
        BY <1>8
    <2>4. e * ONE \in Int /\ Free(v) * ONE \in Int
        BY <1>8
    <2>5. SumOfPar(Q) <= Free(v) * ONE - e * ONE
        BY ONLY <1>9, <1>10, <2>1, <2>2, <2>4
    <2> QED BY <1>8, <2>3, <2>5 DEF CoversYt
<1>12. ASSUME matured, ~RateMayFall PROVE CoversPt(w, Q)
    <2>1. ~EmergencyMode(v) /\ v.final <= v.last /\ P[x].index <= v.final
        BY <1>1, <1>12, SoundNumbers DEF Rated, EmergencyMode
    <2>2. v.last \in Rates /\ v.final \in Rates \ {0} /\ v.last \in Nat /\ v.final \in Nat
        BY <1>1, SoundNumbers DEF Rated
    <2>3. NumDiv(v.final, v.last) * v.last <= v.final * ONE
        BY <2>1, <2>2 DEF ExactRates
    <2>4. (e * v.last) * ONE <= Rise(v, P[x]) * v.final /\ Rise(v, p) = 0
        BY <1>1, <1>2, <2>1, <2>3, SettlesRise DEF p
    <2>5. SumOfRise(w, Q) = SumOfRise(v, Q)
        BY <1>6, SameFinal
    <2>6. v.pts * (ONE * ONE) + SumOfRise(v, P) * v.final <= (Free(v) * v.last) * ONE
        BY <1>12 DEF Sound, CoversPt
    <2>7. SumOfRise(v, Q) * v.final + Rise(v, P[x]) * v.final = SumOfRise(v, P) * v.final
        <3>1. SumOfRise(v, Q) + Rise(v, P[x]) = SumOfRise(v, P)
            BY ONLY <1>9, <1>10, <2>4
        <3>2. (SumOfRise(v, Q) + Rise(v, P[x])) * v.final
                = SumOfRise(v, Q) * v.final + Rise(v, P[x]) * v.final
            BY ONLY <1>10, <2>2
        <3> QED BY <3>1, <3>2
    <2>8. ((Free(v) - e) * v.last) * ONE = (Free(v) * v.last) * ONE - (e * v.last) * ONE
        BY ONLY <1>2, <1>8, <2>2
    <2>9. /\ v.pts * (ONE * ONE) \in Int /\ (Free(v) * v.last) * ONE \in Int
          /\ (e * v.last) * ONE \in Int
          /\ SumOfRise(v, Q) * v.final \in Int /\ Rise(v, P[x]) * v.final \in Int
        BY <1>1, <1>8, <1>10, <2>2, SoundNumbers
    <2>10. v.pts * (ONE * ONE) + SumOfRise(v, Q) * v.final
            <= (Free(v) * v.last) * ONE - (e * v.last) * ONE
        BY ONLY <2>4, <2>6, <2>7, <2>9
    <2> QED BY <1>6, <1>8, <2>5, <2>8, <2>10 DEF CoversPt
<1> QED BY <1>7, <1>11, <1>12 DEF Sound, w, p, Q

(* Recomputing the backing of PT.                                          *)
LEMMA BackedSoundly ==
    ASSUME NEW matured \in BOOLEAN, NEW v, NEW P, Sound(matured, v, P)
    PROVE  Sound(matured, SetSyForPt(v), P)
<1> DEFINE w == SetSyForPt(v)
<1>1. v \in VaultRecord /\ Rated(matured, v, P)
    BY DEF Sound, Rated
<1>2. /\ w \in VaultRecord /\ w.last = v.last /\ w.final = v.final /\ w.ath = v.ath
      /\ w.pts = v.pts /\ w.total = v.total /\ w.treasury = v.treasury
      /\ w.uncollected = v.uncollected
    BY <1>1, SetSyForPtType DEF VaultRecord
<1> HIDE DEF w
<1>3. Free(w) = Free(v) /\ SumOfRise(w, P) = SumOfRise(v, P)
    BY <1>2, SameFinal DEF Free
<1>4. Rated(matured, w, P)
    BY <1>1, <1>2 DEF Rated
<1> QED BY <1>2, <1>3, <1>4 DEF Sound, CoversYt, CoversPt, w

(* Stripping at the last rate.                                             *)
LEMMA StripsSoundly ==
    ASSUME ExactRates, NEW matured \in BOOLEAN, ~matured, NEW v, NEW P,
           Sound(matured, v, P), v.last > 0, P[Robot].index = v.last, NEW n \in Nat,
           NEW w \in VaultRecord, w.last = v.last, w.ath = v.ath, w.final = v.final,
           w.treasury = v.treasury, w.uncollected = v.uncollected,
           w.total = v.total + n,
           NEW Q \in [Positions -> PositionRecord],
           Q[Robot].yt = P[Robot].yt + SyToPy(v.last, n),
           Q[Robot].index = P[Robot].index,
           \A q \in Positions \ {Robot} : Q[q] = P[q]
    PROVE  Sound(matured, w, Q)
<1>1. /\ Rated(matured, v, P) /\ v \in VaultRecord
      /\ P \in [Positions -> PositionRecord] /\ Robot \in Positions
    BY PositionsFinite DEF Sound, Rated
<1>2. /\ v.last \in Rates \ {0} /\ v.last \in Nat \ {0} /\ Free(v) \in Int
      /\ SumOfPar(P) \in Nat
    <2>1. v.last \in Nat /\ Free(v) \in Int /\ SumOfPar(P) \in Nat
        BY <1>1, SoundNumbers
    <2>2. v.last \in Rates \cup {0}
        BY <1>1 DEF Rated
    <2> QED BY ONLY <2>1, <2>2, v.last > 0
<1>3. /\ P[Robot] \in PositionRecord /\ Q[Robot] \in PositionRecord
      /\ P[Robot].yt \in Nat
    BY <1>1, SoundNumbers
<1>4. Rated(matured, w, Q)
    <2>1. ASSUME NEW q \in Positions
          PROVE  Q[q].index = P[q].index /\ (Q[q].yt > 0 => P[q].index > 0)
        <3>1. CASE q = Robot
            BY <3>1
        <3>2. CASE q # Robot
            BY <1>1, <3>2 DEF Rated
        <3> QED BY <3>1, <3>2
    <2> QED BY <1>1, <2>1, RatedStill
<1>5. PICK d \in Nat : d = NumDiv(ONE, v.last) /\ d * v.last = ONE * ONE
    BY <1>2, ReciprocalFalls DEF ExactRates
<1>6. PICK py \in Nat : py = SyToPy(v.last, n) /\ d * py <= n * ONE
    BY <1>2, <1>5, StripStandsFor
<1>7. ParValue(P[Robot]) = d * P[Robot].yt /\ ParValue(Q[Robot]) = d * (P[Robot].yt + py)
    BY <1>3, <1>5, <1>6, ParValueIs
<1>8. SumOfPar(Q) + ParValue(P[Robot]) = SumOfPar(P) + ParValue(Q[Robot])
      /\ SumOfPar(Q) \in Nat
    BY <1>1, ValueMoves, SumsOfValues
<1>9. SumOfPar(Q) = SumOfPar(P) + d * py
    <2>1. PICK y \in Nat : y = P[Robot].yt
        BY <1>3
    <2>2. d * (y + py) = d * y + d * py /\ d * y \in Nat /\ d * py \in Nat
        BY ONLY d \in Nat, y \in Nat, py \in Nat
    <2>3. SumOfPar(Q) + d * y = SumOfPar(P) + (d * y + d * py)
        BY ONLY <1>7, <1>8, <2>1, <2>2
    <2> QED BY ONLY <1>2, <1>8, <2>2, <2>3
<1>10. Free(w) = Free(v) + n /\ ONE \in Nat
    <2>1. v.total \in Nat /\ v.treasury \in Nat /\ v.uncollected \in Nat
        BY <1>1, SoundNumbers
    <2> QED BY ONLY <2>1, n \in Nat, w.total = v.total + n, w.treasury = v.treasury,
               w.uncollected = v.uncollected, ONEAssumption DEF Free
<1>11. CoversYt(w, Q)
    <2>1. SumOfPar(P) <= Free(v) * ONE
        BY DEF Sound, CoversYt
    <2>2. (Free(v) + n) * ONE = Free(v) * ONE + n * ONE
          /\ Free(v) * ONE \in Int /\ n * ONE \in Int /\ d * py \in Int
        BY ONLY <1>2, <1>5, <1>6, <1>10, n \in Nat
    <2>3. SumOfPar(Q) <= (Free(v) + n) * ONE
        BY ONLY <1>2, <1>6, <1>9, <2>1, <2>2
    <2> QED BY <1>10, <2>3 DEF CoversYt
<1> QED BY <1>4, <1>11 DEF Sound

(* Merging n PT for no more SY than they are worth at par, with their YT   *)
(* until maturity.                                                         *)
LEMMA MergesSoundly ==
    ASSUME ExactRates, NEW matured \in BOOLEAN, NEW v, NEW P,
           Sound(matured, v, P), v.last > 0, ~matured => P[Robot].index = v.last,
           NEW n \in Nat, NEW out \in Nat, out * v.last <= n * ONE,
           NEW w \in VaultRecord, w.last = v.last, w.ath = v.ath, w.final = v.final,
           w.treasury = v.treasury, w.uncollected = v.uncollected,
           w.total = v.total - out, w.pts = v.pts - n,
           NEW Q \in [Positions -> PositionRecord],
           Q[Robot].yt = P[Robot].yt - IF matured THEN 0 ELSE n,
           Q[Robot].index = P[Robot].index,
           \A q \in Positions \ {Robot} : Q[q] = P[q]
    PROVE  Sound(matured, w, Q)
<1>1. /\ Rated(matured, v, P) /\ v \in VaultRecord
      /\ P \in [Positions -> PositionRecord] /\ Robot \in Positions
    BY PositionsFinite DEF Sound, Rated
<1>2. /\ v.last \in Rates \ {0} /\ v.last \in Nat \ {0} /\ v.last \in Nat
      /\ v.final \in Nat /\ v.pts \in Nat /\ Free(v) \in Int
      /\ SumOfPar(P) \in Nat /\ SumOfRise(v, P) \in Nat
    <2>1. /\ v.last \in Nat /\ Free(v) \in Int /\ SumOfPar(P) \in Nat
          /\ v.final \in Nat /\ v.pts \in Nat /\ SumOfRise(v, P) \in Nat
        BY <1>1, SoundNumbers
    <2>2. v.last \in Rates \cup {0}
        BY <1>1 DEF Rated
    <2> QED BY ONLY <2>1, <2>2, v.last > 0
<1>3. /\ P[Robot] \in PositionRecord /\ Q[Robot] \in PositionRecord
      /\ P[Robot].yt \in Nat /\ Q[Robot].yt \in Nat
    BY <1>1, SoundNumbers DEF PositionRecord
<1>4. Rated(matured, w, Q)
    <2>1. ASSUME NEW q \in Positions
          PROVE  Q[q].index = P[q].index /\ (Q[q].yt > 0 => P[q].index > 0)
        <3>1. CASE q = Robot
            <4>1. Q[Robot].yt <= P[Robot].yt
                BY <1>3
            <4>2. P[Robot].yt > 0 => P[Robot].index > 0
                BY <1>1 DEF Rated
            <4>3. Q[Robot].yt > 0 => P[Robot].yt > 0
                BY ONLY <1>3, <4>1
            <4> QED BY <3>1, <4>2, <4>3
        <3>2. CASE q # Robot
            BY <1>1, <3>2 DEF Rated
        <3> QED BY <3>1, <3>2
    <2> QED BY <1>1, <2>1, RatedStill
<1>5. Free(w) = Free(v) - out /\ ONE \in Nat
    <2>1. v.total \in Nat /\ v.treasury \in Nat /\ v.uncollected \in Nat
        BY <1>1, SoundNumbers
    <2> QED BY ONLY <2>1, out \in Nat, w.total = v.total - out, w.treasury = v.treasury,
               w.uncollected = v.uncollected, ONEAssumption DEF Free
<1>6. ASSUME ~matured PROVE CoversYt(w, Q)
    <2>1. PICK d \in Nat : d = NumDiv(ONE, v.last) /\ d * v.last = ONE * ONE
        BY <1>2, ReciprocalFalls DEF ExactRates
    <2>2. out * ONE <= d * n
        BY <1>2, <2>1, PaidForStanding
    <2>3. PICK y \in Nat : y = Q[Robot].yt /\ P[Robot].yt = y + n
        BY <1>3, <1>6
    <2>4. ParValue(P[Robot]) = d * (y + n) /\ ParValue(Q[Robot]) = d * y
        BY <1>3, <1>6, <2>1, <2>3, ParValueIs
    <2>5. SumOfPar(Q) + ParValue(P[Robot]) = SumOfPar(P) + ParValue(Q[Robot])
          /\ SumOfPar(Q) \in Nat
        BY <1>1, ValueMoves, SumsOfValues
    <2>6. d * (y + n) = d * y + d * n /\ d * y \in Nat /\ d * n \in Nat
        OBVIOUS
    <2>7. SumOfPar(P) <= Free(v) * ONE
        BY <1>6 DEF Sound, CoversYt
    <2>8. (Free(v) - out) * ONE = Free(v) * ONE - out * ONE
          /\ Free(v) * ONE \in Int /\ out * ONE \in Int
        BY ONLY <1>2, <1>5, out \in Nat
    <2>9. SumOfPar(Q) <= (Free(v) - out) * ONE
        BY ONLY <1>2, <2>2, <2>4, <2>5, <2>6, <2>7, <2>8
    <2> QED BY <1>5, <2>9 DEF CoversYt
<1>7. ASSUME matured, ~RateMayFall PROVE CoversPt(w, Q)
    <2>1. \A q \in Positions : Q[q].yt = P[q].yt /\ Q[q].index = P[q].index
        BY <1>3, <1>7
    <2>2. SumOfRise(w, Q) = SumOfRise(v, P)
        <3>1. SumOfRise(v, Q) + Rise(v, P[Robot]) = SumOfRise(v, P) + Rise(v, Q[Robot])
            BY <1>1, <2>1, ValueMoves
        <3>2. Rise(v, Q[Robot]) = Rise(v, P[Robot])
            BY <1>1, <2>1 DEF Rise
        <3>3. SumOfRise(v, Q) \in Nat /\ Rise(v, P[Robot]) \in Nat
            BY <1>1, <1>3, SumsOfValues, ValuesNat
        <3>4. SumOfRise(w, Q) = SumOfRise(v, Q)
            BY SameFinal
        <3> QED BY ONLY <1>2, <3>1, <3>2, <3>3, <3>4
    <2>3. v.pts * (ONE * ONE) + SumOfRise(v, P) * v.final <= (Free(v) * v.last) * ONE
        BY <1>7 DEF Sound, CoversPt
    <2>4. (out * v.last) * ONE <= (n * ONE) * ONE
        <3>1. out * v.last \in Int /\ n * ONE \in Int
            BY ONLY <1>2, <1>5, n \in Nat, out \in Nat
        <3> QED BY ONLY <1>5, <3>1, out * v.last <= n * ONE, Scaled
    <2>5. /\ ((Free(v) - out) * v.last) * ONE
                = (Free(v) * v.last) * ONE - (out * v.last) * ONE
          /\ (v.pts - n) * (ONE * ONE) = v.pts * (ONE * ONE) - (n * ONE) * ONE
        BY ONLY <1>2, <1>5, n \in Nat, out \in Nat
    <2>6. /\ (Free(v) * v.last) * ONE \in Int /\ (out * v.last) * ONE \in Int
          /\ v.pts * (ONE * ONE) \in Int /\ (n * ONE) * ONE \in Int
          /\ SumOfRise(v, P) * v.final \in Int
        BY ONLY <1>2, <1>5, n \in Nat, out \in Nat
    <2>7. (v.pts - n) * (ONE * ONE) + SumOfRise(v, P) * v.final
            <= ((Free(v) - out) * v.last) * ONE
        BY ONLY <2>3, <2>4, <2>5, <2>6
    <2> QED BY <1>5, <2>2, <2>7 DEF CoversPt
<1> QED BY <1>4, <1>6, <1>7 DEF Sound

(* Before maturity, n YT move from one position to another that has been   *)
(* settled no less far.                                                    *)
LEMMA MovesSoundly ==
    ASSUME NEW matured \in BOOLEAN, ~matured, NEW v, NEW P, Sound(matured, v, P),
           NEW a \in Positions, NEW b \in Positions, a # b, NEW n \in Nat,
           P[a].index <= P[b].index,
           NEW Q \in [Positions -> PositionRecord],
           Q[a].yt = P[a].yt - n, Q[b].yt = P[b].yt + n,
           Q[a].index = P[a].index, Q[b].index = P[b].index,
           \A q \in Positions \ {a, b} : Q[q] = P[q]
    PROVE  Sound(matured, v, Q)
<1>1. /\ Rated(matured, v, P) /\ v \in VaultRecord
      /\ P \in [Positions -> PositionRecord]
    BY DEF Sound, Rated
<1>2. /\ P[a] \in PositionRecord /\ P[b] \in PositionRecord
      /\ Q[a] \in PositionRecord /\ Q[b] \in PositionRecord
      /\ P[a].yt \in Nat /\ P[b].yt \in Nat /\ Q[a].yt \in Nat
      /\ P[a].index \in Nat /\ P[b].index \in Nat
    BY <1>1, SoundNumbers DEF PositionRecord
<1>3. /\ P[a].yt > 0 => P[a].index > 0
      /\ P[b].yt > 0 => P[b].index > 0
    BY <1>1 DEF Rated
<1>4. /\ Q[a].yt > 0 => P[a].index > 0
      /\ Q[b].yt > 0 => P[b].index > 0
    BY ONLY <1>2, <1>3, n \in Nat, Q[a].yt = P[a].yt - n, Q[b].yt = P[b].yt + n,
            P[a].index <= P[b].index
<1>5. Rated(matured, v, Q)
    <2>1. ASSUME NEW q \in Positions
          PROVE  Q[q].index = P[q].index /\ (Q[q].yt > 0 => P[q].index > 0)
        <3>1. CASE q = a \/ q = b
            BY <1>4, <3>1
        <3>2. CASE q # a /\ q # b
            BY <1>1, <3>2 DEF Rated
        <3> QED BY <3>1, <3>2
    <2> QED BY <1>1, <2>1, RatedStill
<1>6. ParValue(Q[a]) + ParValue(Q[b]) <= ParValue(P[a]) + ParValue(P[b])
      /\ ParValue(P[a]) \in Nat /\ ParValue(P[b]) \in Nat
      /\ ParValue(Q[a]) \in Nat /\ ParValue(Q[b]) \in Nat
    <2>1. /\ ParValue(P[a]) \in Nat /\ ParValue(P[b]) \in Nat
          /\ ParValue(Q[a]) \in Nat /\ ParValue(Q[b]) \in Nat
        BY <1>1, <1>2, ValuesNat
    <2>2. CASE n = 0
        <3>1. ParValue(Q[a]) = ParValue(P[a]) /\ ParValue(Q[b]) = ParValue(P[b])
            BY <1>2, <2>2 DEF ParValue
        <3> QED BY ONLY <2>1, <3>1
    <2>3. CASE n # 0
        <3>1. P[a].index \in Nat \ {0} /\ P[b].index \in Nat \ {0}
            BY ONLY <1>2, <1>3, <2>3, n \in Nat, Q[a].yt = P[a].yt - n,
                    P[a].index <= P[b].index
        <3>2. PICK c \in Nat, d \in Nat : /\ c = NumDiv(ONE, P[a].index)
                                          /\ d = NumDiv(ONE, P[b].index)
                                          /\ d <= c
            BY <3>1, ReciprocalFalls
        <3>3. PICK x \in Nat, y \in Nat : x = Q[a].yt /\ P[a].yt = x + n /\ y = P[b].yt
            BY <1>2
        <3>4. ParValue(P[a]) = c * (x + n) /\ ParValue(P[b]) = d * y
            <4>1. P[a].index > 0 /\ P[b].index > 0
                BY <3>1
            <4>2. ParValue(P[a]) = c * P[a].yt /\ ParValue(P[b]) = d * P[b].yt
                BY ONLY <1>2, <3>2, <4>1, ParValueIs
            <4> QED BY <3>3, <4>2
        <3>5. ParValue(Q[a]) = c * x
            <4>1. Q[a].index > 0 /\ Q[a].index = P[a].index
                BY <3>1
            <4> QED BY <1>2, <3>2, <3>3, <4>1, ParValueIs
        <3>6. ParValue(Q[b]) = d * (y + n)
            <4>1. Q[b].index > 0 /\ Q[b].index = P[b].index /\ Q[b].yt = y + n
                BY <3>1, <3>3
            <4> QED BY <1>2, <3>2, <4>1, ParValueIs
        <3>7. c * (x + n) = c * x + c * n /\ d * (y + n) = d * y + d * n
              /\ c * x \in Nat /\ c * n \in Nat /\ d * y \in Nat /\ d * n \in Nat
            BY ONLY n \in Nat, c \in Nat, d \in Nat, x \in Nat, y \in Nat
        <3>8. d * n <= c * n
            <4>1. d \in Int /\ c \in Int /\ d <= c
                BY <3>2
            <4> QED BY ONLY n \in Nat, <4>1, Scaled
        <3> QED BY ONLY <2>1, <3>4, <3>5, <3>6, <3>7, <3>8
    <2> QED BY <2>1, <2>2, <2>3
<1> DEFINE M == [P EXCEPT ![a] = Q[a]]
<1>7. /\ M \in [Positions -> PositionRecord] /\ M[a] = Q[a] /\ M[b] = P[b]
      /\ \A q \in Positions \ {a} : M[q].yt = P[q].yt /\ M[q].index = P[q].index
      /\ \A q \in Positions \ {b} : Q[q].yt = M[q].yt /\ Q[q].index = M[q].index
    BY <1>1, <1>2
<1> HIDE DEF M
<1>8. SumOfPar(M) + ParValue(P[a]) = SumOfPar(P) + ParValue(Q[a])
    BY <1>1, <1>7, ValueMoves
<1>9. SumOfPar(Q) + ParValue(P[b]) = SumOfPar(M) + ParValue(Q[b])
    BY <1>1, <1>7, ValueMoves
<1>10. SumOfPar(P) \in Nat /\ SumOfPar(M) \in Nat /\ SumOfPar(Q) \in Nat
    BY <1>1, <1>7, SumsOfValues
<1>11. SumOfPar(Q) <= SumOfPar(P)
    BY ONLY <1>6, <1>8, <1>9, <1>10
<1>12. SumOfPar(P) <= Free(v) * ONE /\ Free(v) * ONE \in Int
    <2>1. Free(v) \in Int /\ ONE \in Nat
        BY <1>1, SoundNumbers, ONEAssumption
    <2> QED BY <2>1 DEF Sound, CoversYt
<1>13. CoversYt(v, Q)
    BY ONLY <1>10, <1>11, <1>12 DEF CoversYt
<1> QED BY <1>5, <1>13 DEF Sound

(* At maturity the SY that cover the YT cover the PT and what is due.      *)
LEMMA MaturesSoundly ==
    ASSUME ExactRates, NEW v, NEW P, Sound(FALSE, v, P),
           Total(Positions, [q \in Positions |-> P[q].yt]) = v.pts,
           v.pts > 0 => v.ath > 0
    PROVE  Sound(TRUE, v, P)
<1>1. Rated(FALSE, v, P)
    BY DEF Sound
<1>2. Rated(TRUE, v, P)
    BY <1>1 DEF Rated
<1>3. /\ v.last \in Nat /\ v.final = v.last /\ v.pts \in Nat /\ v.ath \in Nat
      /\ Free(v) \in Int /\ ONE \in Nat
      /\ SumOfPar(P) \in Nat /\ SumOfRise(v, P) \in Nat
    BY <1>1, SoundNumbers, ONEAssumption DEF Rated
<1>4. ASSUME ~RateMayFall, v.last = 0 PROVE CoversPt(v, P)
    <2>1. v.pts = 0
        BY <1>1, <1>3, <1>4 DEF Rated
    <2>2. v.pts * (ONE * ONE) + SumOfRise(v, P) * v.final = 0
          /\ (Free(v) * v.last) * ONE = 0
        BY ONLY <1>3, <1>4, <2>1
    <2> QED BY <2>2 DEF CoversPt
<1>5. ASSUME ~RateMayFall, v.last > 0 PROVE CoversPt(v, P)
    <2>1. v.last \in Rates \ {0} /\ v.last \in Nat \ {0}
        BY <1>1, <1>3, <1>5 DEF Rated
    <2>2. PICK d \in Nat : d = NumDiv(ONE, v.last) /\ d * v.last = ONE * ONE
        BY <2>1, ReciprocalFalls DEF ExactRates
    <2> DEFINE par == [q \in Positions |-> ParValue(P[q])]
               rise == [q \in Positions |-> Rise(v, P[q])]
               yts == [q \in Positions |-> P[q].yt]
               worth == [q \in Positions |-> yts[q] * d]
    <2>3. ASSUME NEW q \in Positions
          PROVE  /\ rise[q] \in Nat /\ yts[q] \in Nat /\ par[q] \in Nat
                 /\ par[q] = rise[q] + worth[q]
        <3>1. /\ P[q] \in PositionRecord /\ P[q].yt \in Nat /\ P[q].index \in Nat
              /\ ParValue(P[q]) \in Nat /\ Rise(v, P[q]) \in Nat
            BY <1>1, SoundNumbers
        <3>2. CASE P[q].yt = 0
            <4>1. ParValue(P[q]) = 0 /\ Rise(v, P[q]) = 0
                BY <3>2 DEF ParValue, Rise
            <4> QED BY ONLY <2>2, <3>1, <3>2, <4>1
        <3>3. CASE P[q].yt # 0
            <4>1. P[q].index \in Nat \ {0} /\ P[q].index <= v.last
                BY <1>1, <1>3, <1>5, <3>1, <3>3 DEF Rated
            <4>2. PICK c \in Nat : c = NumDiv(ONE, P[q].index) /\ d <= c
                BY <2>1, <2>2, <4>1, ReciprocalFalls
            <4>3. PICK y \in Nat : y = P[q].yt
                BY <3>1
            <4>4. ParValue(P[q]) = c * y
                BY <3>1, <4>1, <4>2, <4>3, ParValueIs
            <4>5. Rise(v, P[q]) = (c - d) * y
                <5>1. CASE P[q].index = v.last
                    <6>1. c = d
                        BY <2>2, <4>2, <5>1
                    <6>2. Rise(v, P[q]) = 0
                        BY <1>3, <5>1 DEF Rise
                    <6> QED BY ONLY <6>1, <6>2, c \in Nat, d \in Nat, y \in Nat
                <5>2. CASE P[q].index # v.last
                    <6>1. ~(P[q].index >= v.final)
                        BY <1>3, <4>1, <5>2
                    <6> QED BY <1>3, <2>2, <3>3, <4>1, <4>2, <4>3, <6>1 DEF Rise
                <5> QED BY <5>1, <5>2
            <4>6. c * y = (c - d) * y + y * d
                BY ONLY c \in Nat, d \in Nat, y \in Nat
            <4>7. yts[q] = y
                BY <4>3
            <4> QED BY <3>1, <4>4, <4>5, <4>6, <4>7
        <3> QED BY <3>2, <3>3
    <2>4. \A q \in Positions : worth[q] = yts[q] * d
        OBVIOUS
    <2>5. Total(Positions, yts) = v.pts
        OBVIOUS
    <2>6. Total(Positions, par) <= Free(v) * ONE
        BY DEF Sound, CoversYt, SumOfPar
    <2>7. Total(Positions, rise) = SumOfRise(v, P)
        BY DEF SumOfRise
    <2> HIDE DEF par, rise, yts, worth
    <2>8. \A q \in Positions : worth[q] \in Nat
        BY ONLY <2>3, <2>4, d \in Nat
    <2>9. Total(Positions, worth) = v.pts * d
        <3>1. Total(Positions, worth) = Total(Positions, yts) * d
            BY ONLY <2>3, <2>4, d \in Nat, TotalTimes, PositionsFinite
        <3> QED BY <2>5, <3>1
    <2>10. Total(Positions, par) = Total(Positions, rise) + Total(Positions, worth)
        <3>1. \A q \in Positions : rise[q] \in Nat /\ worth[q] \in Nat
                                   /\ par[q] = rise[q] + worth[q]
            BY <2>3, <2>8
        <3> QED BY ONLY <3>1, TotalPlus, PositionsFinite
    <2>11. PICK s \in Nat : s = SumOfRise(v, P)
        BY <1>3
    <2>12. s + v.pts * d <= Free(v) * ONE
        BY <2>6, <2>7, <2>9, <2>10, <2>11
    <2>13. (s + v.pts * d) * v.last <= (Free(v) * ONE) * v.last
        <3>1. s + v.pts * d \in Int /\ Free(v) * ONE \in Int
            BY ONLY <1>3, s \in Nat, d \in Nat
        <3> QED BY ONLY <1>3, <2>12, <3>1, Scaled
    <2>14. (s + v.pts * d) * v.last = v.pts * (d * v.last) + s * v.last
        BY ONLY <1>3, s \in Nat, d \in Nat
    <2>15. (Free(v) * ONE) * v.last = (Free(v) * v.last) * ONE
        BY ONLY <1>3
    <2>16. v.pts * (ONE * ONE) + s * v.last <= (Free(v) * v.last) * ONE
        BY ONLY <2>2, <2>13, <2>14, <2>15
    <2> QED BY <1>3, <2>11, <2>16 DEF CoversPt
<1>6. v.last = 0 \/ v.last > 0
    BY <1>3
<1> QED BY <1>2, <1>4, <1>5, <1>6 DEF Sound

-----------------------------------------------------------------------------
(* A sound vault is solvent, and its PT are backed at par.                 *)

(* The interest of all positions and the PT at par, if the vault is sound. *)
LEMMA SoundSolvent ==
    ASSUME ExactRates, NEW matured \in BOOLEAN, NEW v, NEW P, Sound(matured, v, P),
           v.last > 0, v.final > 0, ~EmergencyMode(v), matured => ~RateMayFall,
           ~matured => Total(Positions, [q \in Positions |-> P[q].yt]) = v.pts
    PROVE  PyToSy(v.last, v.pts)
             + Total(Positions, [q \in Positions |-> SyInterest(v, P[q])]) <= Free(v)
<1> DEFINE interest == [q \in Positions |-> SyInterest(v, P[q])]
           par == [q \in Positions |-> ParValue(P[q])]
           rise == [q \in Positions |-> Rise(v, P[q])]
           yts == [q \in Positions |-> P[q].yt]
           b == PyToSy(v.last, v.pts)
           I == Total(Positions, interest)
<1>1. /\ Rated(matured, v, P) /\ v \in VaultRecord
      /\ P \in [Positions -> PositionRecord]
    BY DEF Sound, Rated
<1>2. /\ v.last \in Nat \ {0} /\ v.last \in Nat /\ v.final \in Nat \ {0} /\ v.final \in Nat
      /\ v.pts \in Nat /\ v.last \in Rates \ {0} /\ v.final \in Rates \ {0}
      /\ Free(v) \in Int /\ ONE \in Nat \ {0} /\ ONE \in Nat
    <2>1. v.last \in Nat /\ v.final \in Nat /\ v.pts \in Nat /\ Free(v) \in Int
        BY <1>1, SoundNumbers
    <2>2. v.last \in Rates \cup {0} /\ v.final \in Rates \cup {0}
        BY <1>1 DEF Rated
    <2> QED BY ONLY <2>1, <2>2, v.last > 0, v.final > 0, ONEAssumption
<1>3. b \in Nat /\ b * v.last <= v.pts * ONE
    BY <1>2, ConvertedAtPar
<1>4. \A q \in Positions : /\ interest[q] \in Nat /\ par[q] \in Nat /\ rise[q] \in Nat
                           /\ yts[q] \in Nat /\ P[q] \in PositionRecord
                           /\ P[q].index \in Nat
    BY <1>1, EarnTypes, SoundNumbers
<1>5. I \in Nat
    BY <1>4, TotalNat, PositionsFinite
<1>6. CASE ~matured
    <2>1. PICK d \in Nat : d = NumDiv(ONE, v.last) /\ d * v.last = ONE * ONE
        BY <1>2, ReciprocalFalls DEF ExactRates
    <2> DEFINE scaled == [q \in Positions |-> interest[q] * ONE]
               worth == [q \in Positions |-> yts[q] * d]
               both == [q \in Positions |-> scaled[q] + worth[q]]
    <2>2. ASSUME NEW q \in Positions PROVE both[q] <= par[q]
        <3>1. SyInterest(v, P[q]) * ONE + ParValue(EarnPosition(v, P[q])) <= ParValue(P[q])
            BY <1>1, <1>2, <1>4, <1>6, SettlesPar DEF Rated
        <3>2. ParValue(EarnPosition(v, P[q])) = P[q].yt * d
            <4>1. EarnPosition(v, P[q]).yt = P[q].yt
                  /\ EarnPosition(v, P[q]).index = v.last
                BY <1>1, <1>4, <1>6, EarnFields DEF Rated
            <4>2. CASE P[q].yt = 0
                <5>1. ParValue(EarnPosition(v, P[q])) = 0
                    BY <4>1, <4>2 DEF ParValue
                <5> QED BY ONLY <4>2, <5>1, d \in Nat
            <4>3. CASE P[q].yt # 0
                <5>1. ParValue(EarnPosition(v, P[q])) = d * P[q].yt
                    BY <1>2, <2>1, <4>1, <4>3 DEF ParValue
                <5>2. P[q].yt \in Nat
                    BY <1>4
                <5> QED BY ONLY <5>1, <5>2, d \in Nat
            <4> QED BY <4>2, <4>3
        <3> QED BY <3>1, <3>2
    <2>3. Total(Positions, yts) = v.pts
        BY <1>6
    <2>4. Total(Positions, par) <= Free(v) * ONE
        BY <1>6 DEF Sound, CoversYt, SumOfPar
    <2>5. \A q \in Positions : scaled[q] = interest[q] * ONE /\ worth[q] = yts[q] * d
                               /\ both[q] = scaled[q] + worth[q]
        OBVIOUS
    <2> HIDE DEF scaled, worth, both, interest, par, yts
    <2>6. \A q \in Positions : scaled[q] \in Nat /\ worth[q] \in Nat /\ both[q] \in Nat
        BY ONLY <1>2, <1>4, <2>5, d \in Nat
    <2>7. Total(Positions, scaled) = I * ONE
        <3>1. \A q \in Positions : interest[q] \in Nat /\ scaled[q] = interest[q] * ONE
            BY <1>4, <2>5
        <3> QED BY ONLY <1>2, <3>1, TotalTimes, PositionsFinite
    <2>8. Total(Positions, worth) = v.pts * d
        <3>1. \A q \in Positions : yts[q] \in Nat /\ worth[q] = yts[q] * d
            BY <1>4, <2>5
        <3>2. Total(Positions, worth) = Total(Positions, yts) * d
            BY ONLY <3>1, d \in Nat, TotalTimes, PositionsFinite
        <3> QED BY <2>3, <3>2
    <2>9. Total(Positions, both) = I * ONE + v.pts * d
        <3>1. \A q \in Positions : scaled[q] \in Nat /\ worth[q] \in Nat
                                   /\ both[q] = scaled[q] + worth[q]
            BY <2>5, <2>6
        <3>2. Total(Positions, both) = Total(Positions, scaled) + Total(Positions, worth)
            BY ONLY <3>1, TotalPlus, PositionsFinite
        <3> QED BY <2>7, <2>8, <3>2
    <2>10. Total(Positions, both) <= Total(Positions, par)
        <3>1. \A q \in Positions : both[q] \in Nat /\ par[q] \in Nat /\ both[q] <= par[q]
            BY <1>4, <2>2, <2>6
        <3> QED BY ONLY <3>1, TotalMonotone, PositionsFinite
    <2>11. Total(Positions, par) \in Nat
        BY <1>4, TotalNat, PositionsFinite
    <2>12. b * ONE <= d * v.pts
        BY ONLY <1>2, <1>3, <2>1, PaidForStanding
    <2> HIDE DEF b, I
    <2>13. (b + I) * ONE <= Free(v) * ONE
        <3>1. (b + I) * ONE = b * ONE + I * ONE /\ d * v.pts = v.pts * d
            BY ONLY <1>2, <1>3, <1>5, d \in Nat
        <3>2. b * ONE \in Int /\ I * ONE \in Int /\ v.pts * d \in Int /\ Free(v) * ONE \in Int
            BY ONLY <1>2, <1>3, <1>5, d \in Nat
        <3> QED BY ONLY <2>4, <2>9, <2>10, <2>11, <2>12, <3>1, <3>2
    <2>14. b + I \in Int
        BY <1>3, <1>5
    <2>15. b + I <= Free(v)
        BY ONLY <1>2, <2>13, <2>14, Cancel
    <2> QED BY <2>15 DEF b, I, interest
<1>7. CASE matured
    <2> DEFINE k == v.last * ONE
               scaled == [q \in Positions |-> interest[q] * k]
               due == [q \in Positions |-> rise[q] * v.final]
    <2>1. k \in Nat \ {0} /\ k \in Nat
        BY <1>2
    <2>2. v.final <= v.last
        BY <1>1, <1>7, SoundNumbers DEF Rated
    <2>3. NumDiv(v.final, v.last) * v.last <= v.final * ONE
        BY <1>2, <2>2 DEF ExactRates
    <2>4. ASSUME NEW q \in Positions PROVE scaled[q] <= due[q]
        <3>1. P[q].index <= v.final
            BY <1>1, <1>7 DEF Rated
        <3>2. (SyInterest(v, P[q]) * v.last) * ONE <= Rise(v, P[q]) * v.final
            BY <1>1, <1>2, <1>4, <2>2, <2>3, <3>1, SettlesRise
        <3>3. SyInterest(v, P[q]) \in Nat
            BY <1>4
        <3>4. (SyInterest(v, P[q]) * v.last) * ONE = SyInterest(v, P[q]) * k
            BY ONLY <1>2, <3>3
        <3> QED BY <3>2, <3>4
    <2>5. v.pts * (ONE * ONE) + Total(Positions, rise) * v.final <= (Free(v) * v.last) * ONE
        BY <1>7 DEF Sound, CoversPt, SumOfRise
    <2>6. \A q \in Positions : scaled[q] = interest[q] * k /\ due[q] = rise[q] * v.final
        OBVIOUS
    <2>7. (Free(v) * v.last) * ONE = Free(v) * k
        BY ONLY <1>2
    <2>8. (b * v.last) * ONE = b * k /\ (v.pts * ONE) * ONE = v.pts * (ONE * ONE)
        BY ONLY <1>2, <1>3
    <2> HIDE DEF scaled, due, interest, rise, k
    <2>9. \A q \in Positions : scaled[q] \in Nat /\ due[q] \in Nat
        BY ONLY <1>2, <1>4, <2>1, <2>6
    <2>10. Total(Positions, scaled) = I * k
        <3>1. \A q \in Positions : interest[q] \in Nat /\ scaled[q] = interest[q] * k
            BY <1>4, <2>6
        <3> QED BY ONLY <2>1, <3>1, TotalTimes, PositionsFinite
    <2>11. Total(Positions, due) = Total(Positions, rise) * v.final
        <3>1. \A q \in Positions : rise[q] \in Nat /\ due[q] = rise[q] * v.final
            BY <1>4, <2>6
        <3> QED BY ONLY <1>2, <3>1, TotalTimes, PositionsFinite
    <2>12. Total(Positions, scaled) <= Total(Positions, due)
        <3>1. \A q \in Positions : scaled[q] \in Nat /\ due[q] \in Nat /\ scaled[q] <= due[q]
            BY <2>4, <2>9
        <3> QED BY ONLY <3>1, TotalMonotone, PositionsFinite
    <2>13. Total(Positions, due) \in Nat
        BY <2>9, TotalNat, PositionsFinite
    <2> HIDE DEF b, I
    <2>14. (b * v.last) * ONE <= (v.pts * ONE) * ONE
        <3>1. b * v.last \in Int /\ v.pts * ONE \in Int
            BY ONLY <1>2, <1>3
        <3> QED BY ONLY <1>2, <1>3, <3>1, Scaled
    <2>15. (b + I) * k <= Free(v) * k
        <3>1. (b + I) * k = b * k + I * k
            BY ONLY <1>3, <1>5, <2>1
        <3>2. b * k \in Int /\ I * k \in Int /\ Free(v) * k \in Int
              /\ v.pts * (ONE * ONE) \in Int
            BY ONLY <1>2, <1>3, <1>5, <2>1
        <3> QED BY ONLY <2>5, <2>7, <2>8, <2>10, <2>11, <2>12, <2>13, <2>14, <3>1, <3>2
    <2>16. b + I \in Int
        BY <1>3, <1>5
    <2>17. b + I <= Free(v)
        BY ONLY <1>2, <2>1, <2>15, <2>16, Cancel
    <2> QED BY <2>17 DEF b, I, interest
<1> QED BY <1>6, <1>7

(* At par, if the vault is sound: no interest stands in the way.           *)
LEMMA BackedWhenSound ==
    ASSUME ExactRates, NEW matured \in BOOLEAN, NEW v, NEW P, Sound(matured, v, P),
           v.last > 0, v.final > 0, ~EmergencyMode(v), matured => ~RateMayFall,
           ~matured => Total(Positions, [q \in Positions |-> P[q].yt]) = v.pts
    PROVE  SetSyForPt(v).forPt = PyToSy(v.last, v.pts)
<1> DEFINE interest == [q \in Positions |-> SyInterest(v, P[q])]
           b == PyToSy(v.last, v.pts)
<1>1. Rated(matured, v, P) /\ v \in VaultRecord
    BY DEF Sound, Rated
<1>2. b + Total(Positions, interest) <= Free(v)
    BY SoundSolvent
<1>3. \A q \in Positions : interest[q] \in Nat
    BY <1>1, EarnTypes DEF Rated
<1>4. Total(Positions, interest) \in Nat
    <2> HIDE DEF interest
    <2> QED BY <1>3, TotalNat, PositionsFinite
<1>5. b \in Nat /\ v.last # 0
    BY <1>1, ConversionNat DEF VaultRecord
<1>6. Free(v) \in Int
    BY <1>1, SoundNumbers
<1> HIDE DEF interest, b
<1>7. b <= ActiveSy(v)
    <2>1. b <= Free(v) /\ Free(v) >= 0
        BY ONLY <1>2, <1>4, <1>5, <1>6
    <2> QED BY <1>6, <2>1 DEF ActiveSy, Larger, Free
<1>8. SetSyForPt(v).forPt = Smaller(b, ActiveSy(v))
    BY <1>1, <1>5 DEF SetSyForPt, VaultRecord, b
<1> QED BY <1>7, <1>8 DEF Smaller, b

-----------------------------------------------------------------------------
(* The invariant, and what bringing the vault up to date does to it.       *)

(* The inductive invariant of solvency.                                    *)
SolvencyInv ==
    /\ BooksInv /\ PtHaveRate
    /\ sy.rate \in Rates
    /\ ~RateMayFall => vault.ath <= sy.rate
    /\ Sound(IsExpired, vault, pos)
    /\ PtBackedAtPar

(* Until maturity all YT together stand for all PT.                        *)
LEMMA YtStandForPt ==
    ASSUME BooksInv, ~IsExpired
    PROVE  Total(Positions, [q \in Positions |-> pos[q].yt]) = vault.pts
<1> DEFINE f == [q \in Positions |-> pos[q].yt]
           g == [q \in Users |-> pos[q].yt]
<1>1. TypeOK /\ IInv
    BY DEF BooksInv, IInv
<1>2. \A q \in Positions : f[q] \in Nat
    BY <1>1, PositionNumbers
<1>3. f[Robot] = pos[Robot].yt /\ Total(Users, g) = escrowYt
    BY PositionsFinite DEF BooksInv, StakedYtEscrowed
<1>4. Positions \ {Robot} = Users
    BY PositionsFinite DEF Positions
<1>5. \A q \in Users : f[q] = g[q]
    BY PositionsFinite
<1> HIDE DEF f, g
<1>6. Total(Positions, f) = Total(Positions \ {Robot}, f) + f[Robot]
    BY <1>2, TotalSplit, PositionsFinite
<1>7. Total(Users, f) = Total(Users, g)
    BY <1>5, TotalSame
<1>8. now <= StartTs + Duration
    BY <1>1, RatesNat DEF IsExpired
<1>9. /\ wallet.pt = vault.pts /\ wallet.yt = pos[Robot].yt
      /\ wallet.yt + escrowYt = wallet.pt
    BY <1>1, <1>8 DEF IInv, PySupply
<1>10. wallet.yt \in Nat /\ escrowYt \in Nat
    BY <1>1, BalancesNat
<1>11. Total(Positions, f) = vault.pts
    BY <1>3, <1>4, <1>6, <1>7, <1>9, <1>10
<1> QED BY <1>11 DEF f

(* The same after a step.                                                  *)
LEMMA YtStandForPtThen ==
    BooksInv' /\ ~IsExpired'
        => Total(Positions, [q \in Positions |-> pos'[q].yt]) = vault'.pts
<1>1. BooksInv /\ ~IsExpired
        => Total(Positions, [q \in Positions |-> pos[q].yt]) = vault.pts
    BY YtStandForPt
<1>2. (BooksInv /\ ~IsExpired
        => Total(Positions, [q \in Positions |-> pos[q].yt]) = vault.pts)'
    BY <1>1, PTL
<1> QED BY <1>2

(* A handler that synchronises takes over a positive rate, and does so     *)
(* before the start of the term never.                                     *)
LEMMA RateTaken ==
    ASSUME BooksInv, CanSync,
           IsActive \/ sy.rate > 0 \/ ~EmergencyMode(SyncedVault)
    PROVE  /\ sy.rate \in Nat \ {0}
           /\ ~IsExpired => IsActive
           /\ ~IsActive => vault.final > 0 /\ vault.last > 0 /\ vault.ath > 0
<1>1. IInv /\ TypeOK
    BY DEF BooksInv, IInv
<1>2. /\ UpdatedVault.final = IF IsActive THEN sy.rate ELSE vault.final
      /\ SyncedVault.last = sy.rate /\ SyncedVault.ath = Larger(sy.rate, vault.ath)
    BY <1>1, UpdatedVaultFields, SyncedTypes
<1>3. /\ vault.last \in Nat /\ vault.ath \in Nat /\ vault.final \in Nat
      /\ sy.rate \in Nat /\ now \in Nat /\ StartTs \in Nat /\ Duration \in Nat
    BY <1>1, RatesNat
<1>4. UpdatedVault.final > 0
    BY DEF CanSync, FinalRateKnown
<1>5. vault.final <= vault.ath /\ (vault.ath > 0 => vault.last > 0)
    BY <1>1 DEF IInv, RateOrder, ZeroRateNeverRecorded
<1>6. ~IsActive => vault.final > 0 /\ vault.last > 0 /\ vault.ath > 0
    BY <1>2, <1>3, <1>4, <1>5
<1>7. ~IsExpired => IsActive
    <2>1. now < StartTs => vault.final = 0
        BY DEF BooksInv, SettledInOrder, NoRateBeforeStart
    <2>2. ~IsActive => vault.final > 0
        BY <1>6
    <2> QED BY <1>3, <2>1, <2>2 DEF IsActive
<1>8. sy.rate > 0
    <2>1. CASE IsActive
        BY <1>2, <1>4, <2>1
    <2>2. CASE ~IsActive /\ ~EmergencyMode(SyncedVault)
        BY <1>2, <1>3, <1>6, <2>2 DEF EmergencyMode, Larger
    <2> QED BY <2>1, <2>2
<1> QED BY <1>3, <1>6, <1>7, <1>8

(* Taking over the rate of the SY program.                                 *)
LEMMA UpdatesSoundly ==
    ASSUME SolvencyInv, CanSync,
           IsActive \/ sy.rate > 0 \/ ~EmergencyMode(SyncedVault)
    PROVE  /\ Sound(IsExpired, UpdatedVault, pos)
           /\ UpdatedVault.last > 0 /\ UpdatedVault.final > 0
<1> DEFINE w == UpdatedVault
           s == SurplusSy(vault, sy.rate)
<1>1. BooksInv /\ IInv /\ TypeOK /\ Sound(IsExpired, vault, pos)
      /\ Rated(IsExpired, vault, pos) /\ IsExpired \in BOOLEAN
    BY DEF SolvencyInv, BooksInv, IInv, Sound, IsExpired
<1>2. /\ w \in VaultRecord
      /\ w.last = sy.rate
      /\ w.ath = Larger(sy.rate, vault.ath)
      /\ w.final = IF IsActive THEN sy.rate ELSE vault.final
      /\ w.total = vault.total
      /\ w.pts = vault.pts
      /\ w.uncollected = vault.uncollected
      /\ w.treasury = vault.treasury + s
    BY <1>1, UpdatedVaultFields
<1>3. /\ sy.rate \in Nat \ {0} /\ sy.rate \in Nat
      /\ ~IsExpired => IsActive
      /\ ~IsActive => vault.final > 0 /\ vault.last > 0 /\ vault.ath > 0
    BY <1>1, RateTaken
<1>4. sy.rate \in Rates /\ (~RateMayFall => vault.ath <= sy.rate)
    BY DEF SolvencyInv
<1>5. /\ vault.last \in Nat /\ vault.ath \in Nat /\ vault.final \in Nat
      /\ vault.pts \in Nat /\ vault.total \in Nat /\ vault.treasury \in Nat
      /\ vault.uncollected \in Nat /\ Free(vault) \in Int
      /\ SumOfRise(vault, pos) \in Nat /\ SumOfPar(pos) \in Nat
      /\ \A q \in Positions : pos[q].index \in Nat
    BY <1>1, SoundNumbers
<1>6. w.final > 0 /\ w.last > 0
    BY <1>2, <1>3
<1> HIDE DEF w
<1>7. Rated(IsExpired, w, pos)
    <2>1. vault.final \in Rates \cup {0} /\ vault.final <= vault.ath
        BY <1>1 DEF Rated
    <2>2. w.ath \in Nat /\ sy.rate <= w.ath /\ vault.ath <= w.ath
        BY <1>2, <1>3, <1>5 DEF Larger
    <2>3. w.final \in Rates \cup {0} /\ w.final <= w.ath
        <3>1. CASE IsActive
            BY <1>2, <1>4, <2>2, <3>1
        <3>2. CASE ~IsActive
            BY <1>2, <1>5, <2>1, <2>2, <3>2
        <3> QED BY <3>1, <3>2
    <2>4. ~IsExpired => w.final = w.last
        BY <1>2, <1>3
    <2>5. ASSUME ~RateMayFall PROVE w.last = w.ath
        BY <1>2, <1>3, <1>4, <1>5, <2>5 DEF Larger
    <2>6. ASSUME NEW q \in Positions
          PROVE  /\ pos[q].index \in Rates \cup {0} /\ pos[q].index <= w.ath
                 /\ pos[q].yt > 0 => pos[q].index > 0
                 /\ ~RateMayFall => pos[q].index <= w.final
        <3>1. /\ pos[q].index \in Rates \cup {0} /\ pos[q].index <= vault.ath
              /\ pos[q].yt > 0 => pos[q].index > 0
              /\ ~RateMayFall => pos[q].index <= vault.final
            BY <1>1 DEF Rated
        <3>2. pos[q].index <= w.ath
            BY <1>5, <2>2, <3>1
        <3>3. ASSUME ~RateMayFall PROVE pos[q].index <= w.final
            <4>1. CASE IsActive
                BY <1>2, <1>3, <1>4, <1>5, <3>1, <3>3, <4>1
            <4>2. CASE ~IsActive
                BY <1>2, <3>1, <3>3, <4>2
            <4> QED BY <4>1, <4>2
        <3> QED BY <3>1, <3>2, <3>3
    <2>7. pos \in [Positions -> PositionRecord]
        BY <1>1 DEF Rated
    <2> QED BY <1>2, <1>4, <2>2, <2>3, <2>4, <2>5, <2>6, <2>7 DEF Rated
<1>8. ASSUME s = 0 PROVE Free(w) = Free(vault)
    BY <1>2, <1>5, <1>8 DEF Free
<1>9. ASSUME ~IsExpired PROVE CoversYt(w, pos)
    <2>1. s = 0
        BY <1>9 DEF SurplusSy
    <2> QED BY <1>1, <1>8, <1>9, <2>1 DEF Sound, CoversYt
<1>10. ASSUME IsExpired, ~RateMayFall PROVE CoversPt(w, pos)
    <2>1. ~IsActive /\ w.final = vault.final /\ vault.last = vault.ath
        BY <1>1, <1>2, <1>10 DEF IsActive, Rated
    <2>2. vault.last \in Nat \ {0}
        BY <1>3, <1>5, <2>1
    <2>3. vault.pts * (ONE * ONE) + SumOfRise(vault, pos) * vault.final
            <= (Free(vault) * vault.last) * ONE
        BY <1>1, <1>10 DEF Sound, CoversPt
    <2>4. SumOfRise(w, pos) = SumOfRise(vault, pos)
        BY <2>1, SameFinal
    <2>5. CASE ~(sy.rate > vault.ath)
        <3>1. s = 0 /\ sy.rate = vault.last
            BY <1>3, <1>4, <1>5, <1>10, <2>1, <2>5 DEF SurplusSy
        <3>2. Free(w) = Free(vault)
            BY <1>8, <3>1
        <3> QED BY <1>2, <2>1, <2>3, <2>4, <3>1, <3>2 DEF CoversPt
    <2>6. CASE sy.rate > vault.ath
        <3>1. ONE \in Nat \ {0} /\ ONE \in Nat
            BY ONEAssumption
        <3>2. PICK lhs \in Nat : lhs = vault.pts * (ONE * ONE)
                                         + SumOfRise(vault, pos) * vault.final
            BY ONLY <1>5, <3>1
        <3>3. PICK k \in Nat \ {0} : k = vault.last * ONE
            BY ONLY <2>2, <3>1
        <3>4. (Free(vault) * vault.last) * ONE = Free(vault) * k
            BY ONLY <1>5, <3>1, <3>3
        <3>5. Free(vault) >= 0
            <4>1. 0 * k <= Free(vault) * k
                <5>1. lhs <= Free(vault) * k
                    BY <2>3, <3>2, <3>4
                <5>2. 0 * k = 0 /\ Free(vault) * k \in Int
                    BY ONLY <1>5, k \in Nat \ {0}
                <5> QED BY ONLY lhs \in Nat, <5>1, <5>2
            <4>2. 0 \in Int
                OBVIOUS
            <4>3. 0 <= Free(vault)
                BY ONLY <1>5, <3>3, <4>1, <4>2, Cancel
            <4> QED BY ONLY <1>5, <4>3
        <3>6. ActiveSy(vault) = Free(vault) /\ Free(vault) \in Nat
            BY <1>5, <3>5 DEF ActiveSy, Larger, Free
        <3>7. PICK a \in Nat : a = Appreciation(vault.last, sy.rate, Free(vault))
            BY <1>3, <1>5, <3>6, AppreciationNat
        <3>8. s = a
            BY <1>10, <2>6, <3>6, <3>7 DEF SurplusSy
        <3>9. Free(w) = Free(vault) - a
            BY <1>2, <1>5, <3>7, <3>8 DEF Free
        <3>10. Free(vault) * vault.last <= (Free(vault) - a) * sy.rate
            <4>1. vault.last < sy.rate
                BY <1>3, <1>5, <2>1, <2>6
            <4> QED BY <1>3, <1>5, <3>6, <3>7, <4>1, WorthKept
        <3>11. (Free(vault) * vault.last) * ONE <= ((Free(vault) - a) * sy.rate) * ONE
            <4>1. Free(vault) * vault.last \in Int /\ (Free(vault) - a) * sy.rate \in Int
                BY ONLY <1>3, <1>5, <3>7
            <4> QED BY ONLY <3>1, <3>10, <4>1, Scaled
        <3>12. lhs <= ((Free(vault) - a) * sy.rate) * ONE
            <4>1. (Free(vault) * vault.last) * ONE \in Int
                  /\ ((Free(vault) - a) * sy.rate) * ONE \in Int
                BY ONLY <1>3, <1>5, <3>1, <3>7
            <4> QED BY ONLY <2>3, <3>2, <3>11, <4>1
        <3> QED BY <1>2, <2>1, <2>4, <3>2, <3>9, <3>12 DEF CoversPt
    <2> QED BY <2>5, <2>6
<1> QED BY <1>6, <1>7, <1>9, <1>10 DEF Sound, w

(* The vault's own position settles with the update.                       *)
LEMMA SyncsSoundly ==
    ASSUME ExactRates, SolvencyInv, CanSync,
           IsActive \/ sy.rate > 0 \/ ~EmergencyMode(SyncedVault)
    PROVE  /\ Sound(IsExpired, SyncedVault, [pos EXCEPT ![Robot] = SyncedRobot])
           /\ SyncedVault.last > 0 /\ SyncedVault.final > 0
<1>1. TypeOK /\ IsExpired \in BOOLEAN /\ Robot \in Positions
    BY PositionsFinite DEF SolvencyInv, BooksInv, IInv, IsExpired
<1>2. /\ Sound(IsExpired, UpdatedVault, pos)
      /\ UpdatedVault.last > 0 /\ UpdatedVault.final > 0
    BY UpdatesSoundly
<1>3. Sound(IsExpired, EarnVault(UpdatedVault, pos[Robot]),
            [pos EXCEPT ![Robot] = EarnPosition(UpdatedVault, pos[Robot])])
    BY <1>1, <1>2, SettlesSoundly
<1>4. SyncedVault.last = UpdatedVault.last /\ SyncedVault.final = UpdatedVault.final
    BY <1>1, UpdatedVaultFields, SyncedTypes
<1> QED BY <1>2, <1>3, <1>4 DEF SyncedVault, SyncedRobot

(* A user's position settles after it.                                     *)
LEMMA UserSettlesSoundly ==
    ASSUME ExactRates, SolvencyInv, CanSync, NEW u \in Users,
           IsActive \/ sy.rate > 0 \/ ~EmergencyMode(SyncedVault)
    PROVE  /\ Sound(IsExpired, SettledVault(u),
                    [pos EXCEPT ![Robot] = SyncedRobot, ![u] = SettledPosition(u)])
           /\ SettledVault(u).last > 0 /\ SettledVault(u).final > 0
<1> DEFINE P == [pos EXCEPT ![Robot] = SyncedRobot]
<1>1. /\ TypeOK /\ IsExpired \in BOOLEAN /\ Robot \in Positions
      /\ u \in Positions /\ u # Robot /\ pos \in [Positions -> PositionRecord]
    BY PositionsFinite DEF SolvencyInv, BooksInv, IInv, TypeOK, IsExpired
<1>2. /\ Sound(IsExpired, SyncedVault, P)
      /\ SyncedVault.last > 0 /\ SyncedVault.final > 0
    BY SyncsSoundly
<1>3. P[u] = pos[u]
    BY <1>1
<1> HIDE DEF P
<1>4. Sound(IsExpired, EarnVault(SyncedVault, P[u]),
            [P EXCEPT ![u] = EarnPosition(SyncedVault, P[u])])
    BY <1>1, <1>2, SettlesSoundly
<1>5. SettledVault(u).last = SyncedVault.last /\ SettledVault(u).final = SyncedVault.final
    BY <1>1, SettledTypes
<1> QED BY <1>2, <1>3, <1>4, <1>5 DEF SettledVault, SettledPosition, P

(* A synchronising handler whose result, before the backing is recomputed, *)
(* is sound keeps the invariant.                                           *)
LEMMA SolventAfterSync ==
    ASSUME ExactRates, SolvencyInv, BooksInv', PtHaveRate', TakesOverRate,
           sy'.rate = sy.rate, now' = now, sy.rate > 0,
           NEW w, Sound(IsExpired, w, pos'), vault' = SetSyForPt(w),
           w.last > 0, w.final > 0
    PROVE  SolvencyInv'
<1>1. TypeOK /\ IsExpired \in BOOLEAN /\ sy.rate \in Nat /\ vault.ath \in Nat
    BY RatesNat DEF SolvencyInv, BooksInv, IInv, IsExpired
<1>2. w \in VaultRecord
    BY DEF Sound, Rated
<1>3. /\ vault'.last = w.last /\ vault'.ath = w.ath /\ vault'.final = w.final
      /\ vault'.pts = w.pts
    BY <1>2, SetSyForPtFields
<1>4. IsExpired' = IsExpired
    BY DEF IsExpired
<1>5. Sound(IsExpired, vault', pos')
    BY <1>1, BackedSoundly
<1>6. ~RateMayFall => vault'.ath <= sy'.rate
    BY <1>1 DEF SolvencyInv, TakesOverRate, Larger
<1>7. PtBackedAtPar'
    <2> SUFFICES ASSUME IsExpired => ~RateMayFall, ~EmergencyMode(vault')
                 PROVE  vault'.forPt = PyToSy(vault'.last, vault'.pts)
        BY <1>4 DEF PtBackedAtPar, BackingIntact
    <2>1. ~EmergencyMode(w)
        BY <1>3 DEF EmergencyMode
    <2>2. ~IsExpired => Total(Positions, [q \in Positions |-> pos'[q].yt]) = w.pts
        BY <1>3, <1>4, YtStandForPtThen
    <2>3. SetSyForPt(w).forPt = PyToSy(w.last, w.pts)
        BY <1>1, <2>1, <2>2, BackedWhenSound
    <2> QED BY <1>3, <2>3
<1>8. Sound(IsExpired, vault, pos)'
    BY <1>4, <1>5
<1> QED BY <1>6, <1>7, <1>8 DEF SolvencyInv

-----------------------------------------------------------------------------
(* Each instruction.                                                       *)

(* A step that changes neither rates nor what backs the PT.                *)
LEMMA SolventStill ==
    ASSUME SolvencyInv, BooksInv', PtHaveRate', sy'.rate = sy.rate, now' = now,
           vault'.last = vault.last, vault'.ath = vault.ath, vault'.final = vault.final,
           vault'.pts = vault.pts, vault'.forPt = vault.forPt,
           Sound(IsExpired, vault', pos')
    PROVE  SolvencyInv'
<1>1. IsExpired' = IsExpired
    BY DEF IsExpired
<1>2. PtBackedAtPar'
    BY <1>1 DEF SolvencyInv, PtBackedAtPar, BackingIntact, EmergencyMode
<1>3. Sound(IsExpired, vault, pos)'
    BY <1>1
<1> QED BY <1>2, <1>3 DEF SolvencyInv

(* A strip and a merge, as balances of the vault and YT of the robot.      *)
LEMMA RebalancedFields ==
    ASSUME NEW v \in VaultRecord, NEW total \in Nat, NEW pts \in Nat
    PROVE  /\ WithBalances(v, total, pts).treasury = v.treasury
           /\ WithBalances(v, total, pts).uncollected = v.uncollected
    BY DEF WithBalances, VaultRecord

(* Stripping keeps the vault solvent.                                      *)
LEMMA StripSolvent ==
    ASSUME ExactRates, SolvencyInv, BooksInv', PtHaveRate',
           NEW n \in Amounts, Strip(n)
    PROVE  SolvencyInv'
<1> DEFINE v == SyncedVault
           P == [pos EXCEPT ![Robot] = SyncedRobot]
           py == SyToPy(v.last, n)
           w == WithBalances(v, v.total + n, v.pts + py)
<1>1. /\ TypeOK /\ TypeOK' /\ CanSync /\ IsActive /\ n \in Nat /\ Robot \in Positions
      /\ ~EmergencyMode(v) /\ IsExpired \in BOOLEAN /\ ~IsExpired
      /\ sy.rate > 0 /\ sy'.rate = sy.rate /\ now' = now
    BY VaultAssumptions, PositionsFinite
       DEF Strip, SyStateValid, SolvencyInv, BooksInv, IInv, IsExpired, IsActive,
           TypeOK, SyRecord
<1>2. TakesOverRate
    BY <1>1, StripEffect
<1>3. /\ v \in VaultRecord /\ v.last = sy.rate /\ v.final = sy.rate
      /\ SyncedRobot \in PositionRecord
    BY <1>1, SyncedTypes
<1>4. SyncedRobot.index = v.last
    BY <1>1, <1>3, SyncedBooks
<1>5. Sound(IsExpired, v, P) /\ v.last > 0 /\ v.final > 0
    BY <1>1, SyncsSoundly
<1>6. py \in Nat
    BY <1>1, <1>3, ConversionNat DEF VaultRecord
<1>7. /\ vault' = SetSyForPt([v EXCEPT !.total = @ + n, !.pts = @ + py])
      /\ pos' = [pos EXCEPT ![Robot] = [SyncedRobot EXCEPT !.yt = @ + py]]
    BY DEF Strip
<1>8. P[Robot] = SyncedRobot /\ \A q \in Positions \ {Robot} : P[q] = pos[q]
    BY <1>1 DEF TypeOK
<1>9. pos' \in [Positions -> PositionRecord]
      /\ pos'[Robot].yt = SyncedRobot.yt + py
      /\ pos'[Robot].index = SyncedRobot.index
      /\ \A q \in Positions \ {Robot} : pos'[q] = pos[q]
    <2>1. [SyncedRobot EXCEPT !.yt = @ + py].yt = SyncedRobot.yt + py
          /\ [SyncedRobot EXCEPT !.yt = @ + py].index = SyncedRobot.index
        BY <1>3 DEF PositionRecord
    <2> HIDE DEF v, py
    <2> QED BY <1>1, <1>7, <2>1 DEF TypeOK
<1>10. py = SyToPy(v.last, n)
    OBVIOUS
<1>11. v.total + n \in Nat /\ v.pts + py \in Nat
    <2> HIDE DEF v, py
    <2> QED BY <1>1, <1>3, <1>6 DEF VaultRecord
<1> HIDE DEF v, P, py
<1>12. /\ w \in VaultRecord /\ w.total = v.total + n
       /\ w.last = v.last /\ w.ath = v.ath /\ w.final = v.final
       /\ w.treasury = v.treasury /\ w.uncollected = v.uncollected
    BY ONLY <1>3, <1>11, BalancesType, RebalancedFields, ZenonT(40) DEF w
<1>13. vault' = SetSyForPt(w)
    BY ONLY <1>7 DEF WithBalances, w
<1> HIDE DEF w
<1>14. Sound(IsExpired, w, pos')
    BY <1>1, <1>4, <1>5, <1>8, <1>9, <1>10, <1>12, StripsSoundly
<1> QED BY <1>1, <1>2, <1>5, <1>12, <1>13, <1>14, SolventAfterSync

(* Merging, before or after maturity, keeps the vault solvent.             *)
LEMMA MergeSolvent ==
    ASSUME ExactRates, SolvencyInv, BooksInv', PtHaveRate',
           NEW n \in Amounts, Merge(n)
    PROVE  SolvencyInv'
<1> DEFINE v == SyncedVault
           P == [pos EXCEPT ![Robot] = SyncedRobot]
           out == Redemption(v, n)
           burned == BurnedYt(n)
           w == WithBalances(v, v.total - out, v.pts - n)
<1>1. /\ TypeOK /\ TypeOK' /\ CanSync /\ n \in Nat /\ Robot \in Positions
      /\ ~EmergencyMode(v) /\ IsExpired \in BOOLEAN /\ BooksInv
      /\ sy.rate > 0 /\ sy'.rate = sy.rate /\ now' = now
      /\ v.total >= out /\ v.pts >= n
    <2>1. /\ CanSync /\ ~EmergencyMode(v) /\ sy.rate > 0 /\ now' = now
          /\ v.total >= out /\ v.pts >= n
          /\ sy' = [sy EXCEPT !.position = @ - out]
        BY DEF Merge, SyStateValid
    <2>2. TypeOK /\ TypeOK' /\ BooksInv /\ n \in Nat /\ Robot \in Positions
          /\ IsExpired \in BOOLEAN
        BY VaultAssumptions, PositionsFinite DEF SolvencyInv, BooksInv, IInv, IsExpired
    <2>3. sy'.rate = sy.rate
        <3> HIDE DEF out
        <3> QED BY <2>1, <2>2 DEF TypeOK, SyRecord
    <2> QED BY <2>1, <2>2, <2>3
<1>2. TakesOverRate /\ n > 0
    BY <1>1, MergeEffect
<1>3. /\ v \in VaultRecord /\ v.last = sy.rate /\ v.pts = vault.pts
      /\ v.final = IF IsActive THEN sy.rate ELSE vault.final
      /\ SyncedRobot \in PositionRecord
    BY <1>1, SyncedTypes
<1>4. IsActive <=> ~IsExpired
    BY <1>1, RateTaken DEF IsActive
<1>5. ~IsExpired => SyncedRobot.index = v.last
    BY <1>1, <1>3, <1>4, SyncedBooks
<1>6. Sound(IsExpired, v, P) /\ v.last > 0 /\ v.final > 0
    BY <1>1, SyncsSoundly
<1>7. out \in Nat /\ out * v.last <= n * ONE
    <2>1. v.forPt = UpdatedVault.forPt
        <3>1. UpdatedVault \in VaultRecord /\ pos[Robot] \in PositionRecord
            BY <1>1, UpdatedVaultFields, PositionNumbers
        <3> QED BY <3>1, EarnTypes DEF SyncedVault, VaultRecord
    <2>2. v.forPt <= PyToSy(v.last, v.pts)
        BY <1>1, <1>3, <2>1, UpdatedBacking
    <2>3. v.pts > 0 /\ v.last \in Nat \ {0}
        BY <1>1, <1>2, <1>3, <1>6 DEF VaultRecord
    <2> HIDE DEF v
    <2> QED BY <1>1, <1>3, <2>2, <2>3, RedeemedAtPar
<1>8. burned = IF IsExpired THEN 0 ELSE n
    BY <1>4 DEF BurnedYt
<1>9. /\ vault' = SetSyForPt([v EXCEPT !.total = @ - out, !.pts = @ - n])
      /\ pos' = [pos EXCEPT ![Robot] = [SyncedRobot EXCEPT !.yt = @ - burned]]
    BY DEF Merge
<1>10. P[Robot] = SyncedRobot /\ \A q \in Positions \ {Robot} : P[q] = pos[q]
    BY <1>1 DEF TypeOK
<1> HIDE DEF v, P, out, burned
<1>11. pos' \in [Positions -> PositionRecord]
       /\ pos'[Robot].yt = SyncedRobot.yt - burned
       /\ pos'[Robot].index = SyncedRobot.index
       /\ \A q \in Positions \ {Robot} : pos'[q] = pos[q]
    <2>1. [SyncedRobot EXCEPT !.yt = @ - burned].yt = SyncedRobot.yt - burned
          /\ [SyncedRobot EXCEPT !.yt = @ - burned].index = SyncedRobot.index
        BY <1>3 DEF PositionRecord
    <2> QED BY <1>1, <1>9, <2>1 DEF TypeOK
<1>12. v.total - out \in Nat /\ v.pts - n \in Nat
    BY <1>1, <1>3, <1>7 DEF VaultRecord
<1>13. /\ w \in VaultRecord /\ w.total = v.total - out /\ w.pts = v.pts - n
       /\ w.last = v.last /\ w.ath = v.ath /\ w.final = v.final
       /\ w.treasury = v.treasury /\ w.uncollected = v.uncollected
    BY ONLY <1>3, <1>12, BalancesType, RebalancedFields DEF w
<1>14. vault' = SetSyForPt(w)
    BY ONLY <1>9 DEF WithBalances, w
<1> HIDE DEF w
<1>15. pos'[Robot].yt = P[Robot].yt - IF IsExpired THEN 0 ELSE n
    BY <1>8, <1>10, <1>11
<1>16. Sound(IsExpired, w, pos')
    BY <1>1, <1>5, <1>6, <1>7, <1>10, <1>11, <1>13, <1>15, MergesSoundly
<1> QED BY <1>1, <1>2, <1>6, <1>13, <1>14, <1>16, SolventAfterSync

(* Staging yield keeps the vault solvent.                                  *)
LEMMA StageYieldSolvent ==
    ASSUME ExactRates, SolvencyInv, BooksInv', PtHaveRate',
           NEW u \in Users, StageYield(u)
    PROVE  SolvencyInv'
<1>1. /\ TypeOK /\ BooksInv /\ CanSync /\ ~EmergencyMode(SyncedVault)
      /\ sy' = sy /\ now' = now
      /\ vault' = SetSyForPt(SettledVault(u))
      /\ pos' = [pos EXCEPT ![Robot] = SyncedRobot, ![u] = SettledPosition(u)]
    BY DEF StageYield, SolvencyInv, BooksInv, IInv
<1>2. TakesOverRate
    BY <1>1, StageYieldEffect
<1>3. sy.rate > 0
    BY <1>1, RateTaken
<1>4. Sound(IsExpired, SettledVault(u), pos')
      /\ SettledVault(u).last > 0 /\ SettledVault(u).final > 0
    BY <1>1, UserSettlesSoundly
<1> QED BY <1>1, <1>2, <1>3, <1>4, SolventAfterSync

(* Both positions after they have settled, before YT move between them.    *)
LEMMA ReadyToMove ==
    ASSUME ExactRates, SolvencyInv, CanSync, IsActive, NEW u \in Users, NEW P,
           P = [pos EXCEPT ![Robot] = SyncedRobot, ![u] = SettledPosition(u)]
    PROVE  /\ P[Robot] = SyncedRobot /\ P[u] = SettledPosition(u)
           /\ \A q \in Positions \ {u, Robot} : P[q] = pos[q]
           /\ Sound(IsExpired, SettledVault(u), P) /\ ~IsExpired
           /\ SettledVault(u).last > 0 /\ SettledVault(u).final > 0
           /\ P[u].index <= P[Robot].index
           /\ ~EmergencyMode(SyncedVault) => P[Robot].index <= P[u].index
           /\ sy.rate > 0
<1>1. /\ TypeOK /\ BooksInv /\ u \in Positions /\ Robot \in Positions /\ u # Robot
      /\ pos[u] \in PositionRecord /\ pos[Robot] \in PositionRecord
    BY PositionsFinite, PositionNumbers DEF SolvencyInv, BooksInv, IInv
<1>2. /\ Sound(IsExpired, SettledVault(u), P)
      /\ SettledVault(u).last > 0 /\ SettledVault(u).final > 0
    BY UserSettlesSoundly
<1>3. ~IsExpired /\ sy.rate > 0
    BY <1>1, RateTaken DEF IsActive
<1>4. P[Robot] = SyncedRobot /\ P[u] = SettledPosition(u)
      /\ \A q \in Positions \ {u, Robot} : P[q] = pos[q]
    BY <1>1 DEF TypeOK
<1>5. /\ SyncedRobot.index = IF EmergencyMode(SyncedVault) THEN pos[Robot].index
                             ELSE SyncedVault.final
      /\ SettledPosition(u).index = IF EmergencyMode(SyncedVault) THEN pos[u].index
                                    ELSE SyncedVault.final
    BY <1>1, SyncedBooks, SettledBooks
<1>6. pos[u].index <= pos[Robot].index
    BY <1>1, <1>3, RatesNat
       DEF BooksInv, SettledInOrder, NoIntervalEarnedTwice, IsExpired
<1>7. /\ SettledPosition(u).index <= SyncedRobot.index
      /\ ~EmergencyMode(SyncedVault) => SyncedRobot.index <= SettledPosition(u).index
    <2>1. SyncedVault.final \in Nat
        BY <1>1, SyncedTypes DEF VaultRecord
    <2>2. CASE EmergencyMode(SyncedVault)
        BY <1>5, <1>6, <2>2
    <2>3. CASE ~EmergencyMode(SyncedVault)
        BY <1>5, <2>1, <2>3
    <2> QED BY <2>2, <2>3
<1>8. P[u].index <= P[Robot].index
      /\ (~EmergencyMode(SyncedVault) => P[Robot].index <= P[u].index)
    BY <1>4, <1>7
<1> QED BY <1>2, <1>3, <1>4, <1>8

(* Staking keeps the vault solvent.                                        *)
LEMMA DepositYtSolvent ==
    ASSUME ExactRates, SolvencyInv, BooksInv', PtHaveRate',
           NEW u \in Users, NEW n \in Amounts, DepositYt(u, n)
    PROVE  SolvencyInv'
<1>1. /\ TypeOK /\ TypeOK' /\ n \in Nat /\ n \in Int
      /\ u \in Positions /\ Robot \in Positions /\ u # Robot
      /\ IsExpired \in BOOLEAN
    BY VaultAssumptions, PositionsFinite DEF SolvencyInv, BooksInv, IInv, IsExpired
<1>2. /\ CanSync /\ IsActive /\ ~EmergencyMode(SyncedVault) /\ SyncedRobot.yt >= n
      /\ sy' = sy /\ now' = now
      /\ vault' = SetSyForPt(SettledVault(u)) /\ pos' = StakeMoved(u, n)
    BY DEF DepositYt
<1>3. PICK P : P = [pos EXCEPT ![Robot] = SyncedRobot, ![u] = SettledPosition(u)]
    OBVIOUS
<1>4. /\ P[Robot] = SyncedRobot /\ P[u] = SettledPosition(u)
      /\ \A q \in Positions \ {u, Robot} : P[q] = pos[q]
      /\ Sound(IsExpired, SettledVault(u), P) /\ ~IsExpired
      /\ SettledVault(u).last > 0 /\ SettledVault(u).final > 0
      /\ P[Robot].index <= P[u].index
      /\ sy.rate > 0
    BY <1>2, <1>3, ReadyToMove, ZenonT(40)
<1>5. /\ SyncedRobot.yt \in Nat /\ SettledPosition(u).yt \in Nat
      /\ SyncedRobot.yt = pos[Robot].yt /\ SettledPosition(u).yt = pos[u].yt
    BY <1>1, <1>2, SyncedTypes, SettledTypes DEF PositionRecord
<1>6. SyncedRobot.yt - n \in Nat /\ SettledPosition(u).yt + n \in Nat
    BY <1>1, <1>2, <1>5
<1>7. /\ pos' \in [Positions -> PositionRecord]
      /\ pos'[Robot].yt = P[Robot].yt - n /\ pos'[u].yt = P[u].yt + n
      /\ pos'[Robot].index = P[Robot].index /\ pos'[u].index = P[u].index
      /\ \A q \in Positions \ {Robot, u} : pos'[q] = P[q]
    BY <1>1, <1>2, <1>4, <1>5, <1>6, StakeMovedType
<1>8. Sound(IsExpired, SettledVault(u), pos')
    BY <1>1, <1>4, <1>7, MovesSoundly
<1>9. TakesOverRate
    BY <1>1, <1>2, <1>6, StakeEffect
<1> QED BY <1>1, <1>2, <1>4, <1>8, <1>9, SolventAfterSync

(* Unstaking keeps the vault solvent, also in an emergency: the user has   *)
(* been settled no further than the robot.                                 *)
LEMMA WithdrawYtSolvent ==
    ASSUME ExactRates, SolvencyInv, BooksInv', PtHaveRate',
           NEW u \in Users, NEW n \in Amounts, WithdrawYt(u, n)
    PROVE  SolvencyInv'
<1>1. /\ TypeOK /\ TypeOK' /\ n \in Nat /\ -n \in Int
      /\ u \in Positions /\ Robot \in Positions /\ u # Robot
      /\ IsExpired \in BOOLEAN
    BY VaultAssumptions, PositionsFinite DEF SolvencyInv, BooksInv, IInv, IsExpired
<1>2. /\ CanSync /\ IsActive /\ SettledPosition(u).yt >= n
      /\ sy' = sy /\ now' = now
      /\ vault' = SetSyForPt(SettledVault(u)) /\ pos' = StakeMoved(u, -n)
    BY DEF WithdrawYt
<1>3. PICK P : P = [pos EXCEPT ![Robot] = SyncedRobot, ![u] = SettledPosition(u)]
    OBVIOUS
<1>4. /\ P[Robot] = SyncedRobot /\ P[u] = SettledPosition(u)
      /\ \A q \in Positions \ {u, Robot} : P[q] = pos[q]
      /\ Sound(IsExpired, SettledVault(u), P) /\ ~IsExpired
      /\ SettledVault(u).last > 0 /\ SettledVault(u).final > 0
      /\ P[u].index <= P[Robot].index
      /\ sy.rate > 0
    BY <1>2, <1>3, ReadyToMove, ZenonT(40)
<1>5. /\ SyncedRobot.yt \in Nat /\ SettledPosition(u).yt \in Nat
      /\ SyncedRobot.yt = pos[Robot].yt /\ SettledPosition(u).yt = pos[u].yt
    BY <1>1, <1>2, SyncedTypes, SettledTypes DEF PositionRecord
<1>6. SyncedRobot.yt - (-n) \in Nat /\ SettledPosition(u).yt + (-n) \in Nat
    BY <1>1, <1>2, <1>5
<1>7. /\ pos' \in [Positions -> PositionRecord]
      /\ pos'[Robot].yt = P[Robot].yt - (-n) /\ pos'[u].yt = P[u].yt + (-n)
      /\ pos'[Robot].index = P[Robot].index /\ pos'[u].index = P[u].index
      /\ \A q \in Positions \ {Robot, u} : pos'[q] = P[q]
    BY <1>1, <1>2, <1>4, <1>5, <1>6, StakeMovedType
<1>8. pos'[Robot].yt = P[Robot].yt + n /\ pos'[u].yt = P[u].yt - n
    BY <1>1, <1>4, <1>5, <1>7
<1>9. Sound(IsExpired, SettledVault(u), pos')
    BY <1>1, <1>4, <1>7, <1>8, MovesSoundly
<1>10. TakesOverRate
    BY <1>1, <1>2, <1>6, StakeEffect
<1> QED BY <1>1, <1>2, <1>4, <1>9, <1>10, SolventAfterSync

(* Interest that is paid was neither free nor backing.                     *)
LEMMA PaidFields ==
    ASSUME NEW v \in VaultRecord, NEW n \in Nat, v.total >= n, v.uncollected >= n
    PROVE  /\ InterestPaid(v, n) \in VaultRecord
           /\ InterestPaid(v, n).last = v.last
           /\ InterestPaid(v, n).ath = v.ath
           /\ InterestPaid(v, n).final = v.final
           /\ InterestPaid(v, n).pts = v.pts
           /\ InterestPaid(v, n).forPt = v.forPt
           /\ Free(InterestPaid(v, n)) = Free(v)
<1> DEFINE total == v.total - n
           uncollected == v.uncollected - n
           w == InterestPaid(v, n)
<1>1. total \in Nat /\ uncollected \in Nat
    BY DEF VaultRecord
<1>2. w = [v EXCEPT !.total = total, !.uncollected = uncollected]
    BY DEF InterestPaid
<1> HIDE DEF total, uncollected, w
<1>3. /\ w \in VaultRecord /\ w.last = v.last /\ w.ath = v.ath /\ w.final = v.final
      /\ w.pts = v.pts /\ w.forPt = v.forPt /\ w.treasury = v.treasury
      /\ w.total = total /\ w.uncollected = uncollected
    BY <1>1, <1>2 DEF VaultRecord
<1>4. /\ v.total \in Nat /\ v.uncollected \in Nat /\ v.treasury \in Nat
    BY DEF VaultRecord
<1>5. Free(w) = Free(v)
    BY <1>3, <1>4 DEF Free, total, uncollected
<1> QED BY <1>3, <1>5 DEF w

(* Collecting interest settles the position and pays what is staged.       *)
LEMMA CollectInterestSolvent ==
    ASSUME ExactRates, SolvencyInv, BooksInv', PtHaveRate',
           NEW u \in Users, NEW n \in Nat, CollectInterest(u, n)
    PROVE  SolvencyInv'
<1> DEFINE v == EarnVault(vault, pos[u])
           p == EarnPosition(vault, pos[u])
           P == [pos EXCEPT ![u] = p]
           paid == [p EXCEPT !.staged = @ - n]
<1>1. /\ TypeOK /\ TypeOK' /\ u \in Positions /\ IsExpired \in BOOLEAN
      /\ vault \in VaultRecord /\ pos[u] \in PositionRecord
      /\ Sound(IsExpired, vault, pos) /\ RateOrder /\ ZeroRateNeverRecorded
    BY PositionsFinite DEF SolvencyInv, BooksInv, IInv, TypeOK, IsExpired
<1>2. /\ FinalRateKnown(vault)
      /\ v.total >= n /\ v.uncollected >= n
      /\ vault' = InterestPaid(v, n)
      /\ pos' = [pos EXCEPT ![u] = paid]
      /\ sy' = [sy EXCEPT !.position = @ - n]
      /\ now' = now
    BY SMTT(60) DEF CollectInterest
<1>3. sy'.rate = sy.rate
    BY <1>1, <1>2 DEF TypeOK, SyRecord
<1>4. vault.final > 0 /\ vault.last > 0
    <2>1. vault.final > 0 /\ vault.final <= vault.ath
        BY <1>1, <1>2 DEF FinalRateKnown, RateOrder
    <2>2. vault.ath > 0
        BY <1>1, <2>1, RatesNat
    <2> QED BY <1>1, <2>1, <2>2 DEF ZeroRateNeverRecorded
<1>5. Sound(IsExpired, v, P)
    BY <1>1, <1>4, SettlesSoundly
<1>6. /\ v \in VaultRecord /\ v = [vault EXCEPT !.uncollected = @ + SyInterest(vault, pos[u])]
      /\ p \in PositionRecord
    BY ONLY <1>1, EarnTypes
<1>7. P[u] = p /\ \A q \in Positions \ {u} : P[q] = pos[q]
    BY <1>1 DEF TypeOK
<1> HIDE DEF v, p, P
<1>8. /\ v.last = vault.last /\ v.ath = vault.ath /\ v.final = vault.final
      /\ v.pts = vault.pts /\ v.forPt = vault.forPt
    BY <1>1, <1>6 DEF VaultRecord
<1>9. paid.yt = p.yt /\ paid.index = p.index
    BY <1>6 DEF PositionRecord
<1> HIDE DEF paid
<1>10. pos' \in [Positions -> PositionRecord] /\ pos'[u] = paid
       /\ \A q \in Positions \ {u} : pos'[q] = pos[q]
    BY <1>1, <1>2 DEF TypeOK
<1>11. \A q \in Positions : pos'[q].yt = P[q].yt /\ pos'[q].index = P[q].index
    BY <1>7, <1>9, <1>10
<1>12. /\ vault' \in VaultRecord
       /\ vault'.last = v.last /\ vault'.ath = v.ath /\ vault'.final = v.final
       /\ vault'.pts = v.pts /\ vault'.forPt = v.forPt /\ Free(vault') = Free(v)
    BY ONLY <1>2, <1>6, n \in Nat, PaidFields
<1>13. Sound(IsExpired, vault', pos')
    BY <1>1, <1>5, <1>10, <1>11, <1>12, SoundStill
<1> QED BY <1>2, <1>3, <1>8, <1>12, <1>13, SolventStill

(* As does the treasury, for the robot and for itself.                     *)
LEMMA TreasurySolvent ==
    ASSUME SolvencyInv, BooksInv', PtHaveRate', NEW n \in Nat,
           CollectRobotInterest(n) \/ (n <= vault.treasury /\ CollectTreasurySy(n))
    PROVE  SolvencyInv'
<1>1. /\ TypeOK /\ TypeOK' /\ IsExpired \in BOOLEAN /\ Sound(IsExpired, vault, pos)
      /\ vault \in VaultRecord /\ Robot \in Positions
    BY PositionsFinite DEF SolvencyInv, BooksInv, IInv, TypeOK, IsExpired
<1>2. now' = now /\ sy' = [sy EXCEPT !.position = @ - n] /\ vault.total >= n
    BY DEF CollectRobotInterest, CollectTreasurySy
<1>3. sy'.rate = sy.rate
    BY <1>1, <1>2 DEF TypeOK, SyRecord
<1>4. pos' \in [Positions -> PositionRecord] /\ vault' \in VaultRecord
    BY <1>1 DEF TypeOK
<1>5. \A q \in Positions : pos'[q].yt = pos[q].yt /\ pos'[q].index = pos[q].index
    BY <1>1 DEF TypeOK, PositionRecord, CollectRobotInterest, CollectTreasurySy
<1>6. /\ vault'.last = vault.last /\ vault'.ath = vault.ath
      /\ vault'.final = vault.final /\ vault'.pts = vault.pts
      /\ vault'.forPt = vault.forPt /\ Free(vault') = Free(vault)
    <2>1. CASE CollectRobotInterest(n)
        <3>1. vault.uncollected >= n /\ vault' = InterestPaid(vault, n)
            BY <2>1 DEF CollectRobotInterest
        <3> QED BY ONLY <1>1, <1>2, <3>1, n \in Nat, PaidFields
    <2>2. CASE CollectTreasurySy(n)
        <3>1. vault' = [vault EXCEPT !.total = @ - n, !.treasury = @ - n]
            BY <2>2 DEF CollectTreasurySy
        <3>2. /\ vault'.last = vault.last /\ vault'.ath = vault.ath
              /\ vault'.final = vault.final /\ vault'.pts = vault.pts
              /\ vault'.forPt = vault.forPt /\ vault'.uncollected = vault.uncollected
              /\ vault'.total = vault.total - n /\ vault'.treasury = vault.treasury - n
            BY <1>1, <3>1 DEF VaultRecord
        <3>3. vault.total \in Nat /\ vault.treasury \in Nat /\ vault.uncollected \in Nat
            BY <1>1 DEF VaultRecord
        <3> QED BY <3>2, <3>3 DEF Free
    <2> QED BY <2>1, <2>2
<1>7. Sound(IsExpired, vault', pos')
    BY <1>1, <1>4, <1>5, <1>6, SoundStill
<1> QED BY <1>2, <1>3, <1>6, <1>7, SolventStill

(* The clock, which may cross the end of the term.                         *)
LEMMA TickSolvent ==
    ASSUME ExactRates, SolvencyInv, BooksInv', PtHaveRate', Tick
    PROVE  SolvencyInv'
<1>1. UNCHANGED <<sy, vault, pos>> /\ now' = now + 1
    BY DEF Tick
<1>2. BooksInv /\ IInv /\ TypeOK /\ Sound(IsExpired, vault, pos)
    BY DEF SolvencyInv, BooksInv, IInv
<1>3. IsExpired => IsExpired'
    BY <1>1, <1>2, RatesNat DEF IsExpired
<1>4. IsExpired \in BOOLEAN /\ IsExpired' \in BOOLEAN
    BY DEF IsExpired
<1>5. Sound(IsExpired', vault, pos)
    <2>1. CASE IsExpired' <=> IsExpired
        <3>1. IsExpired' = IsExpired
            BY <1>4, <2>1
        <3> QED BY <1>2, <3>1
    <2>2. CASE ~(IsExpired' <=> IsExpired)
        <3>1. ~IsExpired /\ IsExpired'
            BY <1>3, <2>2
        <3>2. IsExpired = FALSE /\ IsExpired' = TRUE
            BY <1>4, <3>1
        <3>3. Sound(FALSE, vault, pos)
            BY <1>2, <3>2
        <3>4. Total(Positions, [q \in Positions |-> pos[q].yt]) = vault.pts
            BY <1>2, <3>1, YtStandForPt
        <3>5. vault.pts > 0 => vault.ath > 0
            BY <1>2 DEF SolvencyInv, PtHaveRate, IInv, PySupply
        <3> QED BY <3>2, <3>3, <3>4, <3>5, MaturesSoundly
    <2> QED BY <2>1, <2>2
<1>6. Sound(IsExpired, vault, pos)'
    BY <1>1, <1>5
<1>7. PtBackedAtPar'
    BY <1>1, <1>3 DEF SolvencyInv, PtBackedAtPar, BackingIntact, EmergencyMode
<1> QED BY <1>1, <1>6, <1>7 DEF SolvencyInv

(* The initial state is solvent.                                           *)
LEMMA InitSolvent == Init => SolvencyInv
<1> SUFFICES ASSUME Init PROVE SolvencyInv
    OBVIOUS
<1>1. BooksInv /\ TypeOK
    BY InitBooks DEF BooksInv, IInv
<1>2. PtHaveRate /\ PtBackedAtPar
    BY DEF Init, PtHaveRate, PtBackedAtPar, NoVault
<1>3. PICK r \in Rates : sy.rate = r
    BY DEF Init
<1>4. /\ vault.last = 0 /\ vault.ath = 0 /\ vault.final = 0 /\ vault.pts = 0
      /\ vault.total = 0 /\ vault.treasury = 0 /\ vault.uncollected = 0
      /\ \A q \in Positions : pos[q].yt = 0 /\ pos[q].index = 0
    BY DEF Init, NoVault, NoPosition
<1>5. sy.rate \in Rates /\ (~RateMayFall => vault.ath <= sy.rate)
    BY <1>1, <1>3, <1>4 DEF TypeOK, SyRecord
<1>6. Rated(IsExpired, vault, pos)
    BY <1>1, <1>4 DEF Rated, TypeOK
<1>7. Free(vault) = 0
    BY <1>4 DEF Free
<1>8. SumOfPar(pos) = 0 /\ SumOfRise(vault, pos) = 0
    <2> DEFINE f == [q \in Positions |-> ParValue(pos[q])]
               g == [q \in Positions |-> Rise(vault, pos[q])]
    <2>1. \A q \in Positions : f[q] = 0 /\ g[q] = 0
        BY <1>4 DEF ParValue, Rise
    <2> HIDE DEF f, g
    <2>2. Total(Positions, f) = 0 /\ Total(Positions, g) = 0
        BY <2>1, TotalZero
    <2> QED BY <2>2 DEF f, g, SumOfPar, SumOfRise
<1>9. ONE \in Nat
    BY ONEAssumption
<1>10. CoversYt(vault, pos) /\ CoversPt(vault, pos)
    BY <1>4, <1>7, <1>8, <1>9 DEF CoversYt, CoversPt
<1> QED BY <1>1, <1>2, <1>5, <1>6, <1>10 DEF SolvencyInv, Sound

(* Every step keeps the vault solvent.                                     *)
LEMMA NextSolvent ==
    ASSUME ExactRates PROVE SolvencyInv /\ [Next]_vars => SolvencyInv'
<1> SUFFICES ASSUME SolvencyInv, [Next]_vars PROVE SolvencyInv'
    OBVIOUS
<1>0. /\ TypeOK /\ BooksInv' /\ PtHaveRate' /\ TypeOK'
      /\ Sound(IsExpired, vault, pos)
    BY NextBooks, NextRedeem DEF SolvencyInv, BooksInv, IInv, RedeemInv
<1>1. ASSUME UNCHANGED <<now, vault, pos>>, sy'.rate = sy.rate PROVE SolvencyInv'
    BY <1>0, <1>1, SolventStill
<1>2. CASE UNCHANGED vars
    BY <1>1, <1>2 DEF vars
<1>3. CASE Tick
    BY <1>0, <1>3, TickSolvent
<1>4. CASE SyRateMoves
    <2>1. UNCHANGED <<now, vault, pos>>
        BY <1>4 DEF SyRateMoves
    <2>2. PICK r \in Rates \ {sy.rate} :
            (RateMayFall \/ r > sy.rate) /\ sy' = [sy EXCEPT !.rate = r]
        BY <1>4 DEF SyRateMoves
    <2>3. sy'.rate = r
        BY <1>0, <2>2 DEF TypeOK, SyRecord
    <2>4. r \in Nat /\ sy.rate \in Nat /\ vault.ath \in Nat
        BY <1>0, <2>2, RatesNat, VaultAssumptions
    <2>5. sy'.rate \in Rates /\ (~RateMayFall => vault'.ath <= sy'.rate)
        BY <2>1, <2>2, <2>3, <2>4 DEF SolvencyInv
    <2>6. Sound(IsExpired, vault, pos)' /\ PtBackedAtPar'
        BY <1>0, <2>1 DEF SolvencyInv, PtBackedAtPar, BackingIntact, IsExpired,
                          EmergencyMode
    <2> QED BY <1>0, <2>5, <2>6 DEF SolvencyInv
<1>5. CASE SyEmissionAccrues \/ ModifyVaultSetting \/ ChangeClaimLimits
    <2>1. UNCHANGED <<now, vault, pos>>
        BY <1>5 DEF SyEmissionAccrues, ModifyVaultSetting, ChangeClaimLimits
    <2>2. sy'.rate = sy.rate
        BY <1>0, <1>5 DEF SyEmissionAccrues, ModifyVaultSetting, ChangeClaimLimits,
                          TypeOK, SyRecord
    <2> QED BY <1>1, <2>1, <2>2
<1>6. ASSUME NEW n \in Amounts, Strip(n) PROVE SolvencyInv'
    BY <1>0, <1>6, StripSolvent
<1>7. ASSUME NEW n \in Amounts, Merge(n) PROVE SolvencyInv'
    BY <1>0, <1>7, MergeSolvent
<1>8. ASSUME NEW u \in Users, StageYield(u) PROVE SolvencyInv'
    BY <1>0, <1>8, StageYieldSolvent
<1>9. ASSUME NEW u \in Users, NEW n \in Amounts, DepositYt(u, n) PROVE SolvencyInv'
    BY <1>0, <1>9, DepositYtSolvent
<1>10. ASSUME NEW u \in Users, NEW n \in Amounts, WithdrawYt(u, n) PROVE SolvencyInv'
    BY <1>0, <1>10, WithdrawYtSolvent
<1>11. ASSUME NEW u \in Users, NEW n \in Requests(pos[u].staged),
              CollectInterest(u, n)
       PROVE  SolvencyInv'
    <2>1. n \in Nat
        BY <1>0, RequestsNat DEF TypeOK, Positions, PositionRecord
    <2> QED BY <1>0, <1>11, <2>1, CollectInterestSolvent
<1>12. ASSUME NEW n \in Requests(pos[Robot].staged), CollectRobotInterest(n)
       PROVE  SolvencyInv'
    <2>1. n \in Nat
        BY <1>0, RequestsNat DEF TypeOK, Positions, PositionRecord
    <2> QED BY <1>0, <1>12, <2>1, TreasurySolvent
<1>13. ASSUME NEW n \in Requests(vault.treasury), CollectTreasurySy(n)
       PROVE  SolvencyInv'
    <2>1. n \in Nat
        BY <1>0, RequestsNat DEF TypeOK, VaultRecord
    <2>2. n <= vault.treasury
        BY <1>13 DEF CollectTreasurySy
    <2> QED BY <1>0, <1>13, <2>1, <2>2, TreasurySolvent
<1>14. ASSUME NEW u \in Users, NEW i \in EmissionIds,
              NEW n \in Requests(trackers[u][i].staged), CollectEmission(u, i, n)
       PROVE  SolvencyInv'
    BY <1>0, <1>1, <1>14 DEF CollectEmission, TypeOK, SyRecord
<1>15. ASSUME NEW i \in EmissionIds,
              NEW n \in Requests(trackers[Robot][i].staged) \cup
                        Requests(emissions[i].treasury),
              CollectRobotEmission(i, n) \/ CollectTreasuryEmission(i, n)
       PROVE  SolvencyInv'
    BY <1>0, <1>1, <1>15
       DEF CollectRobotEmission, CollectTreasuryEmission, TypeOK, SyRecord
<1> QED BY <1>2, <1>3, <1>4, <1>5, <1>6, <1>7, <1>8, <1>9, <1>10, <1>11,
           <1>12, <1>13, <1>14, <1>15 DEF Next

-----------------------------------------------------------------------------
(* The theorems.                                                           *)

(* At exact rates the vault holds, outside an emergency, all it owes: the  *)
(* PT at par, the treasury, the interest staged and the interest not yet   *)
(* settled.                                                                *)
THEOREM Solvent == ASSUME ExactRates PROVE Spec => []FullySolvent
<1>1. ASSUME SolvencyInv PROVE FullySolvent
    <2> SUFFICES ASSUME IsExpired => ~RateMayFall, ~EmergencyMode(vault), vault.last > 0
                 PROVE  PyToSy(vault.last, vault.pts) + vault.treasury + vault.uncollected
                          + Total(Positions, [p \in Positions |-> Pending(p)])
                        <= vault.total
        BY DEF FullySolvent, BackingIntact
    <2> DEFINE due == Total(Positions, [p \in Positions |-> SyInterest(vault, pos[p])])
               b == PyToSy(vault.last, vault.pts)
    <2>1. /\ BooksInv /\ TypeOK /\ Sound(IsExpired, vault, pos) /\ IsExpired \in BOOLEAN
          /\ RateOrder /\ ZeroRateNeverRecorded /\ vault \in VaultRecord
        BY <1>1 DEF SolvencyInv, BooksInv, IInv, TypeOK, IsExpired
    <2>2. vault.final > 0
        <3>1. vault.last <= vault.ath
            BY <2>1 DEF RateOrder
        <3>2. vault.ath > 0
            BY <2>1, <3>1, RatesNat
        <3> QED BY <2>1, <3>2 DEF ZeroRateNeverRecorded
    <2>3. ~IsExpired => Total(Positions, [q \in Positions |-> pos[q].yt]) = vault.pts
        BY <2>1, YtStandForPt
    <2>4. b + due <= Free(vault)
        BY <2>1, <2>2, <2>3, SoundSolvent
    <2>5. due \in Nat
        <3> DEFINE f == [p \in Positions |-> SyInterest(vault, pos[p])]
        <3>1. \A p \in Positions : f[p] \in Nat
            BY <2>1, PositionNumbers, EarnTypes
        <3> HIDE DEF f
        <3>2. Total(Positions, f) \in Nat
            BY <3>1, TotalNat, PositionsFinite
        <3> QED BY <3>2 DEF f
    <2>6. b \in Nat
        BY <2>1, ConversionNat DEF VaultRecord
    <2>7. /\ vault.total \in Nat /\ vault.treasury \in Nat /\ vault.uncollected \in Nat
        BY <2>1 DEF VaultRecord
    <2>8. due = Total(Positions, [p \in Positions |-> Pending(p)])
        BY DEF Pending
    <2> HIDE DEF b, due
    <2>9. b + vault.treasury + vault.uncollected + due <= vault.total
        BY <2>4, <2>5, <2>6, <2>7 DEF Free
    <2> QED BY <2>8, <2>9 DEF b
<1>2. SolvencyInv /\ [Next]_vars => SolvencyInv'
    BY NextSolvent
<1> QED BY <1>1, <1>2, InitSolvent, PTL DEF Spec

(* At exact rates PT are backed at par outside an emergency: the fallback  *)
(* of sy_backing_for_pt to the SY that are left is never taken.            *)
THEOREM BackedAtPar == ASSUME ExactRates PROVE Spec => []PtBackedAtPar
<1>1. SolvencyInv => PtBackedAtPar
    BY DEF SolvencyInv
<1>2. SolvencyInv /\ [Next]_vars => SolvencyInv'
    BY NextSolvent
<1> QED BY <1>1, <1>2, InitSolvent, PTL DEF Spec

-----------------------------------------------------------------------------
(* Emissions: what positions earn, and what a settlement makes of it.      *)

(* SY, scaled, on which a position earns: what is staged and what its YT   *)
(* stand for.                                                              *)
Worth(p) == p.staged * ONE + ParValue(p)

(* What a position p with the tracker t will have been credited, in all,   *)
(* when it has earned up to the final index of the emission e; scaled      *)
(* twice, as index and worth are.                                          *)
DueOf(e, p, t) == t.staged * (ONE * ONE) + (e.final - t.index) * Worth(p)

SumOfDue(i, ems, P, T) ==
    Total(Positions, [q \in Positions |-> DueOf(ems[i], P[q], T[q][i])])

(* The SY program, in the state s, covers what is due to the positions and *)
(* to the treasury of emission i, and its growth since the vault's last    *)
(* update on all the SY of the vault.                                      *)
Covered(i, s, ems, total, P, T) ==
    /\ ems[i].final <= ems[i].last /\ ems[i].last <= s.indexes[i]
    /\ \A q \in Positions : T[q][i].index <= ems[i].final
    /\ SumOfDue(i, ems, P, T) + ems[i].treasury * (ONE * ONE)
         + ((s.indexes[i] - ems[i].last) * total) * ONE <= s.owed[i] * ONE

(* What is due is whole.                                                   *)
LEMMA DueNat ==
    ASSUME NEW e \in EmissionRecord, NEW p \in PositionRecord,
           NEW t \in TrackerRecord, t.index <= e.final
    PROVE  /\ Worth(p) \in Nat /\ DueOf(e, p, t) \in Nat
           /\ t.staged * (ONE * ONE) <= DueOf(e, p, t)
<1>1. /\ ONE \in Nat /\ p.staged \in Nat /\ t.staged \in Nat /\ t.index \in Nat
      /\ e.final \in Nat
    BY ONEAssumption DEF PositionRecord, TrackerRecord, EmissionRecord
<1>2. ParValue(p) \in Nat
    <2>1. NoVault \in VaultRecord
        BY DEF NoVault, VaultRecord
    <2> QED BY <2>1, ValuesNat
<1>3. PICK w \in Nat : w = Worth(p)
    <2>1. p.staged * ONE \in Nat
        BY <1>1
    <2> QED BY <1>2, <2>1 DEF Worth
<1>4. PICK d \in Nat : d = e.final - t.index
    BY <1>1
<1>5. d * w \in Nat /\ ONE * ONE \in Nat
    BY <1>1
<1>6. t.staged * (ONE * ONE) \in Nat
    BY <1>1, <1>5, ProductNat
<1>7. DueOf(e, p, t) = t.staged * (ONE * ONE) + d * w
    BY <1>3, <1>4 DEF DueOf
<1> QED BY <1>3, <1>5, <1>6, <1>7

(* Interest that a position is paid is no more than its YT stood for, and  *)
(* emissions are paid on no more SY than it is worth then.                 *)
LEMMA SettlesWorth ==
    ASSUME NEW v \in VaultRecord, NEW p \in PositionRecord, ~EmergencyMode(v),
           v.final > 0, v.final <= v.last, p.index <= v.final,
           p.yt > 0 => p.index > 0,
           NumDiv(ONE, v.final) * v.final = ONE * ONE,
           NumDiv(v.final, v.last) * v.last <= v.final * ONE
    PROVE  /\ Worth(EarnPosition(v, p)) <= Worth(p)
           /\ SyBalance(v, EarnPosition(v, p)) \in Nat
           /\ SyBalance(v, EarnPosition(v, p)) * ONE <= Worth(EarnPosition(v, p))
<1> DEFINE r == EarnPosition(v, p)
<1>1. /\ p.yt \in Nat /\ p.index \in Nat /\ p.staged \in Nat
      /\ v.final \in Nat \ {0} /\ v.last \in Nat \ {0}
      /\ ONE \in Nat \ {0}
    BY ONEAssumption DEF PositionRecord, VaultRecord
<1>2. /\ r \in PositionRecord /\ r.yt = p.yt /\ r.index = v.final
      /\ r.staged = p.staged + SyInterest(v, p) /\ SyInterest(v, p) \in Nat
    BY EarnTypes, EarnFields
<1> HIDE DEF r
<1>3. PICK x \in Nat, y \in Nat : x = ParValue(p) /\ y = ParValue(r)
    BY <1>2, ValuesNat
<1>4. PICK b \in Nat : b = NumDiv(ONE, v.final) /\ y = b * p.yt
    BY <1>1, <1>2, <1>3, ParValueIs
<1>5. PICK s \in Nat : s = SyInterest(v, p) /\ s * ONE + y <= x
    <2>1. CASE p.yt = 0
        <3>1. Earned(p.yt, p.index, v.final) = 0
            BY <2>1 DEF Earned
        <3>2. SyInterest(v, p) \in Nat /\ SyInterest(v, p) * v.last <= 0 * v.final
            <4>1. SyInterest(v, p) = ScaleToCurrent(0, v.final, v.last)
                BY <3>1 DEF SyInterest
            <4> QED BY <1>1, <4>1, ScaledDown
        <3>3. SyInterest(v, p) = 0
            <4>1. \A n \in Nat, m \in Nat \ {0} : n * m <= 0 => n = 0
                OBVIOUS
            <4> QED BY <1>1, <3>2, <4>1
        <3>4. y = 0
            BY <1>4, <2>1
        <3> QED BY <1>1, <1>3, <3>3, <3>4
    <2>2. CASE p.yt # 0
        <3>1. p.index \in Nat \ {0}
            BY <1>1, <2>2
        <3>2. PICK a \in Nat : a = NumDiv(ONE, p.index) /\ x = a * p.yt
            BY <1>3, <3>1, ParValueIs
        <3>3. PICK e \in Nat : e = Earned(p.yt, p.index, v.final)
                               /\ e * ONE <= (a - b) * p.yt
            BY <1>1, <1>4, <3>1, <3>2, EarnedRoundsDown
        <3>4. SyInterest(v, p) = ScaleToCurrent(e, v.final, v.last)
            BY <3>3 DEF SyInterest
        <3>5. PICK s \in Nat : s = SyInterest(v, p) /\ s * v.last <= e * v.final
            BY <1>1, <3>4, ScaledDown
        <3>6. s <= e
            <4>1. e * v.final <= e * v.last
                BY ONLY <1>1, <3>3, v.final <= v.last
            <4>2. s * v.last \in Int /\ e * v.final \in Int /\ e * v.last \in Int
                BY <1>1
            <4>3. s * v.last <= e * v.last
                BY ONLY <3>5, <4>1, <4>2
            <4> QED BY <1>1, <4>3, Cancel
        <3>7. s * ONE <= e * ONE
            BY <1>1, <3>6, Scaled
        <3>8. (a - b) * p.yt = x - y
            BY ONLY <1>1, <1>4, <3>2
        <3>9. s * ONE \in Nat /\ e * ONE \in Nat
            BY <1>1
        <3> QED BY ONLY <1>3, <3>3, <3>5, <3>7, <3>8, <3>9
    <2> QED BY <2>1, <2>2
<1>6. Worth(p) = p.staged * ONE + x
    BY <1>3 DEF Worth
<1>7. Worth(r) = (p.staged + s) * ONE + y
    BY <1>2, <1>3, <1>5 DEF Worth
<1>8. (p.staged + s) * ONE = p.staged * ONE + s * ONE
    BY ONLY <1>1, <1>5
<1>9. p.staged * ONE \in Nat /\ s * ONE \in Nat
    BY <1>1
<1>10. Worth(r) <= Worth(p)
    BY ONLY <1>3, <1>5, <1>6, <1>7, <1>8, <1>9
<1>11. PICK c \in Nat : c = PyToSy(v.final, p.yt) /\ c * v.final <= p.yt * ONE
    <2>1. PyToSy(v.final, p.yt) = (p.yt * ONE) \div v.final
        BY <1>1, PyToSyFloor
    <2>2. p.yt * ONE \in Nat
        BY <1>1
    <2> QED BY <1>1, <2>1, <2>2, Quotient
<1>12. c * ONE <= y
    <2>1. (c * v.final) * ONE <= (p.yt * ONE) * ONE
        <3>1. c * v.final \in Int /\ p.yt * ONE \in Int
            BY <1>1
        <3> QED BY ONLY <1>1, <1>11, <3>1, Scaled
    <2>2. (p.yt * ONE) * ONE = p.yt * (ONE * ONE)
        BY <1>1
    <2>3. p.yt * (b * v.final) = (b * p.yt) * v.final
        BY <1>1, <1>4
    <2>4. (c * v.final) * ONE = (c * ONE) * v.final
        BY <1>1, <1>11
    <2>5. (c * ONE) * v.final <= y * v.final
        BY ONLY <1>4, <2>1, <2>2, <2>3, <2>4, NumDiv(ONE, v.final) * v.final = ONE * ONE
    <2>6. c * ONE \in Int /\ y \in Int
        BY <1>1, <1>3
    <2> QED BY ONLY <1>1, <2>5, <2>6, Cancel
<1>13. SyBalance(v, r) = (p.staged + s) + c
    BY <1>2, <1>5, <1>11 DEF SyBalance
<1>14. ((p.staged + s) + c) * ONE = (p.staged + s) * ONE + c * ONE
    BY ONLY <1>1, <1>5, <1>11
<1>15. SyBalance(v, r) * ONE <= Worth(r)
    <2>1. (p.staged + s) * ONE \in Nat /\ c * ONE \in Nat
        BY <1>1
    <2> QED BY ONLY <1>3, <1>7, <1>12, <1>13, <1>14, <2>1
<1>16. SyBalance(v, r) \in Nat
    BY <1>1, <1>13
<1> QED BY <1>10, <1>15, <1>16 DEF r

(* Nobody is credited more than was due, and then nothing is due but what  *)
(* was credited, whatever happens to the balances.                         *)
LEMMA CreditsDue ==
    ASSUME NEW v \in VaultRecord, NEW p \in PositionRecord, ~EmergencyMode(v),
           v.final > 0, v.final <= v.last, p.index <= v.final,
           p.yt > 0 => p.index > 0,
           NumDiv(ONE, v.final) * v.final = ONE * ONE,
           NumDiv(v.final, v.last) * v.last <= v.final * ONE,
           NEW ems \in [EmissionIds -> EmissionRecord],
           NEW T \in [EmissionIds -> TrackerRecord],
           NEW i \in EmissionIds, T[i].index <= ems[i].final,
           NEW t, t = EarnEmissions(v, ems, EarnPosition(v, p), T)[i],
           NEW q \in PositionRecord
    PROVE  /\ t.index = ems[i].final
           /\ DueOf(ems[i], q, t) <= DueOf(ems[i], p, T[i])
<1> DEFINE r == EarnPosition(v, p)
           n == SyBalance(v, r)
           c == ShareValue(T[i].index, ems[i].final, n)
<1>1. /\ ems[i] \in EmissionRecord /\ T[i] \in TrackerRecord /\ r \in PositionRecord
      /\ ONE \in Nat \ {0}
    BY EarnTypes, ONEAssumption
<1>2. ems[i].final \in Nat /\ T[i].index \in Nat /\ T[i].staged \in Nat
    BY <1>1 DEF EmissionRecord, TrackerRecord
<1>3. n \in Nat /\ n * ONE <= Worth(r) /\ Worth(r) <= Worth(p)
    BY SettlesWorth
<1>4. Worth(r) \in Nat /\ Worth(p) \in Nat
    BY <1>1, DueNat
<1>5. t = [index |-> ems[i].final, staged |-> T[i].staged + c]
    BY DEF EarnEmissions
<1>6. c \in Nat /\ ONE * c <= (ems[i].final - T[i].index) * n
    <2> HIDE DEF n
    <2> QED BY <1>2, <1>3, ShareBelow
<1>7. PICK d \in Nat : d = ems[i].final - T[i].index
    BY <1>2
<1> HIDE DEF c, n, r
<1>8. n * ONE <= Worth(p)
    <2>1. n * ONE \in Nat
        BY <1>1, <1>3
    <2> QED BY ONLY <1>3, <1>4, <2>1
<1>9. c * (ONE * ONE) <= d * Worth(p)
    <2>1. (ONE * c) * ONE <= (d * n) * ONE
        <3>1. ONE * c \in Int /\ d * n \in Int
            BY <1>1, <1>3, <1>6
        <3> QED BY ONLY <1>1, <1>6, <1>7, <3>1, Scaled
    <2>2. (n * ONE) * d <= Worth(p) * d
        <3>1. n * ONE \in Int /\ Worth(p) \in Int
            BY <1>1, <1>3, <1>4
        <3> QED BY ONLY <1>7, <1>8, <3>1, Scaled
    <2>3. (ONE * c) * ONE = c * (ONE * ONE) /\ (d * n) * ONE = (n * ONE) * d
        BY <1>1, <1>3, <1>6
    <2>4. Worth(p) * d = d * Worth(p)
        BY <1>4
    <2>5. c * (ONE * ONE) \in Nat /\ (n * ONE) * d \in Nat /\ d * Worth(p) \in Nat
        BY <1>1, <1>3, <1>4, <1>6
    <2> QED BY ONLY <2>1, <2>2, <2>3, <2>4, <2>5
<1>10. t.index = ems[i].final /\ t.staged = T[i].staged + c
    BY <1>5
<1>11. DueOf(ems[i], q, t) = (T[i].staged + c) * (ONE * ONE)
    <2>1. Worth(q) \in Nat
        BY <1>1, DueNat
    <2>2. (ems[i].final - ems[i].final) * Worth(q) = 0
        BY <1>2, <2>1
    <2>3. (T[i].staged + c) * (ONE * ONE) \in Nat
        BY <1>1, <1>2, <1>6
    <2> QED BY <1>10, <2>2, <2>3 DEF DueOf
<1>12. DueOf(ems[i], p, T[i]) = T[i].staged * (ONE * ONE) + d * Worth(p)
    BY <1>7 DEF DueOf
<1>13. (T[i].staged + c) * (ONE * ONE) = T[i].staged * (ONE * ONE) + c * (ONE * ONE)
    BY ONLY <1>1, <1>2, <1>6
<1>14. /\ T[i].staged * (ONE * ONE) \in Nat /\ c * (ONE * ONE) \in Nat
       /\ d * Worth(p) \in Nat
    BY <1>1, <1>2, <1>4, <1>6
<1> QED BY ONLY <1>9, <1>10, <1>11, <1>12, <1>13, <1>14

(* The sum of what is due is whole.                                        *)
LEMMA SumOfDueNat ==
    ASSUME NEW ems \in [EmissionIds -> EmissionRecord], NEW i \in EmissionIds,
           NEW P \in [Positions -> PositionRecord],
           NEW T \in [Positions -> [EmissionIds -> TrackerRecord]],
           \A q \in Positions : T[q][i].index <= ems[i].final
    PROVE  /\ \A q \in Positions : DueOf(ems[i], P[q], T[q][i]) \in Nat
           /\ SumOfDue(i, ems, P, T) \in Nat
<1> DEFINE f == [q \in Positions |-> DueOf(ems[i], P[q], T[q][i])]
<1>1. \A q \in Positions : f[q] \in Nat
    BY DueNat
<1>2. SumOfDue(i, ems, P, T) = Total(Positions, f)
    BY DEF SumOfDue
<1>3. \A q \in Positions : DueOf(ems[i], P[q], T[q][i]) \in Nat
    BY DueNat
<1> HIDE DEF f
<1> QED BY <1>1, <1>2, <1>3, TotalNat, PositionsFinite

(* Nobody is due more of emission i with the positions Q and trackers U    *)
(* than with P and T.                                                      *)
NoMoreDue(i, ems, P, T, Q, U) ==
    \A q \in Positions :
        /\ U[q][i].index <= ems[i].final
        /\ DueOf(ems[i], Q[q], U[q][i]) <= DueOf(ems[i], P[q], T[q][i])

(* The cover holds when nobody is due more, and of a growth that the vault *)
(* has not seen yet, when it does not hold more SY.                        *)
LEMMA CoveredBelow ==
    ASSUME NEW s \in SyRecord, NEW ems \in [EmissionIds -> EmissionRecord],
           NEW i \in EmissionIds, NEW total \in Nat, NEW rest \in Nat,
           NEW P \in [Positions -> PositionRecord],
           NEW Q \in [Positions -> PositionRecord],
           NEW T \in [Positions -> [EmissionIds -> TrackerRecord]],
           NEW U \in [Positions -> [EmissionIds -> TrackerRecord]],
           Covered(i, s, ems, total, P, T),
           rest <= total \/ s.indexes[i] = ems[i].last,
           NoMoreDue(i, ems, P, T, Q, U)
    PROVE  Covered(i, s, ems, rest, Q, U)
<1>0. \A q \in Positions :
        /\ U[q][i].index <= ems[i].final
        /\ DueOf(ems[i], Q[q], U[q][i]) <= DueOf(ems[i], P[q], T[q][i])
    BY DEF NoMoreDue
<1>1. /\ ems[i].final <= ems[i].last /\ ems[i].last <= s.indexes[i]
      /\ \A q \in Positions : T[q][i].index <= ems[i].final
      /\ SumOfDue(i, ems, P, T) + ems[i].treasury * (ONE * ONE)
           + ((s.indexes[i] - ems[i].last) * total) * ONE <= s.owed[i] * ONE
    BY DEF Covered
<1>2. /\ s.indexes[i] \in Nat /\ s.owed[i] \in Nat /\ ems[i].last \in Nat
      /\ ems[i].final \in Nat /\ ems[i].treasury \in Nat /\ ONE \in Nat
    BY ONEAssumption DEF SyRecord, EmissionRecord
<1>3. PICK d \in Nat : d = s.indexes[i] - ems[i].last
    BY <1>1, <1>2
<1>4. SumOfDue(i, ems, Q, U) <= SumOfDue(i, ems, P, T)
    <2> DEFINE f == [q \in Positions |-> DueOf(ems[i], Q[q], U[q][i])]
               g == [q \in Positions |-> DueOf(ems[i], P[q], T[q][i])]
    <2>1. \A q \in Positions : f[q] \in Nat /\ g[q] \in Nat /\ f[q] <= g[q]
        BY <1>0, <1>1, SumOfDueNat
    <2>2. SumOfDue(i, ems, Q, U) = Total(Positions, f)
          /\ SumOfDue(i, ems, P, T) = Total(Positions, g)
        BY DEF SumOfDue
    <2> HIDE DEF f, g
    <2> QED BY <2>1, <2>2, TotalMonotone, PositionsFinite
<1>5. SumOfDue(i, ems, Q, U) \in Nat /\ SumOfDue(i, ems, P, T) \in Nat
    BY <1>0, <1>1, SumOfDueNat
<1>6. (d * rest) * ONE <= (d * total) * ONE
    <2>1. d * rest <= d * total
        <3>1. CASE rest <= total
            <4>1. rest * d <= total * d
                BY ONLY <1>3, <3>1, rest \in Int, total \in Int, Scaled
            <4>2. rest * d = d * rest /\ total * d = d * total
                BY <1>3
            <4> QED BY <4>1, <4>2
        <3>2. CASE s.indexes[i] = ems[i].last
            <4>1. d = 0
                BY <1>2, <1>3, <3>2
            <4>2. d * rest = 0 /\ d * total = 0
                BY <4>1
            <4> QED BY <4>2
        <3> QED BY <3>1, <3>2
    <2>2. d * rest \in Int /\ d * total \in Int
        BY <1>3
    <2> QED BY ONLY <1>2, <2>1, <2>2, Scaled
<1>7. /\ (d * rest) * ONE \in Nat /\ (d * total) * ONE \in Nat
      /\ ems[i].treasury * (ONE * ONE) \in Nat /\ s.owed[i] * ONE \in Nat
    BY <1>2, <1>3
<1>8. SumOfDue(i, ems, Q, U) + ems[i].treasury * (ONE * ONE)
        + ((s.indexes[i] - ems[i].last) * rest) * ONE <= s.owed[i] * ONE
    BY ONLY <1>1, <1>3, <1>4, <1>5, <1>6, <1>7
<1> QED BY <1>0, <1>1, <1>8 DEF Covered

(* What all positions are worth is staged or stood for by YT.              *)
LEMMA SumOfWorth ==
    ASSUME NEW v \in VaultRecord, NEW P \in [Positions -> PositionRecord],
           NEW staged, staged = Total(Positions, [q \in Positions |-> P[q].staged])
    PROVE  /\ staged \in Nat /\ SumOfPar(P) \in Nat
           /\ \A q \in Positions : Worth(P[q]) \in Nat
           /\ Total(Positions, [q \in Positions |-> Worth(P[q])])
                = staged * ONE + SumOfPar(P)
<1> DEFINE a == [q \in Positions |-> P[q].staged]
           b == [q \in Positions |-> P[q].staged * ONE]
           c == [q \in Positions |-> ParValue(P[q])]
           w == [q \in Positions |-> Worth(P[q])]
<1>1. ONE \in Nat
    BY ONEAssumption
<1>2. \A q \in Positions : P[q].staged \in Nat /\ ParValue(P[q]) \in Nat
    BY ValuesNat DEF PositionRecord
<1>3. \A q \in Positions : P[q].staged * ONE \in Nat
    BY <1>1, <1>2, ProductNat
<1>4. \A q \in Positions : a[q] \in Nat /\ b[q] = a[q] * ONE /\ b[q] \in Nat
                           /\ c[q] \in Nat /\ w[q] = b[q] + c[q]
    BY <1>2, <1>3 DEF Worth
<1>5. staged = Total(Positions, a) /\ SumOfPar(P) = Total(Positions, c)
    BY DEF SumOfPar
<1>6. \A q \in Positions : Worth(P[q]) \in Nat
    BY <1>2, <1>3 DEF Worth
<1> HIDE DEF a, b, c
<1>7. Total(Positions, w) = Total(Positions, b) + Total(Positions, c)
    <2> HIDE DEF w
    <2> QED BY <1>4, TotalPlus, PositionsFinite
<1>8. Total(Positions, b) = Total(Positions, a) * ONE
    BY <1>1, <1>4, TotalTimes, PositionsFinite
<1>9. Total(Positions, a) \in Nat /\ Total(Positions, c) \in Nat
    BY <1>4, TotalNat, PositionsFinite
<1> QED BY <1>5, <1>6, <1>7, <1>8, <1>9

(* The vault takes over the growth of an emission: until maturity for its  *)
(* positions, which are together worth no more than it holds, afterwards   *)
(* for the treasury.                                                       *)
LEMMA CatchesUp ==
    ASSUME BooksInv, NEW i \in EmissionIds, IsActive \/ IsExpired,
           Covered(i, sy, emissions, vault.total, pos, trackers),
           IsActive => emissions[i].final = emissions[i].last
                       /\ Sound(FALSE, vault, pos)
    PROVE  /\ Covered(i, sy, SyncedEmissions, vault.total, pos, trackers)
           /\ SyncedEmissions[i].last = sy.indexes[i]
           /\ SyncedEmissions[i].final >= emissions[i].final
           /\ IsActive => SyncedEmissions[i].final = SyncedEmissions[i].last
<1> DEFINE e == emissions[i]
           s == SyncedEmissions[i]
           total == vault.total
           sum == SumOfDue(i, emissions, pos, trackers)
           Sum == SumOfDue(i, SyncedEmissions, pos, trackers)
<1>1. /\ TypeOK /\ UncollectedIsStaged
      /\ e \in EmissionRecord /\ pos \in [Positions -> PositionRecord]
      /\ vault \in VaultRecord
      /\ trackers \in [Positions -> [EmissionIds -> TrackerRecord]]
    BY DEF BooksInv, IInv, TypeOK
<1>2. /\ sy.indexes[i] \in Nat /\ sy.owed[i] \in Nat /\ e.last \in Nat
      /\ e.final \in Nat /\ e.treasury \in Nat /\ ONE \in Nat \ {0}
      /\ total \in Nat
    BY <1>1, ONEAssumption DEF TypeOK, SyRecord, EmissionRecord, VaultRecord
<1>3. /\ e.final <= e.last /\ e.last <= sy.indexes[i]
      /\ \A q \in Positions : trackers[q][i].index <= e.final
      /\ sum + e.treasury * (ONE * ONE)
           + ((sy.indexes[i] - e.last) * total) * ONE <= sy.owed[i] * ONE
    BY DEF Covered
<1>4. PICK d \in Nat : d = sy.indexes[i] - e.last
    BY <1>2, <1>3
<1>5. sum \in Nat
    BY <1>1, <1>3, SumOfDueNat DEF TypeOK
<1>6. s.last = sy.indexes[i]
    BY DEF SyncedEmissions
<1>7. ((sy.indexes[i] - s.last) * total) * ONE = 0
    BY <1>2, <1>6
<1>8. CASE IsExpired
    <2>1. ~IsActive
        BY <1>8 DEF IsActive
    <2>2. /\ s.final = e.final
          /\ s.treasury = e.treasury + ShareValue(e.last, sy.indexes[i], total)
        BY <1>8, <2>1 DEF SyncedEmissions
    <2>3. PICK c \in Nat : /\ c = ShareValue(e.last, sy.indexes[i], total)
                           /\ ONE * c <= d * total
        BY <1>2, <1>3, <1>4, ShareBelow
    <2>4. Sum = sum
        BY <2>2 DEF SumOfDue, DueOf
    <2>5. c * (ONE * ONE) <= (d * total) * ONE
        <3>1. (ONE * c) * ONE <= (d * total) * ONE
            <4>1. ONE * c \in Int /\ d * total \in Int
                BY <1>2, <1>4, <2>3
            <4> QED BY ONLY <1>2, <2>3, <4>1, Scaled
        <3>2. (ONE * c) * ONE = c * (ONE * ONE)
            BY <1>2, <2>3
        <3> QED BY <3>1, <3>2
    <2>6. (e.treasury + c) * (ONE * ONE) = e.treasury * (ONE * ONE) + c * (ONE * ONE)
        BY ONLY <1>2, <2>3
    <2>7. /\ e.treasury * (ONE * ONE) \in Nat /\ c * (ONE * ONE) \in Nat
          /\ (d * total) * ONE \in Nat /\ sy.owed[i] * ONE \in Nat
        BY <1>2, <1>4, <2>3
    <2> HIDE DEF e, s, sum, Sum, total
    <2>8. Sum + s.treasury * (ONE * ONE) + ((sy.indexes[i] - s.last) * total) * ONE
            <= sy.owed[i] * ONE
        BY ONLY <1>3, <1>4, <1>5, <1>7, <2>2, <2>3, <2>4, <2>5, <2>6, <2>7
    <2>9. /\ s.final <= s.last /\ s.last <= sy.indexes[i]
          /\ \A q \in Positions : trackers[q][i].index <= s.final
        BY <1>2, <1>3, <1>6, <2>2
    <2> QED BY <1>2, <1>6, <2>1, <2>2, <2>8, <2>9 DEF Covered, s, e, Sum, total
<1>9. CASE IsActive
    <2>1. ~IsExpired
        BY <1>9 DEF IsActive
    <2>2. s.final = sy.indexes[i] /\ s.treasury = e.treasury
        BY <1>2, <1>9, <2>1 DEF SyncedEmissions
    <2>3. e.final = e.last
        BY <1>9
    <2> DEFINE f == [q \in Positions |-> DueOf(e, pos[q], trackers[q][i])]
               w == [q \in Positions |-> Worth(pos[q])]
               g == [q \in Positions |-> Worth(pos[q]) * d]
               h == [q \in Positions |-> DueOf(s, pos[q], trackers[q][i])]
               W == Total(Positions, w)
    <2>4. \A q \in Positions :
            /\ f[q] \in Nat /\ w[q] \in Nat /\ g[q] = w[q] * d /\ g[q] \in Nat
            /\ h[q] = f[q] + g[q]
        <3> SUFFICES ASSUME NEW q \in Positions
                     PROVE  /\ f[q] \in Nat /\ w[q] \in Nat
                            /\ g[q] = w[q] * d /\ g[q] \in Nat /\ h[q] = f[q] + g[q]
            OBVIOUS
        <3>1. pos[q] \in PositionRecord /\ trackers[q][i] \in TrackerRecord
            BY <1>1
        <3>2. Worth(pos[q]) \in Nat /\ f[q] \in Nat
            BY <1>1, <1>3, <3>1, DueNat
        <3>3. PICK x \in Nat, n \in Nat, y \in Nat :
                /\ x = trackers[q][i].staged * (ONE * ONE)
                /\ n = e.final - trackers[q][i].index
                /\ y = Worth(pos[q])
            <4>1. trackers[q][i].staged \in Nat /\ trackers[q][i].index \in Nat
                BY <3>1 DEF TrackerRecord
            <4> QED BY <1>2, <1>3, <3>2, <4>1
        <3>4. f[q] = x + n * y
            BY <3>3 DEF DueOf
        <3>5. s.final - trackers[q][i].index = n + d
            <4>1. trackers[q][i].index \in Nat
                BY <3>1 DEF TrackerRecord
            <4> QED BY <1>2, <1>4, <2>2, <2>3, <3>3, <4>1
        <3>6. h[q] = x + (n + d) * y
            BY <3>3, <3>5 DEF DueOf
        <3>7. (n + d) * y = n * y + y * d
            BY ONLY <1>4, <3>3
        <3>8. g[q] = y * d /\ n * y \in Nat /\ y * d \in Nat
            BY <1>4, <3>3
        <3> QED BY <3>2, <3>3, <3>4, <3>6, <3>7, <3>8
    <2>5. sum = Total(Positions, f) /\ Sum = Total(Positions, h)
        BY DEF SumOfDue
    <2>6. /\ vault.uncollected \in Nat /\ SumOfPar(pos) \in Nat
          /\ W = vault.uncollected * ONE + SumOfPar(pos)
        BY <1>1, SumOfWorth DEF UncollectedIsStaged
    <2> HIDE DEF f, g, h, w
    <2>7. Sum = sum + Total(Positions, g)
        BY <2>4, <2>5, TotalPlus, PositionsFinite
    <2>8. Total(Positions, g) = W * d
        BY <1>4, <2>4, TotalTimes, PositionsFinite
    <2>9. W <= total * ONE
        <3>1. SumOfPar(pos) <= Free(vault) * ONE
            BY <1>9 DEF Sound, CoversYt
        <3>2. PICK t \in Nat : t = vault.treasury
            BY <1>1 DEF VaultRecord
        <3>3. Free(vault) = total - t - vault.uncollected
            BY <3>2 DEF Free
        <3>4. (total - t - vault.uncollected) * ONE
                = total * ONE - t * ONE - vault.uncollected * ONE
            BY ONLY <1>2, <2>6, <3>2
        <3>5. total * ONE \in Nat /\ t * ONE \in Nat /\ vault.uncollected * ONE \in Nat
            BY <1>2, <2>6, <3>2
        <3> QED BY ONLY <2>6, <3>1, <3>3, <3>4, <3>5
    <2>10. W \in Nat /\ W * d <= (d * total) * ONE
        <3>1. W \in Nat /\ total * ONE \in Nat
            BY <1>2, <2>6
        <3>2. W * d <= (total * ONE) * d
            BY ONLY <1>4, <2>9, <3>1, Scaled
        <3>3. (total * ONE) * d = (d * total) * ONE
            BY <1>2, <1>4
        <3> QED BY <3>1, <3>2, <3>3
    <2>11. /\ e.treasury * (ONE * ONE) \in Nat /\ W * d \in Nat
           /\ (d * total) * ONE \in Nat /\ sy.owed[i] * ONE \in Nat
        BY <1>2, <1>4, <2>10
    <2> HIDE DEF e, s, sum, Sum, total, W
    <2>12. Sum + s.treasury * (ONE * ONE) + ((sy.indexes[i] - s.last) * total) * ONE
             <= sy.owed[i] * ONE
        BY ONLY <1>3, <1>4, <1>5, <1>7, <2>2, <2>7, <2>8, <2>10, <2>11
    <2>13. /\ s.final <= s.last /\ s.last <= sy.indexes[i] /\ s.final >= e.final
           /\ \A q \in Positions : trackers[q][i].index <= s.final
        <3>1. \A q \in Positions : trackers[q][i].index \in Nat
            BY <1>1 DEF TrackerRecord
        <3> QED BY <1>2, <1>3, <1>6, <2>2, <3>1
    <2> QED BY <1>6, <2>2, <2>12, <2>13 DEF Covered, s, e, Sum, total
<1> QED BY <1>8, <1>9

-----------------------------------------------------------------------------
(* Emissions: the invariant, and what bringing the vault up to date does.  *)

(* The invariant: solvency, and every emission covered.  Until maturity    *)
(* the vault's positions have earned up to the vault's last update.        *)
EmissionCovered(i) ==
    /\ Covered(i, sy, emissions, vault.total, pos, trackers)
    /\ ~IsExpired => emissions[i].final = emissions[i].last

EmissionsInv == SolvencyInv /\ \A i \in EmissionIds : EmissionCovered(i)

(* While no rate falls a sound vault settles its positions exactly.        *)
LEMMA SettlesExactly ==
    ASSUME ExactRates, ~RateMayFall, NEW matured, NEW v, NEW P, Sound(matured, v, P),
           NEW x \in Positions, v.final > 0
    PROVE  /\ v \in VaultRecord /\ P[x] \in PositionRecord
           /\ ~EmergencyMode(v) /\ v.final <= v.last /\ P[x].index <= v.final
           /\ P[x].yt > 0 => P[x].index > 0
           /\ NumDiv(ONE, v.final) * v.final = ONE * ONE
           /\ NumDiv(v.final, v.last) * v.last <= v.final * ONE
<1>1. Rated(matured, v, P)
    BY DEF Sound
<1>2. /\ v \in VaultRecord /\ P[x] \in PositionRecord
      /\ v.last \in Rates \cup {0} /\ v.final \in Rates \cup {0}
      /\ v.final <= v.ath /\ v.last = v.ath
      /\ P[x].index <= v.final /\ (P[x].yt > 0 => P[x].index > 0)
    BY <1>1 DEF Rated
<1>3. v.final \in Nat /\ v.last \in Nat /\ v.ath \in Nat
    BY <1>2 DEF VaultRecord
<1>4. v.final \in Rates \ {0} /\ v.last \in Rates /\ v.final <= v.last
    BY <1>2, <1>3
<1> QED BY <1>2, <1>3, <1>4 DEF ExactRates, EmergencyMode

(* A handler that synchronises leaves every emission covered.              *)
LEMMA SyncCovers ==
    ASSUME ExactRates, ~RateMayFall, EmissionsInv, TypeOK', CanSync,
           IsActive \/ sy.rate > 0 \/ ~EmergencyMode(SyncedVault),
           now' = now, emissions' = SyncedEmissions,
           sy'.indexes = sy.indexes, sy'.owed = sy.owed,
           trackers'[Robot] = SyncedTrackers,
           \A u \in Users : \/ pos'[u] = pos[u] /\ trackers'[u] = trackers[u]
                            \/ trackers'[u] = SettledTrackers(u),
           NEW i \in EmissionIds
    PROVE  EmissionCovered(i)'
<1>1. /\ SolvencyInv /\ BooksInv /\ TypeOK /\ EmissionCovered(i)
      /\ Sound(IsExpired, vault, pos)
    BY DEF EmissionsInv, SolvencyInv, BooksInv, IInv
<1>2. /\ sy \in SyRecord /\ Robot \in Positions /\ Users \subseteq Positions
      /\ pos \in [Positions -> PositionRecord]
      /\ pos' \in [Positions -> PositionRecord]
      /\ trackers \in [Positions -> [EmissionIds -> TrackerRecord]]
      /\ trackers' \in [Positions -> [EmissionIds -> TrackerRecord]]
      /\ vault.total \in Nat /\ vault'.total \in Nat
    BY <1>1 DEF TypeOK, Positions, VaultRecord
<1>3. SyncedEmissions \in [EmissionIds -> EmissionRecord]
    BY <1>1, SyncedTypes
<1>4. ~IsExpired => IsActive
    BY <1>1, RateTaken
<1>5. /\ Covered(i, sy, SyncedEmissions, vault.total, pos, trackers)
      /\ SyncedEmissions[i].last = sy.indexes[i]
      /\ IsActive => SyncedEmissions[i].final = SyncedEmissions[i].last
    <2>1. IsActive => ~IsExpired
        BY DEF IsActive
    <2>2. Covered(i, sy, emissions, vault.total, pos, trackers)
          /\ (IsActive => emissions[i].final = emissions[i].last
                          /\ Sound(FALSE, vault, pos))
        <3>1. IsActive => IsExpired = FALSE
            BY <2>1 DEF IsExpired
        <3> QED BY <1>1, <2>1, <3>1 DEF EmissionCovered
    <2> QED BY <1>1, <1>4, <2>2, CatchesUp
<1>6. \A q \in Positions : trackers[q][i].index <= SyncedEmissions[i].final
    BY <1>5 DEF Covered
<1>7. /\ trackers'[Robot][i].index = SyncedEmissions[i].final
      /\ DueOf(SyncedEmissions[i], pos'[Robot], trackers'[Robot][i])
            <= DueOf(SyncedEmissions[i], pos[Robot], trackers[Robot][i])
    <2>1. Sound(IsExpired, UpdatedVault, pos) /\ UpdatedVault.final > 0
        BY <1>1, UpdatesSoundly
    <2>2. /\ UpdatedVault \in VaultRecord /\ pos[Robot] \in PositionRecord
          /\ ~EmergencyMode(UpdatedVault) /\ UpdatedVault.final <= UpdatedVault.last
          /\ pos[Robot].index <= UpdatedVault.final
          /\ pos[Robot].yt > 0 => pos[Robot].index > 0
          /\ NumDiv(ONE, UpdatedVault.final) * UpdatedVault.final = ONE * ONE
          /\ NumDiv(UpdatedVault.final, UpdatedVault.last) * UpdatedVault.last
                <= UpdatedVault.final * ONE
        BY <1>2, <2>1, SettlesExactly
    <2>3. trackers'[Robot][i] = EarnEmissions(UpdatedVault, SyncedEmissions,
                EarnPosition(UpdatedVault, pos[Robot]), trackers[Robot])[i]
        BY DEF SyncedTrackers, SyncedRobot
    <2>4. pos'[Robot] \in PositionRecord
          /\ trackers[Robot] \in [EmissionIds -> TrackerRecord]
        BY <1>2
    <2> QED BY <1>2, <1>3, <1>6, <2>1, <2>2, <2>3, <2>4, CreditsDue
<1>8. ASSUME NEW u \in Users, trackers'[u] = SettledTrackers(u)
      PROVE  /\ trackers'[u][i].index = SyncedEmissions[i].final
             /\ DueOf(SyncedEmissions[i], pos'[u], trackers'[u][i])
                   <= DueOf(SyncedEmissions[i], pos[u], trackers[u][i])
    <2> DEFINE P == [pos EXCEPT ![Robot] = SyncedRobot]
    <2>1. Sound(IsExpired, SyncedVault, P) /\ SyncedVault.final > 0
        BY <1>1, SyncsSoundly
    <2>2. u \in Positions /\ P[u] = pos[u]
        BY <1>2, VaultAssumptions
    <2> HIDE DEF P
    <2>3. /\ SyncedVault \in VaultRecord /\ pos[u] \in PositionRecord
          /\ ~EmergencyMode(SyncedVault) /\ SyncedVault.final <= SyncedVault.last
          /\ pos[u].index <= SyncedVault.final
          /\ pos[u].yt > 0 => pos[u].index > 0
          /\ NumDiv(ONE, SyncedVault.final) * SyncedVault.final = ONE * ONE
          /\ NumDiv(SyncedVault.final, SyncedVault.last) * SyncedVault.last
                <= SyncedVault.final * ONE
        BY <2>1, <2>2, SettlesExactly
    <2>4. trackers'[u][i] = EarnEmissions(SyncedVault, SyncedEmissions,
                EarnPosition(SyncedVault, pos[u]), trackers[u])[i]
        BY <1>8 DEF SettledTrackers, SettledPosition
    <2>5. pos'[u] \in PositionRecord /\ trackers[u] \in [EmissionIds -> TrackerRecord]
        BY <1>2, <2>2
    <2> QED BY <1>3, <1>6, <2>1, <2>2, <2>3, <2>4, <2>5, CreditsDue
<1>9. ASSUME NEW q \in Positions
      PROVE  /\ trackers'[q][i].index <= SyncedEmissions[i].final
             /\ DueOf(SyncedEmissions[i], pos'[q], trackers'[q][i])
                   <= DueOf(SyncedEmissions[i], pos[q], trackers[q][i])
    <2>1. /\ SyncedEmissions[i].final \in Nat
          /\ DueOf(SyncedEmissions[i], pos[q], trackers[q][i]) \in Nat
        BY <1>2, <1>3, <1>6, SumOfDueNat DEF EmissionRecord
    <2>2. CASE q = Robot
        BY <1>7, <2>1, <2>2
    <2>3. CASE q \in Users /\ trackers'[q] = SettledTrackers(q)
        BY <1>8, <2>1, <2>3
    <2>4. CASE pos'[q] = pos[q] /\ trackers'[q] = trackers[q]
        BY <1>6, <2>1, <2>4
    <2> QED BY <2>2, <2>3, <2>4 DEF Positions
<1>10. Covered(i, sy, SyncedEmissions, vault'.total, pos', trackers')
    <2> DEFINE ems == SyncedEmissions
               rest == vault'.total
               Q == pos'
               U == trackers'
    <2>1. /\ ems \in [EmissionIds -> EmissionRecord] /\ rest \in Nat
          /\ Q \in [Positions -> PositionRecord]
          /\ U \in [Positions -> [EmissionIds -> TrackerRecord]]
        BY <1>2, <1>3
    <2>2. Covered(i, sy, ems, vault.total, pos, trackers) /\ sy.indexes[i] = ems[i].last
        BY <1>5
    <2>3. NoMoreDue(i, ems, pos, trackers, Q, U)
        BY <1>9 DEF NoMoreDue
    <2> HIDE DEF rest, Q, U, ems
    <2>4. Covered(i, sy, ems, rest, Q, U)
        BY ONLY <1>2, <2>1, <2>2, <2>3, i \in EmissionIds, CoveredBelow
    <2> QED BY <2>4 DEF rest, Q, U, ems
<1>11. Covered(i, sy', emissions', vault'.total, pos', trackers')
    BY <1>10 DEF Covered
<1>12. ~IsExpired' => emissions'[i].final = emissions'[i].last
    BY <1>4, <1>5 DEF IsExpired
<1> QED BY <1>11, <1>12 DEF EmissionCovered

(* The handlers that do.                                                   *)
LEMMA HandlersCover ==
    ASSUME ExactRates, ~RateMayFall, EmissionsInv, TypeOK', NEW i \in EmissionIds,
           \/ \E n \in Amounts : Strip(n) \/ Merge(n)
           \/ \E u \in Users : StageYield(u)
           \/ \E u \in Users, n \in Amounts : DepositYt(u, n) \/ WithdrawYt(u, n)
    PROVE  EmissionCovered(i)'
<1>1. /\ TypeOK /\ TypeOK' /\ Robot \in Positions /\ Users \subseteq Positions
      /\ Robot \notin Users
    BY VaultAssumptions DEF EmissionsInv, SolvencyInv, BooksInv, IInv, Positions
<1>2. /\ sy \in SyRecord /\ pos \in [Positions -> PositionRecord]
      /\ trackers \in [Positions -> [EmissionIds -> TrackerRecord]]
    BY <1>1 DEF TypeOK
<1>3. ASSUME NEW n \in Amounts, Strip(n) \/ Merge(n)
      PROVE  EmissionCovered(i)'
    <2>1. /\ CanSync /\ sy.rate > 0 /\ now' = now /\ emissions' = SyncedEmissions
          /\ trackers' = [trackers EXCEPT ![Robot] = SyncedTrackers]
          /\ \E x : pos' = [pos EXCEPT ![Robot] = x]
        BY <1>3 DEF Strip, Merge, SyStateValid
    <2>2. sy'.indexes = sy.indexes /\ sy'.owed = sy.owed
        BY <1>2, <1>3 DEF Strip, Merge, SyRecord
    <2>3. /\ trackers'[Robot] = SyncedTrackers
          /\ \A u \in Users : pos'[u] = pos[u] /\ trackers'[u] = trackers[u]
        BY <1>1, <1>2, <2>1
    <2> QED BY <1>1, <2>1, <2>2, <2>3, SyncCovers, SMTT(30)
<1>4. ASSUME NEW u \in Users,
             StageYield(u) \/ \E n \in Amounts : DepositYt(u, n) \/ WithdrawYt(u, n)
      PROVE  EmissionCovered(i)'
    <2>1. /\ CanSync /\ now' = now /\ emissions' = SyncedEmissions
          /\ IsActive \/ ~EmergencyMode(SyncedVault)
          /\ trackers' = [trackers EXCEPT ![Robot] = SyncedTrackers,
                                          ![u] = SettledTrackers(u)]
          /\ \E x, y : pos' = [pos EXCEPT ![Robot] = x, ![u] = y]
          /\ sy' = sy
        BY <1>4 DEF StageYield, DepositYt, WithdrawYt, StakeMoved
    <2>2. /\ trackers'[Robot] = SyncedTrackers /\ trackers'[u] = SettledTrackers(u)
          /\ \A w \in Users \ {u} : pos'[w] = pos[w] /\ trackers'[w] = trackers[w]
        BY <1>1, <1>2, <2>1
    <2>3. \A w \in Users : \/ pos'[w] = pos[w] /\ trackers'[w] = trackers[w]
                           \/ trackers'[w] = SettledTrackers(w)
        BY <2>2
    <2> QED BY <1>1, <2>1, <2>2, <2>3, SyncCovers
<1> QED BY <1>3, <1>4

-----------------------------------------------------------------------------
(* Emissions: each instruction.                                            *)

(* What the steps that leave an emission to itself have in common.         *)
LEMMA QuietCovers ==
    ASSUME EmissionsInv, TypeOK', NEW i \in EmissionIds,
           IsExpired => IsExpired', emissions'[i] = emissions[i],
           sy'.indexes[i] = sy.indexes[i], sy'.owed[i] = sy.owed[i],
           vault'.total <= vault.total,
           NoMoreDue(i, emissions, pos, trackers, pos', trackers')
    PROVE  EmissionCovered(i)'
<1>1. TypeOK /\ EmissionCovered(i)
    BY DEF EmissionsInv, SolvencyInv, BooksInv, IInv
<1> DEFINE rest == vault'.total
           Q == pos'
           U == trackers'
<1>2. /\ sy \in SyRecord /\ vault.total \in Nat /\ rest \in Nat
      /\ emissions \in [EmissionIds -> EmissionRecord]
      /\ pos \in [Positions -> PositionRecord]
      /\ Q \in [Positions -> PositionRecord]
      /\ trackers \in [Positions -> [EmissionIds -> TrackerRecord]]
      /\ U \in [Positions -> [EmissionIds -> TrackerRecord]]
    BY <1>1 DEF TypeOK, VaultRecord
<1>3. rest <= vault.total /\ NoMoreDue(i, emissions, pos, trackers, Q, U)
    OBVIOUS
<1> HIDE DEF rest, Q, U
<1>4. Covered(i, sy, emissions, vault.total, pos, trackers)
    BY <1>1 DEF EmissionCovered
<1>5. Covered(i, sy, emissions, rest, Q, U)
    BY ONLY <1>2, <1>3, <1>4, i \in EmissionIds, CoveredBelow
<1>6. Covered(i, sy', emissions', vault'.total, pos', trackers')
    BY <1>5 DEF Covered, SumOfDue, rest, Q, U
<1>7. ~IsExpired' => emissions'[i].final = emissions'[i].last
    BY <1>1 DEF EmissionCovered
<1> QED BY <1>6, <1>7 DEF EmissionCovered

(* Where positions and trackers stay nobody is due more.                   *)
LEMMA SameDue ==
    ASSUME TypeOK, NEW i \in EmissionIds, EmissionCovered(i),
           NEW Q, NEW U, Q = pos, U = trackers
    PROVE  NoMoreDue(i, emissions, pos, trackers, Q, U)
<1>1. \A q \in Positions : trackers[q][i].index <= emissions[i].final
    BY DEF EmissionCovered, Covered
<1>2. \A q \in Positions : DueOf(emissions[i], pos[q], trackers[q][i]) \in Nat
    BY <1>1, SumOfDueNat DEF TypeOK
<1> QED BY <1>1, <1>2 DEF NoMoreDue

(* Collecting interest settles a position up to the vault's last update    *)
(* and pays SY on which it then earns nothing more.                        *)
LEMMA CollectInterestCovers ==
    ASSUME ExactRates, ~RateMayFall, EmissionsInv, TypeOK', EscrowInSync',
           NEW i \in EmissionIds, NEW u \in Users, NEW n \in Nat,
           CollectInterest(u, n)
    PROVE  EmissionCovered(i)'
<1>1. /\ TypeOK /\ EscrowInSync /\ EmissionCovered(i) /\ Sound(IsExpired, vault, pos)
      /\ u \in Positions
    BY PositionsFinite DEF EmissionsInv, SolvencyInv, BooksInv, IInv
<1>2. /\ emissions \in [EmissionIds -> EmissionRecord]
      /\ pos \in [Positions -> PositionRecord]
      /\ pos' \in [Positions -> PositionRecord]
      /\ trackers \in [Positions -> [EmissionIds -> TrackerRecord]]
      /\ \A q \in Positions : trackers[q][i].index <= emissions[i].final
    BY <1>1 DEF TypeOK, EmissionCovered, Covered
<1>3. /\ FinalRateKnown(vault)
      /\ pos' = [pos EXCEPT ![u] = [EarnPosition(vault, pos[u]) EXCEPT !.staged = @ - n]]
      /\ trackers' = [trackers EXCEPT
            ![u] = EarnEmissions(vault, emissions, EarnPosition(vault, pos[u]), @)]
      /\ sy' = [sy EXCEPT !.position = @ - n]
      /\ now' = now /\ emissions' = emissions
    BY SMTT(60) DEF CollectInterest
<1>4. /\ sy'.indexes = sy.indexes /\ sy'.owed = sy.owed
      /\ vault'.total <= vault.total
    <2>1. sy'.position = sy.position - n
        BY <1>1, <1>3 DEF TypeOK, SyRecord
    <2>2. sy.position \in Nat
        BY <1>1 DEF TypeOK, SyRecord
    <2> QED BY <1>1, <1>3, <2>1, <2>2 DEF EscrowInSync, TypeOK, SyRecord
<1>5. /\ trackers'[u][i].index = emissions[i].final
      /\ DueOf(emissions[i], pos'[u], trackers'[u][i])
            <= DueOf(emissions[i], pos[u], trackers[u][i])
    <2>1. vault.final > 0
        BY <1>3 DEF FinalRateKnown
    <2>2. /\ vault \in VaultRecord /\ pos[u] \in PositionRecord
          /\ ~EmergencyMode(vault) /\ vault.final <= vault.last
          /\ pos[u].index <= vault.final /\ (pos[u].yt > 0 => pos[u].index > 0)
          /\ NumDiv(ONE, vault.final) * vault.final = ONE * ONE
          /\ NumDiv(vault.final, vault.last) * vault.last <= vault.final * ONE
        BY <1>1, <2>1, SettlesExactly
    <2>3. trackers'[u][i] = EarnEmissions(vault, emissions,
                EarnPosition(vault, pos[u]), trackers[u])[i]
        BY <1>1, <1>2, <1>3
    <2>4. pos'[u] \in PositionRecord /\ trackers[u] \in [EmissionIds -> TrackerRecord]
        BY <1>1, <1>2
    <2> QED BY <1>1, <1>2, <2>1, <2>2, <2>3, <2>4, CreditsDue
<1>6. \A q \in Positions : /\ DueOf(emissions[i], pos[q], trackers[q][i]) \in Nat
                           /\ emissions[i].final \in Nat
    BY <1>2, SumOfDueNat DEF EmissionRecord
<1>7. \A q \in Positions \ {u} : pos'[q] = pos[q] /\ trackers'[q] = trackers[q]
    BY <1>2, <1>3
<1>8. NoMoreDue(i, emissions, pos, trackers, pos', trackers')
    BY <1>2, <1>5, <1>6, <1>7 DEF NoMoreDue
<1> QED BY <1>3, <1>4, <1>8, QuietCovers DEF IsExpired

(* SY that is paid out to the treasury earns nothing more.                 *)
LEMMA TreasuryCovers ==
    ASSUME EmissionsInv, TypeOK', EscrowInSync',
           NEW i \in EmissionIds, NEW n \in Nat,
           CollectRobotInterest(n) \/ CollectTreasurySy(n)
    PROVE  EmissionCovered(i)'
<1>1. TypeOK /\ EscrowInSync /\ EmissionCovered(i)
    BY DEF EmissionsInv, SolvencyInv, BooksInv, IInv
<1>2. /\ emissions[i] \in EmissionRecord
      /\ pos \in [Positions -> PositionRecord]
      /\ pos' \in [Positions -> PositionRecord]
      /\ trackers \in [Positions -> [EmissionIds -> TrackerRecord]]
      /\ \A q \in Positions : trackers[q][i].index <= emissions[i].final
    BY <1>1 DEF TypeOK, EmissionCovered, Covered
<1>3. /\ sy' = [sy EXCEPT !.position = @ - n] /\ now' = now
      /\ emissions' = emissions /\ trackers' = trackers
    BY DEF CollectRobotInterest, CollectTreasurySy
<1>4. /\ sy'.indexes = sy.indexes /\ sy'.owed = sy.owed
      /\ vault'.total <= vault.total
    <2>1. sy'.position = sy.position - n
        BY <1>1, <1>3 DEF TypeOK, SyRecord
    <2>2. sy.position \in Nat
        BY <1>1 DEF TypeOK, SyRecord
    <2> QED BY <1>1, <1>3, <2>1, <2>2 DEF EscrowInSync, TypeOK, SyRecord
<1>5. \A q \in Positions : /\ pos'[q].yt = pos[q].yt /\ pos'[q].index = pos[q].index
                           /\ pos'[q].staged <= pos[q].staged
    <2>1. \A q \in Positions : pos[q].staged \in Nat
        BY <1>2 DEF PositionRecord
    <2>2. CASE CollectTreasurySy(n)
        BY <2>1, <2>2 DEF CollectTreasurySy
    <2>3. CASE CollectRobotInterest(n)
        <3>1. pos' = [pos EXCEPT ![Robot] = [pos[Robot] EXCEPT !.staged = @ - n]]
            BY <2>3 DEF CollectRobotInterest
        <3> QED BY <1>2, <2>1, <3>1, PositionsFinite DEF PositionRecord
    <2> QED BY <2>2, <2>3
<1>6. ASSUME NEW q \in Positions
      PROVE  DueOf(emissions[i], pos'[q], trackers[q][i])
                <= DueOf(emissions[i], pos[q], trackers[q][i])
    <2> DEFINE p == pos[q]
               r == pos'[q]
               t == trackers[q][i]
    <2>1. /\ p \in PositionRecord /\ r \in PositionRecord /\ t \in TrackerRecord
          /\ p.staged \in Nat /\ r.staged \in Nat /\ t.staged \in Nat
          /\ t.index \in Nat /\ emissions[i].final \in Nat /\ ONE \in Nat
        BY <1>2, ONEAssumption DEF PositionRecord, TrackerRecord, EmissionRecord
    <2>2. PICK d \in Nat : d = emissions[i].final - t.index
        BY <1>2, <2>1
    <2>3. Worth(p) \in Nat /\ Worth(r) \in Nat
        BY <1>2, <2>1, DueNat
    <2>4. Worth(r) <= Worth(p)
        <3>1. ParValue(r) = ParValue(p)
            BY <1>5 DEF ParValue
        <3>2. r.staged * ONE <= p.staged * ONE
            BY <1>5, <2>1, Scaled
        <3>3. ParValue(p) \in Nat
            BY <1>1, <2>1, ValuesNat DEF TypeOK
        <3>4. r.staged * ONE \in Nat /\ p.staged * ONE \in Nat
            BY <2>1
        <3> QED BY <3>1, <3>2, <3>3, <3>4 DEF Worth
    <2> HIDE DEF p, r, t
    <2>5. Worth(r) * d <= Worth(p) * d
        BY ONLY <2>2, <2>3, <2>4, Scaled
    <2>6. /\ DueOf(emissions[i], r, t) = t.staged * (ONE * ONE) + d * Worth(r)
          /\ DueOf(emissions[i], p, t) = t.staged * (ONE * ONE) + d * Worth(p)
        BY <2>2 DEF DueOf
    <2>7. /\ Worth(r) * d = d * Worth(r) /\ Worth(p) * d = d * Worth(p)
          /\ d * Worth(r) \in Nat /\ d * Worth(p) \in Nat
          /\ t.staged * (ONE * ONE) \in Nat
        BY <2>1, <2>2, <2>3
    <2>8. DueOf(emissions[i], r, t) <= DueOf(emissions[i], p, t)
        BY ONLY <2>5, <2>6, <2>7
    <2> QED BY <2>8 DEF p, r, t
<1>7. NoMoreDue(i, emissions, pos, trackers, pos', trackers')
    BY <1>2, <1>3, <1>6 DEF NoMoreDue
<1> QED BY <1>3, <1>4, <1>7, QuietCovers DEF IsExpired

(* Paying a staged emission takes from what is owed what is no longer due. *)
LEMMA EmissionPaidCovers ==
    ASSUME EmissionsInv, TypeOK', NEW i \in EmissionIds, NEW j \in EmissionIds,
           NEW x \in Positions, NEW n \in Nat, n <= trackers[x][j].staged,
           sy.owed[j] >= Natural(n), sy' = [sy EXCEPT !.owed[j] = @ - Natural(n)],
           trackers' = [trackers EXCEPT ![x][j].staged = @ - n],
           UNCHANGED <<now, vault, emissions, pos>>
    PROVE  EmissionCovered(i)'
<1>1. TypeOK /\ EmissionCovered(i)
    BY DEF EmissionsInv, SolvencyInv, BooksInv, IInv
<1>2. /\ sy \in SyRecord /\ emissions \in [EmissionIds -> EmissionRecord]
      /\ pos \in [Positions -> PositionRecord] /\ vault.total \in Nat
      /\ trackers \in [Positions -> [EmissionIds -> TrackerRecord]]
      /\ trackers' \in [Positions -> [EmissionIds -> TrackerRecord]]
      /\ \A q \in Positions : trackers[q][i].index <= emissions[i].final
    BY <1>1 DEF TypeOK, EmissionCovered, Covered, VaultRecord
<1>3. /\ sy'.indexes = sy.indexes
      /\ sy'.owed = [sy.owed EXCEPT ![j] = @ - Natural(n)]
    BY <1>2 DEF SyRecord
<1>4. \A q \in Positions : DueOf(emissions[i], pos[q], trackers[q][i]) \in Nat
    BY <1>2, SumOfDueNat
<1>5. \A q \in Positions \ {x} : trackers'[q] = trackers[q]
    BY <1>2
<1>6. CASE i # j
    <2>1. sy'.owed[i] = sy.owed[i] /\ trackers'[x][i] = trackers[x][i]
        BY <1>2, <1>3, <1>6 DEF SyRecord
    <2>2. NoMoreDue(i, emissions, pos, trackers, pos', trackers')
        BY <1>2, <1>4, <1>5, <2>1 DEF NoMoreDue
    <2>3. vault'.total <= vault.total /\ (IsExpired => IsExpired')
        BY <1>2 DEF IsExpired
    <2> QED BY <1>3, <2>1, <2>2, <2>3, QuietCovers
<1>7. CASE i = j
    <2> DEFINE f == [q \in Positions |-> DueOf(emissions[i], pos[q], trackers[q][i])]
               g == [q \in Positions |-> DueOf(emissions[i], pos[q], trackers'[q][i])]
               t == trackers[x][i]
               r == trackers'[x][i]
               sum == SumOfDue(i, emissions, pos, trackers)
               Sum == SumOfDue(i, emissions, pos, trackers')
    <2>1. /\ t \in TrackerRecord /\ r = [t EXCEPT !.staged = @ - n]
          /\ n <= t.staged
        BY <1>2, <1>7
    <2>2. /\ t.staged \in Nat /\ t.index \in Nat /\ r.index = t.index
          /\ r.staged = t.staged - n /\ r.staged \in Nat
          /\ ONE \in Nat \ {0}
        BY <2>1, ONEAssumption DEF TrackerRecord
    <2>3. \A q \in Positions : trackers'[q][i].index <= emissions[i].final
        BY <1>2, <1>5, <2>2
    <2>4. \A q \in Positions : DueOf(emissions[i], pos[q], trackers'[q][i]) \in Nat
        BY <1>2, <2>3, SumOfDueNat
    <2>5. \A q \in Positions : f[q] \in Nat /\ g[q] \in Nat
        BY <1>4, <2>4
    <2>6. \A q \in Positions \ {x} : g[q] = f[q]
        BY <1>5
    <2>7. f[x] = g[x] + n * (ONE * ONE)
        <3>1. PICK z \in Nat : z = (emissions[i].final - t.index) * Worth(pos[x])
            <4>1. /\ emissions[i] \in EmissionRecord /\ pos[x] \in PositionRecord
                  /\ t.index <= emissions[i].final
                BY <1>2
            <4>2. Worth(pos[x]) \in Nat
                BY <2>1, <4>1, DueNat
            <4>3. PICK d \in Nat : d = emissions[i].final - t.index
                BY <2>2, <4>1 DEF EmissionRecord
            <4> QED BY <4>2, <4>3, ProductNat
        <3>2. f[x] = t.staged * (ONE * ONE) + z /\ g[x] = r.staged * (ONE * ONE) + z
            BY <2>2, <3>1 DEF DueOf
        <3>3. r.staged * (ONE * ONE) = t.staged * (ONE * ONE) - n * (ONE * ONE)
            BY <2>2
        <3>4. t.staged * (ONE * ONE) \in Nat /\ n * (ONE * ONE) \in Nat
            BY <2>2, ProductNat
        <3> QED BY <3>1, <3>2, <3>3, <3>4
    <2>8. sum = Total(Positions, f) /\ Sum = Total(Positions, g)
        BY DEF SumOfDue
    <2>9. sum \in Nat /\ Sum \in Nat
        BY <1>2, <2>3, SumOfDueNat
    <2> HIDE DEF f, g, t, r
    <2>10. Total(Positions, g) + f[x] = Total(Positions, f) + g[x]
        BY <2>5, <2>6, PositionsFinite, TotalUpdate
    <2> HIDE DEF sum, Sum
    <2>11. sum = Sum + n * (ONE * ONE)
        <3>1. n * (ONE * ONE) \in Nat /\ f[x] \in Nat /\ g[x] \in Nat
            BY <2>2, <2>5, ProductNat
        <3> QED BY ONLY <2>7, <2>8, <2>9, <2>10, <3>1
    <2>12. sy'.owed[i] = sy.owed[i] - n * ONE /\ sy.owed[i] \in Nat
        BY <1>2, <1>3, <1>7 DEF SyRecord, Natural
    <2>13. sy'.owed[i] * ONE = sy.owed[i] * ONE - n * (ONE * ONE)
        BY <2>2, <2>12
    <2> DEFINE a == emissions[i].treasury * (ONE * ONE)
               b == ((sy.indexes[i] - emissions[i].last) * vault.total) * ONE
    <2>14. sum + a + b <= sy.owed[i] * ONE
        BY <1>1 DEF EmissionCovered, Covered, sum
    <2>15. a \in Nat /\ b \in Nat
        <3>1. /\ emissions[i].treasury \in Nat /\ emissions[i].last \in Nat
              /\ sy.indexes[i] \in Nat /\ emissions[i].last <= sy.indexes[i]
            BY <1>1, <1>2 DEF EmissionRecord, SyRecord, EmissionCovered, Covered
        <3>2. PICK d \in Nat : d = sy.indexes[i] - emissions[i].last
            BY <3>1
        <3> QED BY <1>2, <2>2, <3>1, <3>2, ProductNat
    <2>16. Sum + a + b <= sy'.owed[i] * ONE
        <3>1. n * (ONE * ONE) \in Nat /\ sy.owed[i] * ONE \in Nat
            BY <2>2, <2>12, ProductNat
        <3> HIDE DEF a, b
        <3> QED BY ONLY <2>9, <2>11, <2>13, <2>14, <2>15, <3>1
    <2>17. Covered(i, sy', emissions', vault'.total, pos', trackers')
        BY <1>1, <1>3, <2>3, <2>16 DEF EmissionCovered, Covered, Sum
    <2> QED BY <1>1, <2>17 DEF EmissionCovered, IsExpired
<1> QED BY <1>6, <1>7

(* So does paying the treasury's.                                          *)
LEMMA TreasuryEmissionCovers ==
    ASSUME EmissionsInv, TypeOK', NEW i \in EmissionIds, NEW j \in EmissionIds,
           NEW n \in Nat, CollectTreasuryEmission(j, n)
    PROVE  EmissionCovered(i)'
<1>1. TypeOK /\ EmissionCovered(i)
    BY DEF EmissionsInv, SolvencyInv, BooksInv, IInv
<1>2. /\ sy' = [sy EXCEPT !.owed[j] = @ - Natural(n)] /\ sy.owed[j] >= Natural(n)
      /\ emissions' = [emissions EXCEPT ![j].treasury = @ - n]
      /\ n <= emissions[j].treasury
      /\ UNCHANGED <<now, vault, pos, trackers>>
    BY DEF CollectTreasuryEmission
<1>3. /\ sy \in SyRecord /\ emissions \in [EmissionIds -> EmissionRecord]
      /\ vault.total \in Nat /\ ONE \in Nat
      /\ sy'.indexes = sy.indexes
      /\ sy'.owed = [sy.owed EXCEPT ![j] = @ - Natural(n)]
    BY <1>1, <1>2, ONEAssumption DEF TypeOK, SyRecord, VaultRecord
<1>4. CASE i # j
    <2>1. sy'.owed[i] = sy.owed[i] /\ emissions'[i] = emissions[i]
        BY <1>2, <1>3, <1>4 DEF SyRecord
    <2>2. NoMoreDue(i, emissions, pos, trackers, pos', trackers')
        BY <1>1, <1>2, SameDue
    <2>3. vault'.total <= vault.total /\ (IsExpired => IsExpired')
        BY <1>2, <1>3 DEF IsExpired
    <2> QED BY <1>3, <2>1, <2>2, <2>3, QuietCovers
<1>5. CASE i = j
    <2>1. /\ emissions'[i].final = emissions[i].final
          /\ emissions'[i].last = emissions[i].last
          /\ emissions'[i].treasury = emissions[i].treasury - n
          /\ emissions[i].treasury \in Nat
        BY <1>2, <1>3, <1>5 DEF EmissionRecord
    <2>2. sy'.owed[i] = sy.owed[i] - n * ONE /\ sy.owed[i] \in Nat
        BY <1>3, <1>5 DEF SyRecord, Natural
    <2> DEFINE sum == SumOfDue(i, emissions, pos, trackers)
               a == emissions[i].treasury * (ONE * ONE)
               b == ((sy.indexes[i] - emissions[i].last) * vault.total) * ONE
    <2>3. sum + a + b <= sy.owed[i] * ONE
        BY <1>1 DEF EmissionCovered, Covered
    <2>4. sum \in Nat
        BY <1>1, SumOfDueNat DEF EmissionCovered, Covered, TypeOK
    <2>5. b \in Nat
        <3>1. /\ emissions[i].last \in Nat
              /\ sy.indexes[i] \in Nat /\ emissions[i].last <= sy.indexes[i]
            BY <1>1, <1>3 DEF EmissionRecord, SyRecord, EmissionCovered, Covered
        <3>2. PICK d \in Nat : d = sy.indexes[i] - emissions[i].last
            BY <3>1
        <3> QED BY <1>3, <3>2, ProductNat
    <2>6. /\ sy'.owed[i] * ONE = sy.owed[i] * ONE - n * (ONE * ONE)
          /\ emissions'[i].treasury * (ONE * ONE) = a - n * (ONE * ONE)
        BY <1>3, <2>1, <2>2
    <2>7. n * (ONE * ONE) \in Nat /\ a \in Nat /\ sy.owed[i] * ONE \in Nat
        BY <1>3, <2>1, <2>2, ProductNat
    <2>8. SumOfDue(i, emissions', pos', trackers') = sum
        BY <1>2, <2>1 DEF SumOfDue, DueOf
    <2> HIDE DEF sum, a, b
    <2>9. sum + emissions'[i].treasury * (ONE * ONE) + b <= sy'.owed[i] * ONE
        BY ONLY <2>3, <2>4, <2>5, <2>6, <2>7
    <2>10. Covered(i, sy', emissions', vault'.total, pos', trackers')
        BY <1>1, <1>2, <1>3, <2>1, <2>8, <2>9 DEF EmissionCovered, Covered, b
    <2> QED BY <1>1, <1>2, <2>1, <2>10 DEF EmissionCovered, IsExpired
<1> QED BY <1>4, <1>5

(* An index grows by what the SY program then owes on the vault's SY.      *)
LEMMA AccrualCovers ==
    ASSUME EmissionsInv, TypeOK', NEW i \in EmissionIds, SyEmissionAccrues
    PROVE  EmissionCovered(i)'
<1>1. TypeOK /\ EscrowInSync /\ EmissionCovered(i)
    BY DEF EmissionsInv, SolvencyInv, BooksInv, IInv
<1>2. PICK j \in EmissionIds, d \in IndexSteps :
        sy' = [sy EXCEPT !.indexes[j] = @ + d, !.owed[j] = @ + d * sy.position]
    BY DEF SyEmissionAccrues
<1>3. /\ sy \in SyRecord /\ d \in Nat /\ ONE \in Nat
      /\ emissions \in [EmissionIds -> EmissionRecord]
      /\ vault.total \in Nat /\ sy.position = vault.total
      /\ UNCHANGED <<now, vault, emissions, pos, trackers>>
      /\ sy'.indexes = [sy.indexes EXCEPT ![j] = @ + d]
      /\ sy'.owed = [sy.owed EXCEPT ![j] = @ + d * vault.total]
    <2>1. d \in Nat
        BY VaultAssumptions
    <2>2. sy.position = vault.total
        BY <1>1 DEF EscrowInSync
    <2> QED BY <1>1, <1>2, <2>1, <2>2, ONEAssumption
               DEF TypeOK, SyRecord, VaultRecord, SyEmissionAccrues
<1>4. NoMoreDue(i, emissions, pos, trackers, pos', trackers')
    BY <1>1, <1>3, SameDue
<1>5. CASE i # j
    <2>1. sy'.owed[i] = sy.owed[i] /\ sy'.indexes[i] = sy.indexes[i]
        BY <1>3, <1>5 DEF SyRecord
    <2>2. vault'.total <= vault.total /\ (IsExpired => IsExpired')
        BY <1>3 DEF IsExpired
    <2> QED BY <1>3, <1>4, <2>1, <2>2, QuietCovers
<1>6. CASE i = j
    <2>1. /\ sy'.owed[i] = sy.owed[i] + d * vault.total /\ sy.owed[i] \in Nat
          /\ sy'.indexes[i] = sy.indexes[i] + d /\ sy.indexes[i] \in Nat
          /\ emissions[i].last \in Nat /\ emissions[i].treasury \in Nat
        BY <1>3, <1>6 DEF SyRecord, EmissionRecord
    <2>2. emissions[i].last <= sy.indexes[i]
        BY <1>1 DEF EmissionCovered, Covered
    <2>3. PICK g \in Nat : g = sy.indexes[i] - emissions[i].last
        BY <2>1, <2>2
    <2> DEFINE sum == SumOfDue(i, emissions, pos, trackers)
               a == emissions[i].treasury * (ONE * ONE)
    <2>4. sum + a + (g * vault.total) * ONE <= sy.owed[i] * ONE
        BY <1>1, <2>3 DEF EmissionCovered, Covered
    <2>5. sum \in Nat /\ a \in Nat
        BY <1>1, <1>3, <2>1, SumOfDueNat, ProductNat DEF EmissionCovered, Covered, TypeOK
    <2> HIDE DEF sum, a
    <2>6. /\ ((g + d) * vault.total) * ONE
                = (g * vault.total) * ONE + (d * vault.total) * ONE
          /\ (sy.owed[i] + d * vault.total) * ONE
                = sy.owed[i] * ONE + (d * vault.total) * ONE
        BY <1>3, <2>1, <2>3
    <2>7. /\ (g * vault.total) * ONE \in Nat /\ (d * vault.total) * ONE \in Nat
          /\ sy.owed[i] * ONE \in Nat
        BY <1>3, <2>1, <2>3, ProductNat
    <2>8. sum + a + ((g + d) * vault.total) * ONE <= (sy.owed[i] + d * vault.total) * ONE
        BY ONLY <2>4, <2>5, <2>6, <2>7
    <2>9. sy'.indexes[i] - emissions[i].last = g + d
        BY <1>3, <2>1, <2>3
    <2>10. emissions[i].last <= sy'.indexes[i]
        BY <1>3, <2>1, <2>2
    <2>11. Covered(i, sy', emissions', vault'.total, pos', trackers')
        BY <1>1, <1>3, <2>1, <2>8, <2>9, <2>10 DEF EmissionCovered, Covered, sum, a
    <2> QED BY <1>1, <1>3, <2>11 DEF EmissionCovered, IsExpired
<1> QED BY <1>5, <1>6

(* Nothing is owed or due at first.                                        *)
LEMMA InitCovers == Init => EmissionsInv
<1> SUFFICES ASSUME Init PROVE EmissionsInv
    OBVIOUS
<1>1. SolvencyInv /\ TypeOK
    BY InitSolvent DEF SolvencyInv, BooksInv, IInv
<1> SUFFICES ASSUME NEW i \in EmissionIds PROVE EmissionCovered(i)
    BY <1>1 DEF EmissionsInv
<1>2. /\ emissions[i].last = InitialIndex /\ emissions[i].final = InitialIndex
      /\ emissions[i].treasury = 0 /\ sy.indexes[i] = InitialIndex
      /\ sy.owed[i] = 0 /\ vault.total = 0
      /\ \A q \in Positions : /\ trackers[q][i].index = 0 /\ trackers[q][i].staged = 0
                              /\ pos[q].staged = 0 /\ pos[q].yt = 0
    BY DEF Init, NoVault, NoTracker, NoPosition
<1>3. InitialIndex \in Nat /\ ONE \in Nat
    BY ONEAssumption, VaultAssumptions
<1>4. SumOfDue(i, emissions, pos, trackers) = 0
    <2> DEFINE f == [q \in Positions |-> DueOf(emissions[i], pos[q], trackers[q][i])]
    <2>1. \A q \in Positions : Worth(pos[q]) = 0
        BY <1>2, <1>3 DEF Worth, ParValue
    <2>2. \A q \in Positions : f[q] = 0
        BY <1>2, <1>3, <2>1 DEF DueOf
    <2> HIDE DEF f
    <2>3. Total(Positions, f) = 0
        BY <2>2, TotalZero
    <2> QED BY <2>3 DEF f, SumOfDue
<1> QED BY <1>2, <1>3, <1>4 DEF EmissionCovered, Covered

(* Every step leaves every emission covered.                               *)
LEMMA NextCovers ==
    ASSUME ExactRates, ~RateMayFall PROVE EmissionsInv /\ [Next]_vars => EmissionsInv'
<1> SUFFICES ASSUME EmissionsInv, [Next]_vars, SolvencyInv', NEW i \in EmissionIds
             PROVE  EmissionCovered(i)'
    BY NextSolvent DEF EmissionsInv
<1>1. /\ TypeOK /\ TypeOK' /\ EscrowInSync' /\ EmissionCovered(i)
      /\ vault.total \in Nat
    BY DEF EmissionsInv, SolvencyInv, BooksInv, IInv, TypeOK, VaultRecord
<1>2. ASSUME UNCHANGED <<vault, emissions, pos, trackers>>, now' \in {now, now + 1},
             sy'.indexes = sy.indexes, sy'.owed = sy.owed
      PROVE  EmissionCovered(i)'
    <2>1. IsExpired => IsExpired'
        BY <1>1, <1>2, RatesNat DEF IsExpired
    <2>2. NoMoreDue(i, emissions, pos, trackers, pos', trackers')
        BY <1>1, <1>2, SameDue
    <2> QED BY <1>1, <1>2, <2>1, <2>2, QuietCovers
<1>3. CASE UNCHANGED vars \/ Tick \/ ModifyVaultSetting \/ ChangeClaimLimits
    BY <1>2, <1>3 DEF vars, Tick, ModifyVaultSetting, ChangeClaimLimits
<1>4. CASE SyRateMoves
    BY <1>1, <1>2, <1>4 DEF SyRateMoves, TypeOK, SyRecord
<1>5. CASE SyEmissionAccrues
    BY <1>1, <1>5, AccrualCovers
<1>6. CASE \/ \E n \in Amounts : Strip(n) \/ Merge(n)
           \/ \E u \in Users : StageYield(u)
           \/ \E u \in Users, n \in Amounts : DepositYt(u, n) \/ WithdrawYt(u, n)
    BY <1>1, <1>6, HandlersCover
<1>7. ASSUME NEW u \in Users, NEW n \in Requests(pos[u].staged),
             CollectInterest(u, n)
      PROVE  EmissionCovered(i)'
    <2>1. n \in Nat
        BY <1>1, RequestsNat DEF TypeOK, Positions, PositionRecord
    <2> QED BY <1>1, <1>7, <2>1, CollectInterestCovers
<1>8. ASSUME NEW n \in Requests(pos[Robot].staged) \cup Requests(vault.treasury),
             CollectRobotInterest(n) \/ CollectTreasurySy(n)
      PROVE  EmissionCovered(i)'
    <2>1. n \in Nat
        BY <1>1, RequestsNat DEF TypeOK, Positions, PositionRecord, VaultRecord
    <2> QED BY <1>1, <1>8, <2>1, TreasuryCovers
<1>9. ASSUME NEW x \in Positions, NEW j \in EmissionIds,
             NEW n \in Requests(trackers[x][j].staged),
             CollectEmission(x, j, n) \/ (x = Robot /\ CollectRobotEmission(j, n))
      PROVE  EmissionCovered(i)'
    <2>1. n \in Nat
        BY <1>1, RequestsNat DEF TypeOK, TrackerRecord
    <2>2. /\ n <= trackers[x][j].staged /\ sy.owed[j] >= Natural(n)
          /\ sy' = [sy EXCEPT !.owed[j] = @ - Natural(n)]
          /\ trackers' = [trackers EXCEPT ![x][j].staged = @ - n]
          /\ UNCHANGED <<now, vault, emissions, pos>>
        BY <1>9 DEF CollectEmission, CollectRobotEmission
    <2> QED BY <1>1, <2>1, <2>2, EmissionPaidCovers
<1>10. ASSUME NEW j \in EmissionIds, NEW n \in Requests(emissions[j].treasury),
              CollectTreasuryEmission(j, n)
       PROVE  EmissionCovered(i)'
    <2>1. n \in Nat
        BY <1>1, RequestsNat DEF TypeOK, EmissionRecord
    <2> QED BY <1>1, <1>10, <2>1, TreasuryEmissionCovers
<1>11. Users \subseteq Positions /\ Robot \in Positions
    BY PositionsFinite
<1> QED BY <1>3, <1>4, <1>5, <1>6, <1>7, <1>8, <1>9, <1>10, <1>11 DEF Next

-----------------------------------------------------------------------------
(* Emissions: the theorem.                                                 *)

(* At exact rates that never fall the SY program owes the vault at least   *)
(* the emissions credited to positions and to the treasury, so that every  *)
(* collect_emission can be paid.                                           *)
THEOREM EmissionsCovered ==
    ASSUME ExactRates, ~RateMayFall PROVE Spec => []EmissionsBacked
<1>1. ASSUME EmissionsInv PROVE EmissionsBacked
    <2>1. TypeOK
        BY <1>1 DEF EmissionsInv, SolvencyInv, BooksInv, IInv
    <2> SUFFICES ASSUME NEW i \in EmissionIds
                 PROVE  Natural(EmissionClaims(i)) <= sy.owed[i]
        BY DEF EmissionsBacked
    <2>2. Covered(i, sy, emissions, vault.total, pos, trackers)
        BY <1>1 DEF EmissionsInv, EmissionCovered
    <2>3. /\ emissions \in [EmissionIds -> EmissionRecord]
          /\ pos \in [Positions -> PositionRecord]
          /\ trackers \in [Positions -> [EmissionIds -> TrackerRecord]]
          /\ emissions[i].treasury \in Nat /\ emissions[i].last \in Nat
          /\ sy.indexes[i] \in Nat /\ sy.owed[i] \in Nat /\ vault.total \in Nat
          /\ ONE \in Nat \ {0}
          /\ \A q \in Positions : trackers[q][i].index <= emissions[i].final
        BY <2>1, <2>2, ONEAssumption
           DEF TypeOK, EmissionRecord, SyRecord, VaultRecord, Covered
    <2> DEFINE f == [q \in Positions |-> trackers[q][i].staged]
               g == [q \in Positions |-> trackers[q][i].staged * (ONE * ONE)]
               h == [q \in Positions |-> DueOf(emissions[i], pos[q], trackers[q][i])]
               k == ONE * ONE
    <2>4. k \in Nat
        BY <2>3
    <2>5. \A q \in Positions : f[q] \in Nat /\ g[q] = f[q] * k
                               /\ g[q] \in Nat /\ h[q] \in Nat /\ g[q] <= h[q]
        <3> SUFFICES ASSUME NEW q \in Positions
                     PROVE  f[q] \in Nat /\ g[q] = f[q] * k
                            /\ g[q] \in Nat /\ h[q] \in Nat /\ g[q] <= h[q]
            OBVIOUS
        <3>1. /\ emissions[i] \in EmissionRecord /\ pos[q] \in PositionRecord
              /\ trackers[q][i] \in TrackerRecord
              /\ trackers[q][i].index <= emissions[i].final
            BY <2>3
        <3>2. trackers[q][i].staged \in Nat
            BY <3>1 DEF TrackerRecord
        <3>3. /\ DueOf(emissions[i], pos[q], trackers[q][i]) \in Nat
              /\ trackers[q][i].staged * (ONE * ONE)
                    <= DueOf(emissions[i], pos[q], trackers[q][i])
            BY <3>1, DueNat
        <3>4. trackers[q][i].staged * k \in Nat
            BY <2>4, <3>2, ProductNat
        <3> QED BY <3>2, <3>3, <3>4
    <2> HIDE DEF f, g, h, k
    <2>6. Total(Positions, g) = Total(Positions, f) * k
        BY <2>4, <2>5, TotalTimes, PositionsFinite
    <2>7. Total(Positions, g) <= Total(Positions, h)
        BY <2>5, TotalMonotone, PositionsFinite
    <2>8. /\ Total(Positions, f) \in Nat /\ Total(Positions, g) \in Nat
          /\ Total(Positions, h) \in Nat
        BY <2>5, TotalNat, PositionsFinite
    <2>9. PICK t \in Nat, e \in Nat :
            t = emissions[i].treasury /\ e = Total(Positions, f)
        BY <2>3, <2>8
    <2>10. EmissionClaims(i) = e + t
        BY <2>9 DEF EmissionClaims, f
    <2>11. PICK b \in Nat : b = ((sy.indexes[i] - emissions[i].last) * vault.total) * ONE
        <3>1. PICK d \in Nat : d = sy.indexes[i] - emissions[i].last
            BY <2>2, <2>3 DEF Covered
        <3> QED BY <2>3, <3>1, ProductNat
    <2>12. Total(Positions, h) + t * k + b <= sy.owed[i] * ONE
        BY <2>2, <2>9, <2>11 DEF Covered, SumOfDue, h, k
    <2>13. t * k \in Nat /\ e * k \in Nat /\ sy.owed[i] * ONE \in Nat
        BY <2>3, <2>4, <2>9, ProductNat
    <2>14. e * k + t * k <= sy.owed[i] * ONE
        BY ONLY <2>6, <2>7, <2>8, <2>9, <2>11, <2>12, <2>13
    <2>15. ((e + t) * ONE) * ONE <= sy.owed[i] * ONE
        <3>1. ((e + t) * ONE) * ONE = e * k + t * k
            BY <2>3, <2>9 DEF k
        <3> QED BY <2>14, <3>1
    <2>16. (e + t) * ONE <= sy.owed[i]
        <3>1. PICK m \in Int : m = (e + t) * ONE
            BY <2>3, <2>9
        <3>2. PICK n \in Int, o \in Nat \ {0} : n = sy.owed[i] /\ o = ONE
            BY <2>3
        <3>3. m * o <= n * o
            BY <2>15, <3>1, <3>2
        <3>4. m <= n
            BY ONLY <3>3, <3>1, <3>2, Cancel
        <3> QED BY <3>1, <3>2, <3>4
    <2> QED BY <2>10, <2>16 DEF Natural
<1>2. EmissionsInv /\ [Next]_vars => EmissionsInv'
    BY NextCovers
<1> QED BY <1>1, <1>2, InitCovers, PTL DEF Spec
=============================================================================
