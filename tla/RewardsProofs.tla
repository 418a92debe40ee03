---------------------------- MODULE RewardsProofs ----------------------------
(***************************************************************************)
(* Theorems about Rewards for every value of its constants: the stakes are *)
(* escrowed, no farm ever owes more than its stream, and only time pays.   *)
(***************************************************************************)
EXTENDS Rewards, ArithmeticTheorems

(* Held, of any position p, index and amount paid.                         *)
HeldBy(p, i, index, claimed) ==
    ONE * (claimed + TrackerAt(p, i).claimable)
        + (index - TrackerAt(p, i).seen) * p.staked

(* No tracker is ahead of the farm it belongs to, or belongs to none.      *)
TrackersBehind ==
    \A u \in Stakers :
        /\ Len(pos[u].trackers) <= Len(farms)
        /\ \A i \in DOMAIN farms : TrackerAt(pos[u], i).seen <= farms[i].index

(* One farm per mint, added before the last update.                        *)
FarmsOrdered ==
    /\ \A i, j \in DOMAIN farms : farms[i].mint = farms[j].mint => i = j
    /\ \A i \in DOMAIN farms : addedAt[farms[i].mint] <= lastUpdate

(* Nothing was paid in a mint that has no farm yet.                        *)
PaidByFarms ==
    \A u \in Stakers, m \in Mints \ FarmMints : paid[u][m] = 0

IInv ==
    /\ TypeOK
    /\ StakesEscrowed
    /\ lastUpdate <= now
    /\ removed = 0 => TrackersBehind /\ FarmsOrdered /\ PaidByFarms
    /\ StreamBounded

-----------------------------------------------------------------------------
(* Settlement.                                                             *)

(* What a sequence holds.                                                  *)
LEMMA SeqElement ==
    ASSUME NEW T, NEW s \in Seq(T), NEW i \in DOMAIN s
    PROVE  s[i] \in T
  OBVIOUS

(* A farm's numbers.                                                       *)
LEMMA FarmFields ==
    ASSUME NEW fs \in Seq(FarmRecord), NEW i \in DOMAIN fs
    PROVE  /\ fs[i] \in FarmRecord
           /\ fs[i].mint \in Mints
           /\ fs[i].rate \in Nat
           /\ fs[i].expiry \in Nat
           /\ fs[i].index \in Nat
<1>1. fs[i] \in FarmRecord
  BY SeqElement
<1> QED BY <1>1 DEF FarmRecord

(* A position's parts.                                                     *)
LEMMA PositionFields ==
    ASSUME NEW p \in PositionRecord
    PROVE  /\ p.open \in BOOLEAN
           /\ p.staked \in Nat
           /\ p.trackers \in Seq(Tracker)
           /\ p.space \in Nat
  BY DEF PositionRecord

(* A tracker, new or not, is one.                                          *)
LEMMA TrackerType ==
    ASSUME NEW p \in PositionRecord, NEW i
    PROVE  TrackerAt(p, i) \in Tracker
<1>1. NewTracker \in Tracker
  BY DEF Tracker, NewTracker
<1>2. i \in DOMAIN p.trackers => p.trackers[i] \in Tracker
  BY PositionFields, SeqElement
<1> QED BY <1>1, <1>2 DEF TrackerAt

(* A settled position has a tracker per farm, all at the farms' indexes.   *)
LEMMA SettledFields ==
    ASSUME NEW p \in PositionRecord, NEW fs \in Seq(FarmRecord)
    PROVE  /\ Settled(p, fs) \in PositionRecord
           /\ Settled(p, fs).staked = p.staked
           /\ Settled(p, fs).open = p.open
           /\ Settled(p, fs).space = p.space
           /\ Len(Settled(p, fs).trackers) = Larger(Len(p.trackers), Len(fs))
           /\ \A i \in DOMAIN fs :
                /\ i \in DOMAIN Settled(p, fs).trackers
                /\ TrackerAt(Settled(p, fs), i)
                     = Credited(TrackerAt(p, i), fs[i].index, p.staked)
                /\ Settled(p, fs).trackers[i]
                     = Credited(TrackerAt(p, i), fs[i].index, p.staked)
<1> DEFINE n == Larger(Len(p.trackers), Len(fs))
           ts == [i \in 1..n |->
                    IF i \in DOMAIN fs
                    THEN Credited(TrackerAt(p, i), fs[i].index, p.staked)
                    ELSE p.trackers[i]]
<1>1. n \in Nat /\ n >= Len(fs) /\ n >= Len(p.trackers)
      /\ (n = Len(fs) \/ n = Len(p.trackers))
  <2>1. Len(p.trackers) \in Nat /\ Len(fs) \in Nat
    BY DEF PositionRecord
  <2> QED BY <2>1 DEF Larger
<1>2. ASSUME NEW i \in 1..n
      PROVE  ts[i] \in Tracker
  <2>1. CASE i \in DOMAIN fs
    <3>1. fs[i].index \in Nat /\ p.staked \in Nat
      BY <2>1, FarmFields, PositionFields
    <3>2. TrackerAt(p, i) \in Tracker
      BY TrackerType
    <3>3. TrackerAt(p, i).seen \in Nat /\ TrackerAt(p, i).claimable \in Nat
      BY <3>2 DEF Tracker
    <3>4. ShareValue(TrackerAt(p, i).seen, fs[i].index, p.staked) \in Nat
      BY <3>1, <3>3, ShareValueNat
    <3>5. Credited(TrackerAt(p, i), fs[i].index, p.staked) \in Tracker
      BY <3>1, <3>3, <3>4 DEF Credited, Tracker
    <3> QED BY <2>1, <3>5
  <2>2. CASE i \notin DOMAIN fs
    <3>1. i \in DOMAIN p.trackers
      BY <1>1, <2>2 DEF PositionRecord
    <3>2. p.trackers[i] \in Tracker
      BY <3>1 DEF PositionRecord
    <3> QED BY <2>2, <3>2
  <2> QED BY <2>1, <2>2
<1>3. ts \in Seq(Tracker) /\ Len(ts) = n /\ DOMAIN ts = 1..n
  BY <1>1, <1>2
<1>4. Settled(p, fs) = [p EXCEPT !.trackers = ts]
  BY DEF Settled
<1>5. \A i \in DOMAIN fs :
        i \in 1..n /\ ts[i] = Credited(TrackerAt(p, i), fs[i].index, p.staked)
  BY <1>1
<1> HIDE DEF ts
<1>6. /\ Settled(p, fs) \in PositionRecord
      /\ Settled(p, fs).staked = p.staked
      /\ Settled(p, fs).open = p.open
      /\ Settled(p, fs).space = p.space
      /\ Settled(p, fs).trackers = ts
  BY ONLY <1>3, <1>4, p \in PositionRecord DEF PositionRecord
<1>7. \A i \in DOMAIN fs : TrackerAt(Settled(p, fs), i) = ts[i]
  BY <1>3, <1>5, <1>6 DEF TrackerAt
<1> QED BY <1>3, <1>5, <1>6, <1>7

(* Settling pays no more than what was earned since the last touch.        *)
LEMMA SettleBelow ==
    ASSUME NEW p \in PositionRecord, NEW fs \in Seq(FarmRecord),
           NEW i \in DOMAIN fs, NEW claimed \in Nat,
           TrackerAt(p, i).seen <= fs[i].index
    PROVE  HeldBy(Settled(p, fs), i, fs[i].index, claimed)
             <= HeldBy(p, i, fs[i].index, claimed)
<1> DEFINE t == TrackerAt(p, i)  index == fs[i].index
           earned == ShareValue(t.seen, index, p.staked)
<1>1. t.seen \in Nat /\ t.claimable \in Nat
  BY TrackerType DEF Tracker
<1>2. index \in Nat /\ p.staked \in Nat
  BY FarmFields, PositionFields
<1>3. earned \in Nat /\ ONE * earned <= (index - t.seen) * p.staked
  BY <1>1, <1>2, ShareBelow
<1>4. TrackerAt(Settled(p, fs), i) = [seen |-> index, claimable |-> t.claimable + earned]
  BY SettledFields DEF Credited
<1>5. HeldBy(Settled(p, fs), i, index, claimed)
        = ONE * (claimed + (t.claimable + earned)) + (index - index) * p.staked
  <2>1. Settled(p, fs).staked = p.staked
    BY SettledFields
  <2> QED BY <1>4, <2>1 DEF HeldBy
<1>6. HeldBy(p, i, index, claimed)
        = ONE * (claimed + t.claimable) + (index - t.seen) * p.staked
  BY DEF HeldBy
<1>7. (index - index) * p.staked = 0 /\ (index - t.seen) * p.staked \in Nat
  BY <1>1, <1>2
<1>8. ONE \in Nat /\ ONE * (claimed + (t.claimable + earned))
        = ONE * (claimed + t.claimable) + ONE * earned
      /\ ONE * (claimed + t.claimable) \in Nat /\ ONE * earned \in Nat
  <2> HIDE DEF t, earned
  <2> QED BY ONLY <1>1, <1>3, ONEAssumption, claimed \in Nat
<1> HIDE DEF t, index, earned
<1>9. HeldBy(Settled(p, fs), i, index, claimed) <= HeldBy(p, i, index, claimed)
  BY ONLY <1>3, <1>5, <1>6, <1>7, <1>8
<1> QED BY <1>9 DEF index

(* What a position holds is a natural while it is behind the farm.         *)
LEMMA HeldNat ==
    ASSUME NEW p \in PositionRecord, NEW i, NEW index \in Nat, NEW claimed \in Nat,
           TrackerAt(p, i).seen <= index
    PROVE  HeldBy(p, i, index, claimed) \in Nat
<1>1. TrackerAt(p, i).seen \in Nat /\ TrackerAt(p, i).claimable \in Nat
  BY TrackerType DEF Tracker
<1>2. p.staked \in Nat /\ ONE \in Nat
  BY ONEAssumption DEF PositionRecord
<1>3. (index - TrackerAt(p, i).seen) * p.staked \in Nat
  BY <1>1, <1>2, ProductNat, index - TrackerAt(p, i).seen \in Nat
<1>4. ONE * (claimed + TrackerAt(p, i).claimable) \in Nat
  BY <1>1, <1>2, ProductNat, claimed + TrackerAt(p, i).claimable \in Nat
<1> QED BY <1>3, <1>4 DEF HeldBy

-----------------------------------------------------------------------------
(* The passing of time.                                                    *)

(* Seconds to account for are never negative.                              *)
LEMMA ActiveNat ==
    ASSUME TypeOK, NEW i \in DOMAIN farms
    PROVE  ActiveTime(farms[i], now) \in Nat
<1>1. farms[i].expiry \in Nat /\ now \in Nat /\ lastUpdate \in Nat
  BY FarmFields DEF TypeOK
<1> QED BY <1>1 DEF ActiveTime, Smaller

(* Indexes only rise, and every farm keeps its place, mint and terms.      *)
LEMMA AdvancedFarms ==
    ASSUME TypeOK
    PROVE  /\ Advanced(now) \in Seq(FarmRecord)
           /\ Len(Advanced(now)) = Len(farms)
           /\ DOMAIN Advanced(now) = DOMAIN farms
           /\ \A i \in DOMAIN farms :
                /\ Advanced(now)[i].mint = farms[i].mint
                /\ Advanced(now)[i].rate = farms[i].rate
                /\ Advanced(now)[i].expiry = farms[i].expiry
                /\ \E d \in Nat :
                     /\ Advanced(now)[i].index = farms[i].index + d
                     /\ d * totalStaked
                          <= ONE * (farms[i].rate * ActiveTime(farms[i], now))
<1> DEFINE amount(i) == farms[i].rate * ActiveTime(farms[i], now)
<1>0. /\ totalStaked \in Nat /\ farms \in Seq(FarmRecord) /\ ONE \in Nat
      /\ \A i \in DOMAIN farms :
            farms[i] \in FarmRecord /\ farms[i].index \in Nat /\ farms[i].rate \in Nat
  BY ONEAssumption, FarmFields DEF TypeOK
<1>1. \A i \in DOMAIN farms : amount(i) \in Nat
  BY <1>0, ActiveNat, ProductNat
<1>2. CASE totalStaked = 0
  <2>1. Advanced(now) = farms
    BY <1>2 DEF Advanced
  <2>2. \A i \in DOMAIN farms : farms[i].index = farms[i].index + 0
                               /\ 0 * totalStaked <= ONE * amount(i)
    <3> HIDE DEF amount
    <3>1. \A i \in DOMAIN farms : ONE * amount(i) \in Nat
      BY <1>0, <1>1, ProductNat
    <3> QED BY <1>0, <1>2, <3>1
  <2> QED BY <1>0, <2>1, <2>2
<1>3. CASE totalStaked # 0
  <2>1. \A i \in DOMAIN farms :
          /\ FromRatio(amount(i), totalStaked) \in Nat
          /\ FromRatio(amount(i), totalStaked) * totalStaked <= ONE * amount(i)
    <3> HIDE DEF amount
    <3>1. ASSUME NEW i \in DOMAIN farms
          PROVE  /\ FromRatio(amount(i), totalStaked) \in Nat
                 /\ FromRatio(amount(i), totalStaked) * totalStaked <= amount(i) * ONE
      BY <1>0, <1>1, <1>3, RatioBelow
    <3>2. ASSUME NEW i \in DOMAIN farms
          PROVE  amount(i) * ONE = ONE * amount(i)
      BY <1>0, <1>1
    <3> QED BY ONLY <3>1, <3>2
  <2>2. Advanced(now) = [i \in DOMAIN farms |->
            [farms[i] EXCEPT !.index = @ + FromRatio(amount(i), totalStaked)]]
    BY <1>3 DEF Advanced
  <2> HIDE DEF amount
  <2>3. ASSUME NEW i \in DOMAIN farms
        PROVE  /\ Advanced(now)[i] \in FarmRecord
               /\ Advanced(now)[i].mint = farms[i].mint
               /\ Advanced(now)[i].rate = farms[i].rate
               /\ Advanced(now)[i].expiry = farms[i].expiry
               /\ Advanced(now)[i].index = farms[i].index + FromRatio(amount(i), totalStaked)
    <3>1. PICK d \in Nat : d = FromRatio(amount(i), totalStaked)
      BY <2>1
    <3>2. Advanced(now)[i] = [farms[i] EXCEPT !.index = farms[i].index + d]
      BY <2>2, <3>1
    <3>3. farms[i].index + d \in Nat /\ farms[i] \in FarmRecord
      BY <1>0, <3>1
    <3> QED BY ONLY <3>1, <3>2, <3>3 DEF FarmRecord
  <2>4. DOMAIN Advanced(now) = 1..Len(farms) /\ DOMAIN farms = 1..Len(farms)
        /\ Len(farms) \in Nat
    BY <1>0, <2>2
  <2>5. Advanced(now) = [i \in 1..Len(farms) |-> Advanced(now)[i]]
    BY <2>2, <2>4
  <2>6. Advanced(now) \in Seq(FarmRecord) /\ Len(Advanced(now)) = Len(farms)
    BY <2>3, <2>4, <2>5
  <2> QED BY <2>1, <2>3, <2>4, <2>6 DEF amount
<1> QED BY <1>2, <1>3

(* Seconds streamed between two timestamps by a farm that ends at expiry.  *)
Streaming(expiry, begin, t) ==
    IF Smaller(expiry, t) <= begin THEN 0 ELSE Smaller(expiry, t) - begin

(* The seconds to account for are those streamed since the last update.    *)
LEMMA TimeAddsUp ==
    ASSUME TypeOK, NEW i \in DOMAIN farms, NEW begin \in Nat,
           begin <= lastUpdate, lastUpdate <= now
    PROVE  /\ Streaming(farms[i].expiry, begin, lastUpdate) \in Nat
           /\ Streaming(farms[i].expiry, begin, now)
                = Streaming(farms[i].expiry, begin, lastUpdate)
                    + ActiveTime(farms[i], now)
<1>1. farms[i].expiry \in Nat /\ now \in Nat /\ lastUpdate \in Nat
  BY FarmFields DEF TypeOK
<1> QED BY <1>1 DEF Streaming, ActiveTime, Smaller

(* The stream of a farm, by its terms.                                     *)
LEMMA StreamedIs ==
    ASSUME TypeOK, NEW i \in DOMAIN farms
    PROVE  Streamed(i) = farms[i].rate
             * Streaming(farms[i].expiry, addedAt[farms[i].mint], lastUpdate)
<1>1. farms[i].rate \in Nat /\ farms[i].rate * 0 = 0
  BY FarmFields DEF TypeOK
<1> QED BY <1>1 DEF Streamed, Streaming

(* When an index rises, each stake earns its part of the rise.             *)
LEMMA HeldRises ==
    ASSUME NEW p \in PositionRecord, NEW i, NEW index \in Nat, NEW claimed \in Nat,
           NEW d \in Nat, TrackerAt(p, i).seen <= index
    PROVE  /\ HeldBy(p, i, index, claimed) \in Nat
           /\ HeldBy(p, i, index + d, claimed) = HeldBy(p, i, index, claimed) + p.staked * d
<1> DEFINE t == TrackerAt(p, i)
<1>1. t.seen \in Nat /\ t.claimable \in Nat
  BY TrackerType DEF Tracker
<1>2. p.staked \in Nat /\ ONE \in Nat
  BY ONEAssumption, PositionFields
<1>3. HeldBy(p, i, index, claimed) \in Nat
  BY HeldNat
<1>4. t.seen <= index
  OBVIOUS
<1>5. HeldBy(p, i, index, claimed)
        = ONE * (claimed + t.claimable) + (index - t.seen) * p.staked
  BY DEF HeldBy
<1>6. HeldBy(p, i, index + d, claimed)
        = ONE * (claimed + t.claimable) + ((index + d) - t.seen) * p.staked
  BY DEF HeldBy
<1> HIDE DEF t
<1>7. ((index + d) - t.seen) * p.staked = (index - t.seen) * p.staked + p.staked * d
  BY ONLY <1>1, <1>2, <1>4, index \in Nat, d \in Nat
<1>8. ONE * (claimed + t.claimable) \in Nat /\ (index - t.seen) * p.staked \in Nat
      /\ p.staked * d \in Nat
  BY <1>1, <1>2, <1>4, ProductNat, index - t.seen \in Nat, claimed + t.claimable \in Nat
<1>9. HeldBy(p, i, index + d, claimed)
        = ONE * (claimed + t.claimable) + ((index - t.seen) * p.staked + p.staked * d)
  BY ONLY <1>6, <1>7, Zenon
<1>10. \A x, y, z \in Nat : x + (y + z) = (x + y) + z
  OBVIOUS
<1> QED BY <1>3, <1>5, <1>8, <1>9, <1>10

(* The sum of what all stakers hold of farm i, at any index.               *)
HeldByAll(i, index) ==
    Total(Stakers, [u \in Stakers |-> HeldBy(pos[u], i, index, paid[u][farms[i].mint])])

(* A rise of the index costs the rise times all stakes.                    *)
LEMMA AllHeldRises ==
    ASSUME IInv, removed = 0, NEW i \in DOMAIN farms, NEW d \in Nat
    PROVE  HeldByAll(i, farms[i].index + d) = HeldByAll(i, farms[i].index) + totalStaked * d
<1> DEFINE index == farms[i].index
           claimed(u) == paid[u][farms[i].mint]
           f == [u \in Stakers |-> HeldBy(pos[u], i, index, claimed(u))]
           h == [u \in Stakers |-> HeldBy(pos[u], i, index + d, claimed(u))]
           s == [u \in Stakers |-> pos[u].staked]
           g == [u \in Stakers |-> s[u] * d]
<1>1. index \in Nat /\ farms[i].mint \in Mints
  BY FarmFields DEF IInv, TypeOK
<1>2. ASSUME NEW u \in Stakers
      PROVE  /\ pos[u] \in PositionRecord
             /\ claimed(u) \in Nat
             /\ TrackerAt(pos[u], i).seen <= index
             /\ s[u] \in Nat
  <2>1. pos[u] \in PositionRecord /\ claimed(u) \in Nat
    BY <1>1 DEF IInv, TypeOK
  <2>2. TrackerAt(pos[u], i).seen <= index
    BY DEF IInv, TrackersBehind
  <2> QED BY <2>1, <2>2, PositionFields
<1>3. ASSUME NEW u \in Stakers
      PROVE  f[u] \in Nat /\ g[u] \in Nat /\ h[u] = f[u] + g[u]
  <2> HIDE DEF index, claimed
  <2>1. /\ HeldBy(pos[u], i, index, claimed(u)) \in Nat
        /\ HeldBy(pos[u], i, index + d, claimed(u))
             = HeldBy(pos[u], i, index, claimed(u)) + pos[u].staked * d
    BY ONLY <1>1, <1>2, u \in Stakers, d \in Nat, HeldRises
  <2>2. pos[u].staked * d \in Nat
    BY <1>2, ProductNat
  <2> QED BY <2>1, <2>2
<1>4. IsFiniteSet(Stakers)
  BY RewardsAssumptions
<1>5. Total(Stakers, h) = Total(Stakers, f) + Total(Stakers, g)
  <2> HIDE DEF f, g, h
  <2> QED BY ONLY <1>3, <1>4, TotalPlus
<1>6. Total(Stakers, g) = Total(Stakers, s) * d
  <2>1. \A u \in Stakers : s[u] \in Nat /\ g[u] = s[u] * d
    BY <1>2
  <2> HIDE DEF s, g
  <2> QED BY ONLY <1>4, <2>1, d \in Nat, TotalTimes
<1>7. totalStaked = Total(Stakers, s) /\ totalStaked \in Nat
  BY DEF IInv, StakesEscrowed, TypeOK
<1>8. Total(Stakers, s) * d = totalStaked * d
  BY <1>7
<1> QED BY <1>5, <1>6, <1>8 DEF HeldByAll

(* Brought up to date, all that stakers hold stays within the stream: the  *)
(* rounded ratio times all stakes is no more than the tokens of the time.  *)
LEMMA AdvancedBounded ==
    ASSUME IInv, removed = 0, NEW i \in DOMAIN farms
    PROVE  HeldByAll(i, Advanced(now)[i].index)
             <= ONE * (farms[i].rate
                        * Streaming(farms[i].expiry, addedAt[farms[i].mint], now))
<1>0. TypeOK /\ lastUpdate <= now
  BY DEF IInv
<1> DEFINE rate == farms[i].rate
           begin == addedAt[farms[i].mint]
           before == Streaming(farms[i].expiry, begin, lastUpdate)
           dt == ActiveTime(farms[i], now)
<1>1. rate \in Nat /\ farms[i].mint \in Mints /\ dt \in Nat /\ ONE \in Nat
      /\ farms[i].index \in Nat
  BY <1>0, FarmFields, ActiveNat, ONEAssumption DEF TypeOK
<1>2. begin \in Nat /\ begin <= lastUpdate
  BY <1>1 DEF IInv, TypeOK, FarmsOrdered
<1>3. before \in Nat /\ Streaming(farms[i].expiry, begin, now) = before + dt
  BY <1>0, <1>2, TimeAddsUp
<1>4. PICK d \in Nat : /\ Advanced(now)[i].index = farms[i].index + d
                       /\ d * totalStaked <= ONE * (rate * dt)
  BY <1>0, AdvancedFarms
<1>5. HeldByAll(i, farms[i].index) <= ONE * (rate * before)
  <2>1. Streamed(i) = rate * before
    BY <1>0, StreamedIs
  <2>2. [u \in Stakers |-> Held(u, i)]
         = [u \in Stakers |-> HeldBy(pos[u], i, farms[i].index, paid[u][farms[i].mint])]
    BY DEF Held, HeldBy
  <2>3. Total(Stakers, [u \in Stakers |-> Held(u, i)]) <= ONE * Streamed(i)
    BY DEF IInv, StreamBounded
  <2> QED BY <2>1, <2>2, <2>3 DEF HeldByAll
<1>6. HeldByAll(i, farms[i].index + d) = HeldByAll(i, farms[i].index) + totalStaked * d
  BY AllHeldRises
<1>7. totalStaked \in Nat /\ totalStaked * d = d * totalStaked /\ totalStaked * d \in Nat
  <2>1. totalStaked \in Nat
    BY <1>0 DEF TypeOK
  <2> QED BY <2>1
<1>8. HeldByAll(i, farms[i].index) \in Nat
  <2> DEFINE f == [u \in Stakers |->
                    HeldBy(pos[u], i, farms[i].index, paid[u][farms[i].mint])]
  <2>1. ASSUME NEW u \in Stakers PROVE f[u] \in Nat
    <3>1. pos[u] \in PositionRecord /\ paid[u][farms[i].mint] \in Nat
          /\ TrackerAt(pos[u], i).seen <= farms[i].index
      BY <1>1 DEF IInv, TypeOK, TrackersBehind
    <3> QED BY <1>1, <3>1, HeldNat
  <2> HIDE DEF f
  <2>2. Total(Stakers, f) \in Nat
    BY <2>1, RewardsAssumptions, TotalNat
  <2> QED BY <2>2 DEF HeldByAll, f
<1>9. ONE * (rate * (before + dt)) = ONE * (rate * before) + ONE * (rate * dt)
      /\ ONE * (rate * before) \in Nat /\ ONE * (rate * dt) \in Nat
  <2> HIDE DEF rate, before, dt
  <2>1. rate * (before + dt) = rate * before + rate * dt
        /\ rate * before \in Nat /\ rate * dt \in Nat
    BY ONLY <1>1, <1>3
  <2>2. \A a, b \in Nat : ONE * (a + b) = ONE * a + ONE * b
                        /\ ONE * a \in Nat /\ ONE * b \in Nat
    BY ONLY <1>1
  <2> QED BY ONLY <2>1, <2>2
<1> HIDE DEF rate, begin, before, dt
<1>10. HeldByAll(i, Advanced(now)[i].index) <= ONE * (rate * (before + dt))
  BY ONLY <1>4, <1>5, <1>6, <1>7, <1>8, <1>9
<1>11. HeldByAll(i, Advanced(now)[i].index)
        <= ONE * (rate * Streaming(farms[i].expiry, begin, now))
  BY <1>3, <1>10
<1> QED BY <1>11 DEF rate, begin

-----------------------------------------------------------------------------
(* Steps.                                                                  *)

(* A position stays within its farms when it is settled.                   *)
LEMMA SettledLength ==
    ASSUME NEW p \in PositionRecord, NEW fs \in Seq(FarmRecord),
           Len(p.trackers) <= Len(fs)
    PROVE  Len(Settled(p, fs).trackers) <= Len(fs)
<1>1. Len(Settled(p, fs).trackers) = Larger(Len(p.trackers), Len(fs))
  BY SettledFields
<1>2. Len(p.trackers) \in Nat /\ Len(fs) \in Nat
  BY PositionFields
<1> QED BY <1>1, <1>2 DEF Larger

(* What every accruing instruction of staker u does: indexes are brought   *)
(* up to date and u's new position q holds no more than the old one did at *)
(* the new indexes.                                                        *)
Touches(u, q) ==
    /\ removed = 0
    /\ farms' = Advanced(now) /\ lastUpdate' = now /\ now' = now
    /\ addedAt' = addedAt /\ removed' = removed
    /\ q \in PositionRecord
    /\ pos' = [pos EXCEPT ![u] = q]
    /\ Len(q.trackers) <= Len(farms)
    /\ \A i \in DOMAIN farms :
        /\ TrackerAt(q, i).seen <= Advanced(now)[i].index
        /\ HeldBy(q, i, Advanced(now)[i].index, paid'[u][farms[i].mint])
             <= HeldBy(pos[u], i, Advanced(now)[i].index, paid[u][farms[i].mint])
    /\ \A v \in Stakers \ {u} : paid'[v] = paid[v]
    /\ \A m \in Mints \ FarmMints : paid'[u][m] = paid[u][m]

(* Such a step keeps all stakers within the streams.                       *)
LEMMA TouchKeepsStreams ==
    ASSUME IInv, TypeOK', NEW u \in Stakers, NEW q, Touches(u, q)
    PROVE  TrackersBehind' /\ FarmsOrdered' /\ PaidByFarms' /\ StreamBounded'
<1> DEFINE fs == Advanced(now)
<1>0. TypeOK /\ lastUpdate <= now /\ lastUpdate \in Nat /\ now \in Nat
      /\ TrackersBehind /\ FarmsOrdered /\ PaidByFarms /\ IsFiniteSet(Stakers)
  BY RewardsAssumptions DEF IInv, Touches, TypeOK
<1>1. /\ fs \in Seq(FarmRecord) /\ Len(fs) = Len(farms) /\ DOMAIN fs = DOMAIN farms
      /\ farms' = fs
      /\ \A i \in DOMAIN farms :
           /\ fs[i].mint = farms[i].mint
           /\ fs[i].rate = farms[i].rate
           /\ fs[i].expiry = farms[i].expiry
           /\ fs[i].index \in Nat /\ farms[i].index \in Nat
           /\ fs[i].index >= farms[i].index
  <2>1. \A i \in DOMAIN farms : farms[i].index \in Nat
    BY <1>0, FarmFields DEF TypeOK
  <2> QED BY <1>0, <2>1, AdvancedFarms DEF Touches
<1> HIDE DEF fs
<1>2. /\ pos'[u] = q /\ q \in PositionRecord
      /\ \A v \in Stakers \ {u} : pos'[v] = pos[v]
      /\ \A v \in Stakers : pos[v] \in PositionRecord /\ pos'[v] \in PositionRecord
  BY <1>0 DEF Touches, TypeOK
<1>3. ASSUME NEW v \in Stakers, NEW i \in DOMAIN farms
      PROVE  TrackerAt(pos[v], i).seen <= fs[i].index
  <2>1. TrackerAt(pos[v], i).seen <= farms[i].index
    BY <1>0 DEF TrackersBehind
  <2>2. TrackerAt(pos[v], i).seen \in Nat
    BY <1>2, TrackerType DEF Tracker
  <2> QED BY <1>1, <2>1, <2>2
<1>4. ASSUME NEW v \in Stakers, NEW i \in DOMAIN farms
      PROVE  TrackerAt(pos'[v], i).seen <= fs[i].index
  <2>1. CASE v = u
    BY <1>2, <2>1 DEF Touches, fs
  <2>2. CASE v # u
    BY <1>2, <1>3, <2>2
  <2> QED BY <2>1, <2>2
<1>5. TrackersBehind'
  <2>1. \A v \in Stakers : Len(pos'[v].trackers) <= Len(farms')
    BY <1>0, <1>1, <1>2 DEF Touches, TrackersBehind
  <2> QED BY <1>1, <1>4, <2>1 DEF TrackersBehind
<1>6. FarmMints' = FarmMints
  BY <1>1 DEF FarmMints
<1>7. \A i \in DOMAIN farms : /\ farms[i].mint \in Mints
                            /\ addedAt[farms[i].mint] \in Nat
                            /\ addedAt[farms[i].mint] <= lastUpdate
  BY <1>0, FarmFields DEF FarmsOrdered, TypeOK
<1>8. FarmsOrdered'
  <2>1. \A i \in DOMAIN farms' : addedAt'[farms'[i].mint] <= lastUpdate'
    BY <1>0, <1>1, <1>7 DEF Touches
  <2>2. \A i, j \in DOMAIN farms' : farms'[i].mint = farms'[j].mint => i = j
    BY <1>0, <1>1 DEF FarmsOrdered
  <2> QED BY <2>1, <2>2 DEF FarmsOrdered
<1>9. PaidByFarms'
  BY <1>0, <1>6 DEF PaidByFarms, Touches
<1>10. ASSUME NEW i \in DOMAIN farms
       PROVE  Total(Stakers, [v \in Stakers |-> Held(v, i)'])
                <= ONE * (farms[i].rate
                           * Streaming(farms[i].expiry, addedAt[farms[i].mint], now))
  <2> DEFINE index == fs[i].index
             m == farms[i].mint
             f == [v \in Stakers |-> HeldBy(pos[v], i, index, paid[v][m])]
             g == [v \in Stakers |-> HeldBy(pos'[v], i, index, paid'[v][m])]
  <2>1. \A v \in Stakers : Held(v, i)' = HeldBy(pos'[v], i, index, paid'[v][m])
    BY <1>1 DEF Held, HeldBy, TrackerAt
  <2>2. ASSUME NEW v \in Stakers
        PROVE  f[v] \in Nat /\ g[v] \in Nat /\ g[v] <= f[v]
    <3>1. index \in Nat /\ m \in Mints
      BY <1>1, <1>7
    <3>2. paid[v][m] \in Nat /\ paid'[v][m] \in Nat
      BY <1>0, <3>1 DEF TypeOK
    <3>3. TrackerAt(pos[v], i).seen <= index /\ TrackerAt(pos'[v], i).seen <= index
      BY <1>3, <1>4
    <3>4. f[v] = HeldBy(pos[v], i, index, paid[v][m])
          /\ g[v] = HeldBy(pos'[v], i, index, paid'[v][m])
      OBVIOUS
    <3>5. g[v] <= HeldBy(pos[v], i, index, paid[v][m])
      <4>1. CASE v = u
        <5>1. HeldBy(q, i, index, paid'[u][m]) <= HeldBy(pos[u], i, index, paid[u][m])
          BY DEF Touches, fs
        <5> QED BY <1>2, <3>4, <4>1, <5>1
      <4>2. CASE v # u
        <5>1. pos'[v] = pos[v] /\ paid'[v] = paid[v]
          BY <1>2, <4>2 DEF Touches
        <5>2. HeldBy(pos[v], i, index, paid[v][m]) \in Nat
          <6> HIDE DEF index, m
          <6> QED BY ONLY <1>2, <3>1, <3>2, <3>3, v \in Stakers, HeldNat
        <5>3. g[v] = HeldBy(pos[v], i, index, paid[v][m])
          BY <3>4, <5>1
        <5> HIDE DEF g, index, m
        <5> QED BY <5>2, <5>3
      <4> QED BY <4>1, <4>2
    <3> HIDE DEF index, m, f, g
    <3>6. HeldBy(pos[v], i, index, paid[v][m]) \in Nat
          /\ HeldBy(pos'[v], i, index, paid'[v][m]) \in Nat
      BY ONLY <1>2, <3>1, <3>2, <3>3, v \in Stakers, HeldNat
    <3> QED BY <3>4, <3>5, <3>6
  <2>3. [v \in Stakers |-> Held(v, i)'] = g
    BY <2>1
  <2>4. Total(Stakers, f) = HeldByAll(i, Advanced(now)[i].index)
    BY DEF HeldByAll, fs
  <2>5. HeldByAll(i, Advanced(now)[i].index)
         <= ONE * (farms[i].rate
                    * Streaming(farms[i].expiry, addedAt[farms[i].mint], now))
    BY AdvancedBounded DEF Touches
  <2>6. IsFiniteSet(Stakers)
    BY <1>0
  <2> HIDE DEF f, g
  <2>7. Total(Stakers, g) <= Total(Stakers, f)
    BY ONLY <2>2, <2>6, TotalMonotone
  <2>8. Total(Stakers, f) \in Nat /\ Total(Stakers, g) \in Nat
    BY ONLY <2>2, <2>6, TotalNat
  <2>9. ONE * (farms[i].rate
          * Streaming(farms[i].expiry, addedAt[farms[i].mint], now)) \in Nat
    <3>1. farms[i].rate \in Nat /\ farms[i].expiry \in Nat /\ ONE \in Nat
      BY <1>0, FarmFields, ONEAssumption DEF TypeOK
    <3>2. Streaming(farms[i].expiry, addedAt[farms[i].mint], now) \in Nat
      BY <1>0, <1>7, <3>1 DEF Streaming, Smaller
    <3> QED BY <3>1, <3>2, ProductNat
  <2> QED BY <2>3, <2>4, <2>5, <2>7, <2>8, <2>9
<1>11. StreamBounded'
  <2>1. \A i \in DOMAIN farms :
          Streamed(i)' = farms[i].rate
             * Streaming(farms[i].expiry, addedAt[farms[i].mint], now)
    <3> SUFFICES ASSUME NEW i \in DOMAIN farms
                 PROVE  Streamed(i)' = farms[i].rate
                   * Streaming(farms[i].expiry, addedAt[farms[i].mint], now)
      OBVIOUS
    <3>1. farms[i].rate \in Nat /\ farms[i].rate * 0 = 0
      BY <1>0, FarmFields DEF TypeOK
    <3>2. /\ farms'[i].mint = farms[i].mint /\ farms'[i].rate = farms[i].rate
          /\ farms'[i].expiry = farms[i].expiry
          /\ addedAt' = addedAt /\ lastUpdate' = now
      BY <1>1 DEF Touches
    <3> QED BY <3>1, <3>2 DEF Streamed, Streaming
  <2>2. DOMAIN farms' = DOMAIN farms
    BY <1>1
  <2>3. \A i \in DOMAIN farms' :
          Total(Stakers, [v \in Stakers |-> Held(v, i)'])
            <= ONE * Streamed(i)'
    BY <1>10, <2>1, <2>2
  <2> QED BY <2>3 DEF StreamBounded
<1> QED BY <1>5, <1>8, <1>9, <1>11

(* The streams' part of the invariant, which a decommissioning ends.       *)
Streams ==
    /\ removed = 0 => TrackersBehind /\ FarmsOrdered /\ PaidByFarms
    /\ StreamBounded

(* The streams see a position only through its trackers and its stake.     *)
LEMMA BystanderKeepsStreams ==
    ASSUME IInv, farms' = farms, lastUpdate' = lastUpdate, addedAt' = addedAt,
           paid' = paid, removed' = removed,
           \A u \in Stakers : /\ pos'[u].trackers = pos[u].trackers
                              /\ pos'[u].staked = pos[u].staked
    PROVE  Streams'
<1>1. \A u \in Stakers : \A i : TrackerAt(pos'[u], i) = TrackerAt(pos[u], i)
  BY DEF TrackerAt
<1>2. removed = 0 => TrackersBehind /\ FarmsOrdered /\ PaidByFarms
  BY DEF IInv
<1>3. TrackersBehind => TrackersBehind'
  BY <1>1 DEF TrackersBehind
<1>4. FarmsOrdered => FarmsOrdered'
  BY DEF FarmsOrdered
<1>5. PaidByFarms => PaidByFarms'
  BY DEF PaidByFarms, FarmMints
<1>6. StreamBounded'
  <2>1. \A i \in DOMAIN farms :
          [u \in Stakers |-> Held(u, i)'] = [u \in Stakers |-> Held(u, i)]
    BY <1>1 DEF Held
  <2>2. \A i \in DOMAIN farms : Streamed(i)' = Streamed(i)
    BY DEF Streamed
  <2> QED BY <2>1, <2>2 DEF IInv, StreamBounded
<1> QED BY <1>2, <1>3, <1>4, <1>5, <1>6 DEF Streams

(* A tracker at its farm's index holds just what is claimable.             *)
LEMMA HeldAtIndex ==
    ASSUME NEW p \in PositionRecord, NEW i, NEW index \in Nat, NEW claimed,
           TrackerAt(p, i).seen = index
    PROVE  HeldBy(p, i, index, claimed) = ONE * (claimed + TrackerAt(p, i).claimable) + 0
<1>1. p.staked \in Nat
  BY PositionFields
<1>2. (index - TrackerAt(p, i).seen) * p.staked = 0
  BY <1>1
<1> QED BY <1>2 DEF HeldBy

(* Settling a position and then changing its stake touches it.             *)
LEMMA RestakeTouches ==
    ASSUME IInv, removed = 0, NEW u \in Stakers,
           NEW p \in PositionRecord, p.trackers = pos[u].trackers, p.staked = pos[u].staked,
           NEW stake \in Nat, farms' = Advanced(now), lastUpdate' = now, now' = now,
           addedAt' = addedAt, removed' = removed, paid' = paid,
           pos' = [pos EXCEPT ![u] = [Settled(p, Advanced(now)) EXCEPT !.staked = stake]]
    PROVE  Touches(u, [Settled(p, Advanced(now)) EXCEPT !.staked = stake])
<1> DEFINE fs == Advanced(now)  w == Settled(p, fs)  q == [w EXCEPT !.staked = stake]
<1>1. /\ TypeOK /\ TrackersBehind
      /\ fs \in Seq(FarmRecord) /\ Len(fs) = Len(farms) /\ DOMAIN fs = DOMAIN farms
  BY AdvancedFarms DEF IInv
<1>2. \A i \in DOMAIN farms :
        fs[i].index \in Nat /\ farms[i].index \in Nat /\ farms[i].index <= fs[i].index
        /\ farms[i].mint \in Mints
  <2>1. \A i \in DOMAIN farms : farms[i].index \in Nat /\ farms[i].mint \in Mints
    BY <1>1, FarmFields DEF TypeOK
  <2> QED BY <1>1, <2>1, AdvancedFarms
<1> HIDE DEF fs
<1>3. /\ w \in PositionRecord /\ w.staked = p.staked
      /\ \A i \in DOMAIN farms :
           TrackerAt(w, i) = Credited(TrackerAt(p, i), fs[i].index, p.staked)
      /\ Len(w.trackers) <= Len(farms)
  <2>1. Len(p.trackers) <= Len(fs)
    BY <1>1 DEF TrackersBehind
  <2> QED BY <1>1, <2>1, SettledFields, SettledLength
<1> HIDE DEF w
<1>4. q \in PositionRecord /\ q.trackers = w.trackers
  BY ONLY <1>3, stake \in Nat DEF PositionRecord
<1> HIDE DEF q
<1>5. \A i : TrackerAt(q, i) = TrackerAt(w, i) /\ TrackerAt(p, i) = TrackerAt(pos[u], i)
  BY <1>4 DEF TrackerAt
<1>6. ASSUME NEW i \in DOMAIN farms
      PROVE  /\ TrackerAt(q, i).seen <= fs[i].index
             /\ HeldBy(q, i, fs[i].index, paid'[u][farms[i].mint])
                  <= HeldBy(pos[u], i, fs[i].index, paid[u][farms[i].mint])
  <2> DEFINE c == paid[u][farms[i].mint]  index == fs[i].index
  <2>1. c \in Nat /\ index \in Nat /\ i \in DOMAIN fs
    BY <1>1, <1>2 DEF TypeOK
  <2>2. TrackerAt(w, i).seen = index /\ TrackerAt(q, i).seen = index
    BY <1>3, <1>5 DEF Credited
  <2>3. TrackerAt(p, i).seen <= index
    <3>1. TrackerAt(pos[u], i).seen <= farms[i].index
      BY <1>1 DEF TrackersBehind
    <3>2. TrackerAt(p, i).seen \in Nat
      BY TrackerType DEF Tracker
    <3> QED BY <1>2, <1>5, <3>1, <3>2
  <2>4. HeldBy(w, i, index, c) <= HeldBy(p, i, index, c)
    BY <1>1, <2>1, <2>3, SettleBelow DEF w
  <2>5. HeldBy(q, i, index, c) = HeldBy(w, i, index, c)
    <3>1. HeldBy(q, i, index, c) = ONE * (c + TrackerAt(q, i).claimable) + 0
      BY ONLY <1>4, <2>1, <2>2, HeldAtIndex
    <3>2. HeldBy(w, i, index, c) = ONE * (c + TrackerAt(w, i).claimable) + 0
      BY ONLY <1>3, <2>1, <2>2, HeldAtIndex
    <3> QED BY <1>5, <3>1, <3>2
  <2>6. HeldBy(p, i, index, c) = HeldBy(pos[u], i, index, c)
    BY <1>5 DEF HeldBy
  <2>7. TrackerAt(q, i).seen <= index
    BY <2>1, <2>2
  <2> QED BY <2>4, <2>5, <2>6, <2>7
<1>7. Len(q.trackers) <= Len(farms)
  BY <1>3, <1>4
<1> QED BY <1>4, <1>6, <1>7 DEF Touches, q, w, fs

(* A stake changed at one position changes the sum of stakes as much.      *)
LEMMA StakeMoves ==
    ASSUME TypeOK, StakesEscrowed, NEW u \in Stakers, NEW q \in PositionRecord,
           pos' = [pos EXCEPT ![u] = q],
           totalStaked' + pos[u].staked = totalStaked + q.staked,
           lpEscrow' = totalStaked', totalStaked' \in Nat
    PROVE  StakesEscrowed'
<1> DEFINE f == [v \in Stakers |-> pos[v].staked]
           g == [v \in Stakers |-> pos'[v].staked]
<1>1. \A v \in Stakers : f[v] \in Nat /\ g[v] \in Nat
  <2>1. \A v \in Stakers : pos[v] \in PositionRecord /\ pos'[v] \in PositionRecord
    BY DEF TypeOK
  <2> QED BY <2>1, PositionFields
<1>2. g[u] = q.staked /\ f[u] = pos[u].staked /\ \A v \in Stakers \ {u} : g[v] = f[v]
  BY DEF TypeOK
<1>3. IsFiniteSet(Stakers)
  BY RewardsAssumptions
<1> HIDE DEF f, g
<1>4. Total(Stakers, g) + f[u] = Total(Stakers, f) + g[u]
  BY ONLY <1>1, <1>2, <1>3, u \in Stakers, TotalUpdate
<1>5. Total(Stakers, f) \in Nat /\ Total(Stakers, g) \in Nat
  BY ONLY <1>1, <1>3, TotalNat
<1>6. totalStaked = Total(Stakers, f)
  BY DEF StakesEscrowed, f
<1>7. totalStaked' = Total(Stakers, g)
  BY <1>1, <1>2, <1>4, <1>5, <1>6
<1> QED BY <1>7 DEF StakesEscrowed, g

(* A position whose stake and trackers are settled is one.                 *)
LEMMA RestakedType ==
    ASSUME TypeOK, NEW p \in PositionRecord, NEW stake \in Nat
    PROVE  /\ [Settled(p, Advanced(now)) EXCEPT !.staked = stake] \in PositionRecord
           /\ [Settled(p, Advanced(now)) EXCEPT !.staked = stake].staked = stake
<1>1. Settled(p, Advanced(now)) \in PositionRecord
  BY AdvancedFarms, SettledFields
<1> QED BY ONLY <1>1, stake \in Nat DEF PositionRecord

(* Opening an account changes neither trackers nor stake.                  *)
LEMMA PreparedFields ==
    ASSUME TypeOK, NEW p \in PositionRecord
    PROVE  /\ Prepared(p) \in PositionRecord
           /\ Prepared(p).trackers = p.trackers
           /\ Prepared(p).staked = p.staked
<1>1. Len(farms) \in Nat
  BY DEF TypeOK
<1> QED BY <1>1 DEF Prepared, PositionRecord

(* stake_lp.                                                               *)
LEMMA StakeStep ==
    ASSUME IInv, NEW u \in Stakers, NEW amount \in Amounts, StakeLp(u, amount)
    PROVE  IInv'
<1> DEFINE p == Prepared(pos[u])  w == Settled(p, Advanced(now))
           stake == w.staked + amount
<1>1. TypeOK /\ StakesEscrowed /\ amount \in Nat /\ pos[u] \in PositionRecord
      /\ lastUpdate <= now /\ now \in Nat
  BY RewardsAssumptions DEF IInv, TypeOK
<1>2. p \in PositionRecord /\ p.trackers = pos[u].trackers /\ p.staked = pos[u].staked
  BY <1>1, PreparedFields
<1>3. w.staked = pos[u].staked /\ pos[u].staked \in Nat
  BY <1>1, <1>2, AdvancedFarms, SettledFields, PositionFields
<1>4. stake \in Nat /\ stake = pos[u].staked + amount
  BY <1>1, <1>3
<1>5. pos' = [pos EXCEPT ![u] = [w EXCEPT !.staked = stake]]
  BY DEF StakeLp
<1>6. /\ farms' = Advanced(now) /\ lastUpdate' = now /\ now' = now
      /\ addedAt' = addedAt /\ removed' = removed /\ paid' = paid
      /\ totalStaked' = totalStaked + amount /\ lpEscrow' = lpEscrow + amount
      /\ lp' = [lp EXCEPT ![u] = lp[u] - amount] /\ amount <= lp[u] /\ escrow' = escrow
  BY DEF StakeLp, Brought
<1> HIDE DEF p, stake
<1>7. [w EXCEPT !.staked = stake] \in PositionRecord
      /\ [w EXCEPT !.staked = stake].staked = stake
  BY <1>1, <1>2, <1>4, RestakedType
<1>8. removed = 0 => Touches(u, [w EXCEPT !.staked = stake])
  BY <1>2, <1>4, <1>5, <1>6, RestakeTouches
<1> DEFINE q == [w EXCEPT !.staked = stake]
<1> HIDE DEF w, q
<1>9. TypeOK'
  <2>1. lp' \in [Stakers -> Nat]
    <3>1. lp \in [Stakers -> Nat]
      BY <1>1 DEF TypeOK
    <3>2. lp[u] - amount \in Nat
      BY <1>1, <1>6, <3>1
    <3> QED BY <1>6, <3>1, <3>2
  <2>2. pos' \in [Stakers -> PositionRecord]
    BY <1>1, <1>5, <1>7 DEF TypeOK, q
  <2>3. farms' \in Seq(FarmRecord)
    BY <1>1, <1>6, AdvancedFarms
  <2>4. totalStaked' \in Nat /\ lpEscrow' \in Nat
    BY <1>1, <1>6 DEF TypeOK
  <2> QED BY <1>1, <1>6, <2>1, <2>2, <2>3, <2>4 DEF TypeOK
<1>10. StakesEscrowed'
  <2>1. totalStaked' + pos[u].staked = totalStaked + q.staked /\ lpEscrow' = totalStaked'
        /\ totalStaked' \in Nat
    BY <1>1, <1>3, <1>4, <1>6, <1>7 DEF StakesEscrowed, TypeOK, q
  <2> QED BY <1>1, <1>5, <1>7, <2>1, StakeMoves DEF q
<1>11. removed = 0 => TrackersBehind' /\ FarmsOrdered' /\ PaidByFarms' /\ StreamBounded'
  BY <1>8, <1>9, TouchKeepsStreams
<1>12. removed # 0 => StreamBounded'
  BY <1>6 DEF StreamBounded
<1>13. lastUpdate' <= now'
  BY <1>1, <1>6
<1> QED BY <1>6, <1>9, <1>10, <1>11, <1>12, <1>13 DEF IInv

(* unstake_lp.                                                             *)
LEMMA UnstakeStep ==
    ASSUME IInv, NEW u \in Stakers, NEW amount \in Amounts, UnstakeLp(u, amount)
    PROVE  IInv'
<1> DEFINE p == pos[u]  w == Settled(p, Advanced(now))
           stake == w.staked - amount
<1>1. TypeOK /\ StakesEscrowed /\ amount \in Nat /\ p \in PositionRecord
      /\ lastUpdate <= now /\ now \in Nat
  BY RewardsAssumptions DEF IInv, TypeOK
<1>2. w.staked = p.staked /\ p.staked \in Nat /\ amount <= p.staked
  BY <1>1, AdvancedFarms, SettledFields, PositionFields DEF UnstakeLp
<1>3. stake \in Nat /\ stake = p.staked - amount
  BY <1>1, <1>2
<1>4. pos' = [pos EXCEPT ![u] = [w EXCEPT !.staked = stake]]
  BY DEF UnstakeLp
<1>5. p.staked <= totalStaked /\ totalStaked \in Nat
  <2>1. \A v \in Stakers : pos[v].staked \in Nat
    BY <1>1, PositionFields DEF TypeOK
  <2> DEFINE f == [v \in Stakers |-> pos[v].staked]
  <2>2. \A v \in Stakers : f[v] \in Nat
    BY <2>1
  <2>3. f[u] = p.staked /\ totalStaked = Total(Stakers, f)
    BY <1>1 DEF StakesEscrowed
  <2> HIDE DEF f
  <2>4. f[u] <= Total(Stakers, f)
    BY ONLY <2>2, RewardsAssumptions, u \in Stakers, TotalBounds
  <2> QED BY <1>1, <2>3, <2>4 DEF TypeOK
<1>6. /\ farms' = Advanced(now) /\ lastUpdate' = now /\ now' = now
      /\ addedAt' = addedAt /\ removed' = removed /\ paid' = paid
      /\ lpEscrow' = lpEscrow - amount
      /\ lp' = [lp EXCEPT ![u] = lp[u] + amount] /\ escrow' = escrow
  BY DEF UnstakeLp, Brought
<1>7. totalStaked' = totalStaked - amount
  <2>1. amount <= totalStaked
    BY <1>1, <1>2, <1>5
  <2> QED BY <1>1, <1>5, <2>1 DEF UnstakeLp, TotalWithout
<1> HIDE DEF p, stake
<1>8. [w EXCEPT !.staked = stake] \in PositionRecord
      /\ [w EXCEPT !.staked = stake].staked = stake
  BY <1>1, <1>3, RestakedType
<1>9. removed = 0 => Touches(u, [w EXCEPT !.staked = stake])
  <2>1. p.trackers = pos[u].trackers /\ p.staked = pos[u].staked
    BY DEF p
  <2> QED BY <1>1, <1>3, <1>4, <1>6, <2>1, RestakeTouches
<1> DEFINE q == [w EXCEPT !.staked = stake]
<1> HIDE DEF w, q
<1>10. TypeOK'
  <2>1. lp' \in [Stakers -> Nat]
    <3>1. lp \in [Stakers -> Nat]
      BY <1>1 DEF TypeOK
    <3>2. lp[u] + amount \in Nat
      BY <1>1, <3>1
    <3> QED BY <1>6, <3>1, <3>2
  <2>2. pos' \in [Stakers -> PositionRecord]
    BY <1>1, <1>4, <1>8 DEF TypeOK, q
  <2>3. farms' \in Seq(FarmRecord)
    BY <1>1, <1>6, AdvancedFarms
  <2>4. totalStaked' \in Nat /\ lpEscrow' \in Nat
    BY <1>1, <1>2, <1>5, <1>6, <1>7 DEF StakesEscrowed
  <2> QED BY <1>1, <1>6, <2>1, <2>2, <2>3, <2>4 DEF TypeOK
<1>11. StakesEscrowed'
  <2>1. totalStaked' + p.staked = totalStaked + q.staked /\ lpEscrow' = totalStaked'
        /\ totalStaked' \in Nat
    BY <1>1, <1>2, <1>3, <1>5, <1>6, <1>7, <1>8 DEF StakesEscrowed, q
  <2> QED BY <1>1, <1>4, <1>8, <2>1, StakeMoves DEF q, p
<1>12. removed = 0 => TrackersBehind' /\ FarmsOrdered' /\ PaidByFarms' /\ StreamBounded'
  BY <1>9, <1>10, TouchKeepsStreams
<1>13. removed # 0 => StreamBounded'
  BY <1>6 DEF StreamBounded
<1>14. lastUpdate' <= now'
  BY <1>1, <1>6
<1> QED BY <1>6, <1>10, <1>11, <1>12, <1>13, <1>14 DEF IInv

(* Emptying one claimable bucket of a settled position.                    *)
LEMMA EmptiedFields ==
    ASSUME NEW w \in PositionRecord, NEW i \in DOMAIN w.trackers
    PROVE  /\ [w EXCEPT !.trackers[i].claimable = 0] \in PositionRecord
           /\ [w EXCEPT !.trackers[i].claimable = 0].staked = w.staked
           /\ Len([w EXCEPT !.trackers[i].claimable = 0].trackers) = Len(w.trackers)
           /\ \A j : TrackerAt([w EXCEPT !.trackers[i].claimable = 0], j)
                      = IF j = i THEN [TrackerAt(w, i) EXCEPT !.claimable = 0]
                        ELSE TrackerAt(w, j)
<1> DEFINE ts == [w.trackers EXCEPT ![i].claimable = 0]
           q == [w EXCEPT !.trackers[i].claimable = 0]
<1>1. w.trackers \in Seq(Tracker) /\ w.staked \in Nat /\ w.trackers[i] \in Tracker
  BY PositionFields, SeqElement
<1>2. [w.trackers[i] EXCEPT !.claimable = 0] \in Tracker
  BY <1>1 DEF Tracker
<1>3. ts \in Seq(Tracker) /\ Len(ts) = Len(w.trackers) /\ DOMAIN ts = DOMAIN w.trackers
  BY <1>1, <1>2
<1>4. \A j \in DOMAIN w.trackers :
        ts[j] = IF j = i THEN [w.trackers[i] EXCEPT !.claimable = 0] ELSE w.trackers[j]
  BY <1>1
<1>5. q = [w EXCEPT !.trackers = ts]
  OBVIOUS
<1> HIDE DEF ts, q
<1>6. q \in PositionRecord /\ q.staked = w.staked /\ q.trackers = ts
  BY ONLY <1>3, <1>5, w \in PositionRecord DEF PositionRecord
<1>7. \A j : TrackerAt(q, j) = IF j = i THEN [TrackerAt(w, i) EXCEPT !.claimable = 0]
                               ELSE TrackerAt(w, j)
  BY <1>3, <1>4, <1>6 DEF TrackerAt
<1> QED BY <1>3, <1>6, <1>7 DEF q

(* claim_farm_emission.                                                    *)
LEMMA ClaimStep ==
    ASSUME IInv, NEW u \in Stakers, NEW i \in DOMAIN farms, ClaimFarmEmission(u, i)
    PROVE  IInv'
<1> DEFINE p == pos[u]  fs == Advanced(now)  w == Settled(p, fs)  m == farms[i].mint
           amount == w.trackers[i].claimable
           q == [w EXCEPT !.trackers[i].claimable = 0]
<1>1. /\ TypeOK /\ StakesEscrowed /\ p \in PositionRecord
      /\ lastUpdate <= now /\ now \in Nat /\ m \in Mints
  BY FarmFields DEF IInv, TypeOK
<1>2. fs \in Seq(FarmRecord) /\ Len(fs) = Len(farms) /\ DOMAIN fs = DOMAIN farms
  BY <1>1, AdvancedFarms
<1>3. \A j \in DOMAIN farms :
        fs[j].index \in Nat /\ farms[j].index \in Nat /\ farms[j].index <= fs[j].index
        /\ farms[j].mint \in Mints
  <2>1. \A j \in DOMAIN farms : farms[j].index \in Nat /\ farms[j].mint \in Mints
    BY <1>1, FarmFields DEF TypeOK
  <2> QED BY <1>1, <2>1, AdvancedFarms
<1> HIDE DEF fs, p
<1>4. /\ w \in PositionRecord /\ w.staked = p.staked /\ p.staked \in Nat
      /\ i \in DOMAIN w.trackers
      /\ \A j \in DOMAIN farms :
           /\ TrackerAt(w, j) = Credited(TrackerAt(p, j), fs[j].index, p.staked)
           /\ TrackerAt(w, j).seen = fs[j].index
  <2>1. \A j \in DOMAIN farms :
          TrackerAt(w, j) = Credited(TrackerAt(p, j), fs[j].index, p.staked)
    BY <1>1, <1>2, SettledFields
  <2>2. \A j \in DOMAIN farms : TrackerAt(w, j).seen = fs[j].index
    BY <2>1 DEF Credited
  <2> QED BY <1>1, <1>2, <2>1, <2>2, SettledFields, PositionFields
<1>5. pos' = [pos EXCEPT ![u] = q] /\ amount <= escrow[m]
  BY DEF ClaimFarmEmission, p, fs
<1>6. /\ farms' = fs /\ lastUpdate' = now /\ now' = now
      /\ addedAt' = addedAt /\ removed' = removed
      /\ paid' = [paid EXCEPT ![u] = [paid[u] EXCEPT ![m] = paid[u][m] + amount]]
      /\ escrow' = [escrow EXCEPT ![m] = escrow[m] - amount]
      /\ totalStaked' = totalStaked /\ lpEscrow' = lpEscrow /\ lp' = lp
  <2>1. paid' = [paid EXCEPT ![u][m] = paid[u][m] + amount]
    BY DEF ClaimFarmEmission, p, fs
  <2>2. paid \in [Stakers -> [Mints -> Nat]]
    BY <1>1 DEF TypeOK
  <2>3. paid' = [paid EXCEPT ![u] = [paid[u] EXCEPT ![m] = paid[u][m] + amount]]
    BY <2>1, <2>2
  <2> QED BY <2>3 DEF ClaimFarmEmission, Brought, p, fs
<1> HIDE DEF w, m
<1>7. /\ q \in PositionRecord /\ q.staked = w.staked
      /\ Len(q.trackers) = Len(w.trackers)
      /\ \A j : TrackerAt(q, j) = IF j = i THEN [TrackerAt(w, i) EXCEPT !.claimable = 0]
                                  ELSE TrackerAt(w, j)
  BY <1>4, EmptiedFields
<1>8. amount = TrackerAt(w, i).claimable /\ amount \in Nat
  <2>1. TrackerAt(w, i) \in Tracker
    BY <1>4, TrackerType
  <2> QED BY <1>4, <2>1 DEF TrackerAt, Tracker
<1> HIDE DEF q, amount
<1>9. /\ paid \in [Stakers -> [Mints -> Nat]] /\ paid' \in [Stakers -> [Mints -> Nat]]
      /\ \A v \in Stakers \ {u} : paid'[v] = paid[v]
      /\ paid'[u][m] = paid[u][m] + amount
      /\ \A n \in Mints \ {m} : paid'[u][n] = paid[u][n]
  <2>1. paid \in [Stakers -> [Mints -> Nat]]
    BY <1>1 DEF TypeOK
  <2>2. paid[u] \in [Mints -> Nat] /\ paid[u][m] + amount \in Nat
    BY <1>1, <1>8, <2>1
  <2>3. [paid[u] EXCEPT ![m] = paid[u][m] + amount] \in [Mints -> Nat]
    BY <2>2
  <2> QED BY <1>1, <1>6, <2>1, <2>2, <2>3
<1>10. TypeOK'
  <2>1. escrow' \in [Mints -> Nat]
    <3>1. escrow \in [Mints -> Nat]
      BY <1>1 DEF TypeOK
    <3>2. escrow[m] - amount \in Nat
      BY <1>1, <1>5, <1>8, <3>1
    <3> QED BY <1>6, <3>1, <3>2
  <2>2. pos' \in [Stakers -> PositionRecord]
    BY <1>1, <1>5, <1>7 DEF TypeOK
  <2> QED BY <1>1, <1>2, <1>6, <1>9, <2>1, <2>2 DEF TypeOK
<1>11. StakesEscrowed'
  <2>1. totalStaked' + pos[u].staked = totalStaked + q.staked /\ lpEscrow' = totalStaked'
        /\ totalStaked' \in Nat
    BY <1>1, <1>4, <1>6, <1>7 DEF StakesEscrowed, TypeOK, p
  <2> QED BY <1>1, <1>5, <1>7, <2>1, StakeMoves
<1>12. ASSUME removed = 0
       PROVE  Touches(u, q)
  <2>1. TrackersBehind /\ FarmsOrdered
    BY <1>12 DEF IInv
  <2>2. Len(q.trackers) <= Len(farms)
    <3>1. Len(p.trackers) <= Len(fs)
      BY <1>2, <2>1 DEF TrackersBehind, p
    <3> QED BY <1>1, <1>2, <1>7, <3>1, SettledLength DEF w
  <2>3. ASSUME NEW j \in DOMAIN farms
        PROVE  /\ TrackerAt(q, j).seen <= fs[j].index
               /\ HeldBy(q, j, fs[j].index, paid'[u][farms[j].mint])
                    <= HeldBy(p, j, fs[j].index, paid[u][farms[j].mint])
    <3> DEFINE index == fs[j].index  n == farms[j].mint  c == paid[u][n]
    <3>1. index \in Nat /\ n \in Mints /\ c \in Nat /\ paid'[u][n] \in Nat
          /\ j \in DOMAIN fs
      BY <1>2, <1>3, <1>9
    <3>2. TrackerAt(w, j).seen = index /\ TrackerAt(w, j) \in Tracker
      BY <1>4, TrackerType
    <3>3. TrackerAt(q, j).seen = index
      BY <1>7, <3>2 DEF Tracker
    <3>4. HeldBy(w, j, index, c) <= HeldBy(p, j, index, c)
      <4>1. TrackerAt(p, j).seen <= index
        <5>1. TrackerAt(p, j).seen <= farms[j].index
          BY <2>1 DEF TrackersBehind, p
        <5>2. TrackerAt(p, j).seen \in Nat
          BY <1>1, TrackerType DEF Tracker
        <5> QED BY <1>3, <5>1, <5>2
      <4> QED BY <1>1, <1>2, <3>1, <4>1, SettleBelow DEF w
    <3>5. HeldBy(w, j, index, c) = ONE * (c + TrackerAt(w, j).claimable) + 0
      BY ONLY <1>4, <3>1, <3>2, HeldAtIndex
    <3>6. HeldBy(q, j, index, paid'[u][n])
            = ONE * (paid'[u][n] + TrackerAt(q, j).claimable) + 0
      BY ONLY <1>7, <3>1, <3>3, HeldAtIndex
    <3>7. paid'[u][n] + TrackerAt(q, j).claimable = c + TrackerAt(w, j).claimable
      <4>1. CASE j = i
        <5>1. n = m /\ TrackerAt(q, j).claimable = 0
          BY <1>7, <3>2, <4>1 DEF m, Tracker
        <5>2. paid'[u][n] = c + amount
          BY <1>9, <5>1
        <5> HIDE DEF c, n
        <5> QED BY <1>8, <3>1, <4>1, <5>1, <5>2
      <4>2. CASE j # i
        <5>1. n # m
          BY <2>1, <4>2 DEF FarmsOrdered, m
        <5>2. paid'[u][n] = c /\ TrackerAt(q, j) = TrackerAt(w, j)
          BY <1>7, <1>9, <3>1, <4>2, <5>1
        <5> QED BY <5>2
      <4> QED BY <4>1, <4>2
    <3>8. HeldBy(q, j, index, paid'[u][n]) = HeldBy(w, j, index, c)
      BY <3>5, <3>6, <3>7
    <3> QED BY <3>1, <3>3, <3>4, <3>8
  <2>4. \A n \in Mints \ FarmMints : paid'[u][n] = paid[u][n]
    <3>1. m \in FarmMints
      BY DEF FarmMints, m
    <3> QED BY <1>9, <3>1
  <2> QED BY <1>5, <1>6, <1>7, <1>9, <1>12, <2>2, <2>3, <2>4 DEF Touches, fs, p
<1>13. removed = 0 => TrackersBehind' /\ FarmsOrdered' /\ PaidByFarms' /\ StreamBounded'
  BY <1>10, <1>12, TouchKeepsStreams
<1>14. removed # 0 => StreamBounded'
  BY <1>6 DEF StreamBounded
<1>15. lastUpdate' <= now'
  BY <1>1, <1>6
<1> QED BY <1>6, <1>10, <1>11, <1>13, <1>14, <1>15 DEF IInv

(* realloc_stake_position: neither stakes nor trackers change.             *)
LEMMA ReallocStep ==
    ASSUME IInv, NEW u \in Stakers, ReallocStakePosition(u)
    PROVE  IInv'
<1> DEFINE q == [pos[u] EXCEPT !.space = Len(farms)]
<1>1. TypeOK /\ StakesEscrowed /\ lastUpdate <= now /\ pos[u] \in PositionRecord
      /\ Len(farms) \in Nat
  BY DEF IInv, TypeOK
<1>2. q \in PositionRecord /\ q.staked = pos[u].staked /\ q.trackers = pos[u].trackers
  BY ONLY <1>1 DEF PositionRecord
<1>3. /\ pos' = [pos EXCEPT ![u] = q] /\ now' = now /\ farms' = farms
      /\ lastUpdate' = lastUpdate /\ totalStaked' = totalStaked /\ lp' = lp
      /\ lpEscrow' = lpEscrow /\ escrow' = escrow /\ paid' = paid
      /\ addedAt' = addedAt /\ removed' = removed
  BY DEF ReallocStakePosition
<1> HIDE DEF q
<1>4. TypeOK'
  BY <1>1, <1>2, <1>3 DEF TypeOK
<1>5. StakesEscrowed'
  <2>1. totalStaked' + pos[u].staked = totalStaked + q.staked /\ lpEscrow' = totalStaked'
        /\ totalStaked' \in Nat
    BY <1>1, <1>2, <1>3 DEF StakesEscrowed, TypeOK
  <2> QED BY <1>1, <1>2, <1>3, <2>1, StakeMoves
<1>6. \A v \in Stakers : /\ pos'[v].trackers = pos[v].trackers
                         /\ pos'[v].staked = pos[v].staked
  BY <1>1, <1>2, <1>3 DEF TypeOK
<1>7. Streams'
  BY <1>3, <1>6, BystanderKeepsStreams
<1> QED BY <1>1, <1>3, <1>4, <1>5, <1>7 DEF IInv, Streams

(* add_farm: nobody holds anything of the new farm yet.                    *)
LEMMA AddStep ==
    ASSUME IInv, NEW m \in Mints, NEW r \in TokenRates, NEW e \in Expiries,
           AddFarm(m, r, e)
    PROVE  IInv'
<1> DEFINE f == [mint |-> m, rate |-> r, expiry |-> e, index |-> 0]
<1>1. /\ TypeOK /\ StakesEscrowed /\ lastUpdate <= now /\ lastUpdate \in Nat
      /\ farms \in Seq(FarmRecord) /\ addedAt \in [Mints -> Nat]
  BY DEF IInv, TypeOK
<1>0. PICK n \in Nat : n = Len(farms) + 1
  BY <1>1
<1>2. f \in FarmRecord
  BY RewardsAssumptions DEF FarmRecord
<1>3. /\ farms' = Append(farms, f) /\ addedAt' = [addedAt EXCEPT ![m] = lastUpdate]
      /\ m \notin FarmMints
      /\ now' = now /\ lastUpdate' = lastUpdate /\ totalStaked' = totalStaked
      /\ pos' = pos /\ lp' = lp /\ lpEscrow' = lpEscrow /\ escrow' = escrow
      /\ paid' = paid /\ removed' = removed
  BY DEF AddFarm
<1>4. f.mint = m /\ f.rate = r /\ f.expiry = e /\ f.index = 0
  OBVIOUS
<1> HIDE DEF f
<1>5. /\ farms' \in Seq(FarmRecord) /\ DOMAIN farms' = DOMAIN farms \cup {n}
      /\ n \notin DOMAIN farms /\ farms'[n] = f /\ Len(farms') = n
      /\ \A i \in DOMAIN farms : farms'[i] = farms[i]
  BY <1>1, <1>2, <1>3, <1>0
<1>6. TypeOK'
  BY <1>1, <1>3, <1>5 DEF TypeOK
<1>7. StakesEscrowed'
  BY <1>1, <1>3 DEF StakesEscrowed
<1>8. \A i \in DOMAIN farms : farms[i].mint # m
  BY <1>3 DEF FarmMints
<1>9. FarmMints' = FarmMints \cup {m}
  BY <1>4, <1>5 DEF FarmMints
<1>10. ASSUME removed = 0
       PROVE  TrackersBehind' /\ FarmsOrdered' /\ PaidByFarms' /\ StreamBounded'
  <2>1. TrackersBehind /\ FarmsOrdered /\ PaidByFarms /\ StreamBounded
    BY <1>10 DEF IInv
  <2>2. \A u \in Stakers : /\ pos[u] \in PositionRecord
                           /\ Len(pos[u].trackers) <= Len(farms)
                           /\ TrackerAt(pos[u], n) = NewTracker
    <3> SUFFICES ASSUME NEW u \in Stakers
                 PROVE  /\ pos[u] \in PositionRecord
                        /\ Len(pos[u].trackers) <= Len(farms)
                        /\ TrackerAt(pos[u], n) = NewTracker
      OBVIOUS
    <3>1. pos[u] \in PositionRecord /\ Len(pos[u].trackers) <= Len(farms)
      BY <1>1, <2>1 DEF TypeOK, TrackersBehind
    <3>2. n \notin DOMAIN pos[u].trackers
      BY <1>1, <1>0, <3>1, PositionFields
    <3> QED BY <3>1, <3>2 DEF TrackerAt
  <2>3. TrackersBehind'
    <3>1. \A u \in Stakers : Len(pos'[u].trackers) <= Len(farms')
      <4> SUFFICES ASSUME NEW u \in Stakers
                   PROVE  Len(pos'[u].trackers) <= Len(farms')
        OBVIOUS
      <4>1. Len(pos[u].trackers) \in Nat /\ Len(farms) \in Nat
            /\ Len(pos[u].trackers) <= Len(farms)
        BY <1>1, <2>2, PositionFields
      <4> QED BY <1>3, <1>5, <1>0, <4>1
    <3>2. \A u \in Stakers : \A i \in DOMAIN farms' :
            TrackerAt(pos'[u], i).seen <= farms'[i].index
      <4> SUFFICES ASSUME NEW u \in Stakers, NEW i \in DOMAIN farms'
                   PROVE  TrackerAt(pos[u], i).seen <= farms'[i].index
        BY <1>3
      <4>1. CASE i = n
        BY <1>4, <1>5, <2>2, <4>1 DEF NewTracker
      <4>2. CASE i \in DOMAIN farms
        BY <1>5, <2>1, <4>2 DEF TrackersBehind
      <4> QED BY <1>5, <4>1, <4>2
    <3> QED BY <3>1, <3>2 DEF TrackersBehind
  <2>4. FarmsOrdered'
    <3>1. \A i, j \in DOMAIN farms' : farms'[i].mint = farms'[j].mint => i = j
      BY <1>4, <1>5, <1>8, <2>1 DEF FarmsOrdered
    <3>2. \A i \in DOMAIN farms' : addedAt'[farms'[i].mint] <= lastUpdate'
      <4> SUFFICES ASSUME NEW i \in DOMAIN farms'
                   PROVE  addedAt'[farms'[i].mint] <= lastUpdate
        BY <1>3
      <4>1. CASE i = n
        BY <1>1, <1>3, <1>4, <1>5, <4>1
      <4>2. CASE i \in DOMAIN farms
        BY <1>1, <1>3, <1>5, <1>8, <2>1, <4>2 DEF FarmsOrdered
      <4> QED BY <1>5, <4>1, <4>2
    <3> QED BY <3>1, <3>2 DEF FarmsOrdered
  <2>5. PaidByFarms'
    BY <1>3, <1>9, <2>1 DEF PaidByFarms
  <2>6. ASSUME NEW i \in DOMAIN farms
        PROVE  Total(Stakers, [u \in Stakers |-> Held(u, i)']) <= ONE * Streamed(i)'
    <3>1. farms'[i] = farms[i] /\ farms[i].mint \in Mints /\ farms[i].mint # m
      BY <1>1, <1>5, <1>8, FarmFields
    <3>2. [u \in Stakers |-> Held(u, i)'] = [u \in Stakers |-> Held(u, i)]
      BY <1>3, <3>1 DEF Held
    <3>3. addedAt'[farms[i].mint] = addedAt[farms[i].mint]
      BY <1>1, <1>3, <3>1
    <3>4. Streamed(i)' = Streamed(i)
      BY <1>3, <3>1, <3>3 DEF Streamed
    <3>5. Total(Stakers, [u \in Stakers |-> Held(u, i)]) <= ONE * Streamed(i)
      BY <1>10, <2>1 DEF StreamBounded
    <3> QED BY <3>2, <3>4, <3>5
  <2>7. Total(Stakers, [u \in Stakers |-> Held(u, n)']) <= ONE * Streamed(n)'
    <3>1. ASSUME NEW u \in Stakers
          PROVE  Held(u, n)' = 0
      <4>1. paid[u][m] = 0 /\ pos[u].staked \in Nat /\ TrackerAt(pos[u], n) = NewTracker
        BY <1>3, <2>1, <2>2, PositionFields DEF PaidByFarms
      <4>2. TrackerAt(pos[u], n).claimable = 0 /\ TrackerAt(pos[u], n).seen = 0
        BY <4>1 DEF NewTracker
      <4>3. farms'[n].mint = m /\ farms'[n].index = 0 /\ paid'[u][m] = 0 /\ pos' = pos
        BY <1>3, <1>4, <1>5, <4>1
      <4>4. Held(u, n)' = ONE * (paid'[u][farms'[n].mint] + TrackerAt(pos'[u], n).claimable)
              + (farms'[n].index - TrackerAt(pos'[u], n).seen) * pos'[u].staked
        BY DEF Held, TrackerAt
      <4>5. Held(u, n)' = ONE * (0 + 0) + (0 - 0) * pos[u].staked
        BY ONLY <4>2, <4>3, <4>4
      <4> QED BY <4>1, <4>5, ONEAssumption
    <3> DEFINE h == [u \in Stakers |-> Held(u, n)']
    <3>2. \A u \in Stakers : h[u] = 0
      BY <3>1
    <3> HIDE DEF h
    <3>3. Total(Stakers, h) = 0
      BY ONLY <3>2, TotalZero
    <3>4. Streamed(n)' = 0
      <4>1. addedAt'[m] = lastUpdate
        BY <1>1, <1>3
      <4>2. Smaller(e, lastUpdate) <= lastUpdate
        <5>1. e \in Nat
          BY RewardsAssumptions
        <5> QED BY <1>1, <5>1 DEF Smaller
      <4>3. farms'[n].mint = m /\ farms'[n].expiry = e /\ lastUpdate' = lastUpdate
        BY <1>3, <1>4, <1>5
      <4>4. Smaller(farms'[n].expiry, lastUpdate') <= addedAt'[farms'[n].mint]
        BY <4>1, <4>2, <4>3
      <4> QED BY <4>4 DEF Streamed
    <3> QED BY <3>3, <3>4, ONEAssumption DEF h
  <2>8. StreamBounded'
    <3>1. \A i \in DOMAIN farms' :
            Total(Stakers, [u \in Stakers |-> Held(u, i)']) <= ONE * Streamed(i)'
      <4> SUFFICES ASSUME NEW i \in DOMAIN farms'
                   PROVE  Total(Stakers, [u \in Stakers |-> Held(u, i)'])
                            <= ONE * Streamed(i)'
        OBVIOUS
      <4>1. CASE i \in DOMAIN farms
        BY <2>6, <4>1
      <4>2. CASE i = n
        BY <2>7, <4>2
      <4> QED BY <1>5, <4>1, <4>2
    <3> QED BY <3>1 DEF StreamBounded
  <2> QED BY <2>3, <2>4, <2>5, <2>8
<1>11. removed # 0 => StreamBounded'
  BY <1>3 DEF StreamBounded
<1> QED BY <1>1, <1>3, <1>6, <1>7, <1>10, <1>11 DEF IInv

(* refill_farm and the clock.                                              *)
LEMMA BystanderStep ==
    ASSUME IInv,
           (\E m \in Mints, a \in Refills : RefillFarm(m, a)) \/ Tick \/ UNCHANGED vars
    PROVE  IInv'
<1>1. TypeOK /\ StakesEscrowed /\ lastUpdate <= now /\ now \in Nat /\ lastUpdate \in Nat
  BY DEF IInv, TypeOK
<1>2. /\ farms' = farms /\ lastUpdate' = lastUpdate /\ totalStaked' = totalStaked
      /\ pos' = pos /\ lp' = lp /\ lpEscrow' = lpEscrow /\ paid' = paid
      /\ addedAt' = addedAt /\ removed' = removed
      /\ now' \in {now, now + 1}
  BY DEF RefillFarm, Tick, vars
<1>3. escrow' \in [Mints -> Nat]
  <2>1. escrow \in [Mints -> Nat]
    BY <1>1 DEF TypeOK
  <2>2. CASE escrow' = escrow
    BY <2>1, <2>2
  <2>3. ASSUME NEW m \in Mints, NEW a \in Refills, RefillFarm(m, a)
        PROVE  escrow' \in [Mints -> Nat]
    <3>1. escrow[m] + a \in Nat
      BY <2>1, RewardsAssumptions
    <3>2. escrow' = [escrow EXCEPT ![m] = escrow[m] + a]
      BY <2>3 DEF RefillFarm
    <3> QED BY <2>1, <3>1, <3>2
  <2> QED BY <2>2, <2>3 DEF Tick, vars
<1>4. TypeOK'
  BY <1>1, <1>2, <1>3 DEF TypeOK
<1>5. StakesEscrowed'
  BY <1>1, <1>2 DEF StakesEscrowed
<1>6. Streams'
  BY <1>2, BystanderKeepsStreams
<1>7. lastUpdate' <= now'
  BY <1>1, <1>2
<1> QED BY <1>2, <1>4, <1>5, <1>6, <1>7 DEF IInv, Streams

(* Cutting a farm out of the list leaves a list of farms.                  *)
LEMMA RemovedFarms ==
    ASSUME NEW fs \in Seq(FarmRecord), NEW i \in DOMAIN fs
    PROVE  RemoveAt(fs, i) \in Seq(FarmRecord)
<1>1. i \in 1..Len(fs) /\ Len(fs) \in Nat
  OBVIOUS
<1>2. SubSeq(fs, 1, i - 1) \in Seq(FarmRecord)
  BY <1>1
<1>3. SubSeq(fs, i + 1, Len(fs)) \in Seq(FarmRecord)
  BY <1>1
<1> QED BY <1>2, <1>3 DEF RemoveAt

(* decommission_farm.                                                      *)
LEMMA DecommissionStep ==
    ASSUME IInv, NEW i \in DOMAIN farms, DecommissionFarm(i)
    PROVE  IInv'
<1>1. /\ TypeOK /\ StakesEscrowed /\ now \in Nat /\ farms[i].mint \in Mints
      /\ removed \in Nat
  BY FarmFields DEF IInv, TypeOK
<1>2. /\ farms' = RemoveAt(Advanced(now), i) /\ lastUpdate' = now
      /\ escrow' = [escrow EXCEPT ![farms[i].mint] = 0] /\ removed' = removed + 1
      /\ now' = now /\ totalStaked' = totalStaked /\ pos' = pos /\ lp' = lp
      /\ lpEscrow' = lpEscrow /\ paid' = paid /\ addedAt' = addedAt
  BY DEF DecommissionFarm
<1>3. farms' \in Seq(FarmRecord)
  BY <1>1, <1>2, AdvancedFarms, RemovedFarms
<1>4. TypeOK'
  BY <1>1, <1>2, <1>3 DEF TypeOK
<1>5. StakesEscrowed'
  BY <1>1, <1>2 DEF StakesEscrowed
<1>6. removed' # 0
  BY <1>1, <1>2
<1> QED BY <1>1, <1>2, <1>4, <1>5, <1>6 DEF IInv, StreamBounded

(* Nothing is staked in a new farm state.                                  *)
LEMMA InitHolds == Init => IInv
<1> SUFFICES ASSUME Init PROVE IInv
  OBVIOUS
<1>1. farms = <<>> /\ DOMAIN farms = {} /\ farms \in Seq(FarmRecord)
  BY DEF Init
<1>2. NoPosition \in PositionRecord
  BY DEF NoPosition, PositionRecord
<1>3. TypeOK
  BY <1>1, <1>2, RewardsAssumptions DEF Init, TypeOK
<1>4. StakesEscrowed
  <2> DEFINE f == [u \in Stakers |-> pos[u].staked]
  <2>1. \A u \in Stakers : f[u] = 0
    BY DEF Init, NoPosition
  <2> HIDE DEF f
  <2>2. Total(Stakers, f) = 0
    BY ONLY <2>1, TotalZero
  <2> QED BY <2>2 DEF Init, StakesEscrowed, f
<1>5. TrackersBehind
  BY <1>1 DEF Init, TrackersBehind, NoPosition
<1>6. FarmsOrdered /\ StreamBounded
  BY <1>1 DEF FarmsOrdered, StreamBounded
<1>7. PaidByFarms
  BY DEF Init, PaidByFarms
<1>8. lastUpdate <= now
  BY DEF Init
<1> QED BY <1>3, <1>4, <1>5, <1>6, <1>7, <1>8 DEF IInv

(* Every step keeps the invariant.                                         *)
LEMMA NextInv == IInv /\ [Next]_vars => IInv'
<1> SUFFICES ASSUME IInv, [Next]_vars PROVE IInv'
  OBVIOUS
<1>1. ASSUME NEW u \in Stakers, NEW a \in Amounts, StakeLp(u, a) PROVE IInv'
  BY <1>1, StakeStep
<1>2. ASSUME NEW u \in Stakers, NEW a \in Amounts, UnstakeLp(u, a) PROVE IInv'
  BY <1>2, UnstakeStep
<1>3. ASSUME NEW u \in Stakers, NEW i \in DOMAIN farms, ClaimFarmEmission(u, i) PROVE IInv'
  BY <1>3, ClaimStep
<1>4. ASSUME NEW u \in Stakers, ReallocStakePosition(u) PROVE IInv'
  BY <1>4, ReallocStep
<1>5. ASSUME NEW m \in Mints, NEW r \in TokenRates, NEW e \in Expiries, AddFarm(m, r, e)
      PROVE  IInv'
  BY <1>5, AddStep
<1>6. ASSUME NEW i \in DOMAIN farms, DecommissionFarm(i) PROVE IInv'
  BY <1>6, DecommissionStep
<1>7. ASSUME (\E m \in Mints, a \in Refills : RefillFarm(m, a)) \/ Tick \/ UNCHANGED vars
      PROVE  IInv'
  BY <1>7, BystanderStep
<1> QED BY <1>1, <1>2, <1>3, <1>4, <1>5, <1>6, <1>7 DEF Next

-----------------------------------------------------------------------------

(* The inductive invariant: types, escrowed stakes, and until a farm is    *)
(* decommissioned trackers behind their farms and streams not overspent.   *)
THEOREM InvariantHolds == Spec => []IInv
  BY InitHolds, NextInv, PTL DEF Spec

(* In every reachable state every balance, index and tracker of the farms  *)
(* is a natural: no instruction underflows.                                *)
THEOREM TypeCorrect == Spec => []TypeOK
<1>1. IInv => TypeOK
  BY DEF IInv
<1> QED BY <1>1, InvariantHolds, PTL

(* stake_lp and unstake_lp: escrow, total and positions always agree.      *)
THEOREM StakesCovered == Spec => []StakesEscrowed
<1>1. IInv => StakesEscrowed
  BY DEF IInv
<1> QED BY <1>1, InvariantHolds, PTL

(* update_indexes and settle_user: whatever stakes come and go, a farm     *)
(* never credits more than its rate for the time since it was added.       *)
THEOREM StreamsBounded == Spec => []StreamBounded
<1>1. IInv => StreamBounded
  BY DEF IInv
<1> QED BY <1>1, InvariantHolds, PTL

-----------------------------------------------------------------------------
(* What a step that takes no time leaves everybody is owed.                *)

(* One farm per mint, whatever was removed before.                         *)
OneFarmPerMint ==
    \A i, j \in DOMAIN farms : farms[i].mint = farms[j].mint => i = j

(* What position p is credited of farm i once it is settled at an index.   *)
CreditAt(p, i, index) == Credited(TrackerAt(p, i), index, p.staked).claimable

(* Whoever is settled at an index earns nothing more at it.                *)
LEMMA NothingDue ==
    ASSUME NEW t \in Tracker, NEW index \in Nat, NEW shares, t.seen = index
    PROVE  Credited(t, index, shares).claimable = t.claimable
<1>1. ShareValue(t.seen, index, shares) = 0
  BY DEF ShareValue
<1>2. t.claimable \in Nat
  BY DEF Tracker
<1> QED BY <1>1, <1>2 DEF Credited

(* Indexes that are up to date do not move.                                *)
LEMMA AdvancedOnce == TypeOK /\ lastUpdate = now => Advanced(now) = farms
<1> SUFFICES ASSUME TypeOK, lastUpdate = now PROVE Advanced(now) = farms
  OBVIOUS
<1>1. CASE totalStaked = 0
  BY <1>1 DEF Advanced
<1>2. CASE totalStaked # 0
  <2>1. totalStaked \in Nat \ {0} /\ farms \in Seq(FarmRecord) /\ now \in Nat
    BY <1>2 DEF TypeOK
  <2>2. FromRatio(0, totalStaked) = 0
    <3>1. FromRatio(0, totalStaked) \in Nat
          /\ FromRatio(0, totalStaked) * totalStaked <= 0 * ONE
      BY <2>1, RatioBelow
    <3>2. \A q \in Nat, d \in Nat \ {0} : q * d <= 0 => q = 0
      OBVIOUS
    <3> QED BY <2>1, <3>1, <3>2, ONEAssumption
  <2>3. ASSUME NEW i \in DOMAIN farms
        PROVE  [farms[i] EXCEPT
                  !.index = @ + FromRatio(farms[i].rate * ActiveTime(farms[i], now),
                                          totalStaked)] = farms[i]
    <3>1. farms[i] \in FarmRecord /\ farms[i].rate \in Nat /\ farms[i].expiry \in Nat
          /\ farms[i].index \in Nat
      BY <2>1, FarmFields
    <3>2. ActiveTime(farms[i], now) = 0
      BY <2>1, <3>1 DEF ActiveTime, Smaller
    <3>3. farms[i].rate * ActiveTime(farms[i], now) = 0
      BY <3>1, <3>2
    <3>4. farms[i].index + FromRatio(farms[i].rate * ActiveTime(farms[i], now), totalStaked)
            = farms[i].index
      BY <2>2, <3>1, <3>3
    <3> QED BY ONLY <3>1, <3>4 DEF FarmRecord
  <2>4. Advanced(now) = [i \in DOMAIN farms |-> farms[i]]
    BY <1>2, <2>3 DEF Advanced
  <2> QED BY <2>1, <2>4
<1> QED BY <1>1, <1>2

(* What is owed for a mint is what its one farm has paid and would credit. *)
OwedByFarm ==
    \A u \in Stakers, m \in Mints, i \in DOMAIN farms :
        farms[i].mint = m =>
            Owed(u, m) = paid[u][m] + CreditAt(pos[u], i, Advanced(now)[i].index)

(* It is, in every state of the right types with one farm per mint.        *)
LEMMA OwedIs == TypeOK /\ OneFarmPerMint => OwedByFarm
<1> SUFFICES ASSUME TypeOK, OneFarmPerMint, NEW u \in Stakers, NEW m \in Mints,
                    NEW i \in DOMAIN farms, farms[i].mint = m
             PROVE  Owed(u, m)
                      = paid[u][m] + CreditAt(pos[u], i, Advanced(now)[i].index)
  BY DEF OwedByFarm
<1>1. m \in FarmMints
  BY DEF FarmMints
<1>2. (CHOOSE j \in DOMAIN farms : farms[j].mint = m) = i
  BY DEF OneFarmPerMint
<1>3. pos[u] \in PositionRecord
  BY DEF TypeOK
<1>4. Settled(pos[u], Advanced(now)).trackers[i]
        = Credited(TrackerAt(pos[u], i), Advanced(now)[i].index, pos[u].staked)
  BY <1>3, AdvancedFarms, SettledFields
<1> QED BY <1>1, <1>2, <1>4, ZenonT(40) DEF Owed, CreditAt

(* The same two facts of the next state.                                   *)
LEMMA NextOwed ==
    /\ (TypeOK /\ lastUpdate = now => Advanced(now) = farms)'
    /\ (TypeOK /\ OneFarmPerMint => OwedByFarm)'
  BY AdvancedOnce, OwedIs, PTL

(* Bringing the indexes up to date costs or earns nobody anything, if what *)
(* is paid and what is credited at the new index stay the same.            *)
LEMMA BroughtPays ==
    ASSUME TypeOK, TypeOK', OneFarmPerMint, OneFarmPerMint', Brought(now), now' = now,
           NEW u \in Stakers, NEW i \in DOMAIN farms, NEW m \in Mints, farms[i].mint = m,
           paid'[u][m] + CreditAt(pos'[u], i, Advanced(now)[i].index)
             = paid[u][m] + CreditAt(pos[u], i, Advanced(now)[i].index)
    PROVE  Owed(u, m)' = Owed(u, m)
<1>1. Owed(u, m) = paid[u][m] + CreditAt(pos[u], i, Advanced(now)[i].index)
  BY OwedIs DEF OwedByFarm
<1>2. farms' = Advanced(now) /\ i \in DOMAIN farms' /\ farms'[i].mint = m
  BY AdvancedFarms DEF Brought
<1>3. OwedByFarm'
  BY NextOwed
<1>4. (lastUpdate = now => Advanced(now) = farms)'
  BY NextOwed
<1>5. Advanced(now)' = farms'
  BY <1>4 DEF Brought
<1>6. Owed(u, m)' = paid'[u][m] + CreditAt(pos'[u], i, farms'[i].index)
  BY <1>2, <1>3, <1>5 DEF OwedByFarm, CreditAt, Credited, TrackerAt
<1> QED BY <1>1, <1>2, <1>6

(* The position of another staker, and what was paid to it, do not move.   *)
LEMMA OthersUntouched ==
    ASSUME TypeOK, TypeOK', OneFarmPerMint, OneFarmPerMint', Brought(now), now' = now,
           NEW u \in Stakers, NEW i \in DOMAIN farms, NEW m \in Mints, farms[i].mint = m,
           pos'[u] = pos[u], paid'[u] = paid[u]
    PROVE  Owed(u, m)' = Owed(u, m)
  BY BroughtPays

(* What a settlement credits is what was owed, whatever the stake becomes. *)
LEMMA RestakePays ==
    ASSUME TypeOK, TypeOK', OneFarmPerMint, OneFarmPerMint', Brought(now), now' = now,
           NEW v \in Stakers, NEW p \in PositionRecord,
           p.trackers = pos[v].trackers, p.staked = pos[v].staked, NEW stake \in Nat,
           pos' = [pos EXCEPT ![v] = [Settled(p, Advanced(now)) EXCEPT !.staked = stake]],
           paid' = paid,
           NEW u \in Stakers, NEW i \in DOMAIN farms, NEW m \in Mints, farms[i].mint = m
    PROVE  Owed(u, m)' = Owed(u, m)
<1>1. CASE u # v
  <2>1. pos'[u] = pos[u] /\ paid'[u] = paid[u]
    BY <1>1 DEF TypeOK
  <2> QED BY <2>1, OthersUntouched
<1>2. CASE u = v
  <2> DEFINE index == Advanced(now)[i].index  w == Settled(p, Advanced(now))
             q == [w EXCEPT !.staked = stake]
  <2>1. /\ w \in PositionRecord /\ index \in Nat
        /\ TrackerAt(w, i) = Credited(TrackerAt(p, i), index, p.staked)
    <3>1. Advanced(now) \in Seq(FarmRecord) /\ i \in DOMAIN Advanced(now)
      BY AdvancedFarms
    <3> QED BY <3>1, SettledFields, FarmFields
  <2> HIDE DEF index, w
  <2>2. q \in PositionRecord /\ q.trackers = w.trackers
    BY ONLY <2>1, stake \in Nat DEF PositionRecord
  <2>3. pos'[u] = q
    BY <1>2 DEF TypeOK, w
  <2> HIDE DEF q
  <2>4. TrackerAt(q, i) = TrackerAt(w, i) /\ TrackerAt(p, i) = TrackerAt(pos[u], i)
    BY <1>2, <2>2 DEF TrackerAt
  <2>5. TrackerAt(q, i) \in Tracker /\ TrackerAt(q, i).seen = index
    BY <2>1, <2>2, <2>4, TrackerType DEF Credited
  <2>6. CreditAt(q, i, index) = TrackerAt(q, i).claimable
    BY <2>1, <2>5, NothingDue DEF CreditAt
  <2>7. CreditAt(q, i, index) = CreditAt(pos[u], i, index)
    BY <1>2, <2>1, <2>4, <2>6 DEF CreditAt
  <2> QED BY <2>3, <2>7, BroughtPays DEF index
<1> QED BY <1>1, <1>2

(* stake_lp and unstake_lp.                                                *)
LEMMA StakePays ==
    ASSUME TypeOK, TypeOK', OneFarmPerMint, OneFarmPerMint',
           NEW v \in Stakers, NEW a \in Amounts, StakeLp(v, a) \/ UnstakeLp(v, a),
           NEW u \in Stakers, NEW i \in DOMAIN farms, NEW m \in Mints, farms[i].mint = m
    PROVE  Owed(u, m)' = Owed(u, m)
<1>1. pos[v] \in PositionRecord /\ a \in Nat
  BY RewardsAssumptions DEF TypeOK
<1>2. CASE StakeLp(v, a)
  <2> DEFINE p == Prepared(pos[v])  w == Settled(p, Advanced(now))
  <2>1. p \in PositionRecord /\ p.trackers = pos[v].trackers /\ p.staked = pos[v].staked
    BY <1>1, PreparedFields
  <2>2. w.staked + a \in Nat
    BY <1>1, <2>1, AdvancedFarms, SettledFields, PositionFields
  <2>3. pos' = [pos EXCEPT ![v] = [w EXCEPT !.staked = w.staked + a]]
        /\ Brought(now) /\ now' = now /\ paid' = paid
    BY <1>2 DEF StakeLp
  <2> HIDE DEF p
  <2> QED BY <2>1, <2>2, <2>3, RestakePays
<1>3. CASE UnstakeLp(v, a)
  <2> DEFINE w == Settled(pos[v], Advanced(now))
  <2>1. w.staked - a \in Nat
    <3>1. w.staked = pos[v].staked /\ pos[v].staked \in Nat
      BY <1>1, AdvancedFarms, SettledFields, PositionFields
    <3>2. a <= pos[v].staked
      BY <1>3 DEF UnstakeLp
    <3> QED BY <1>1, <3>1, <3>2
  <2>2. pos' = [pos EXCEPT ![v] = [w EXCEPT !.staked = w.staked - a]]
        /\ Brought(now) /\ now' = now /\ paid' = paid
    BY <1>3 DEF UnstakeLp
  <2> QED BY <1>1, <2>1, <2>2, RestakePays
<1> QED BY <1>2, <1>3

(* claim_farm_emission: what is paid leaves the bucket of the same mint.   *)
LEMMA ClaimPays ==
    ASSUME TypeOK, TypeOK', OneFarmPerMint, OneFarmPerMint',
           NEW v \in Stakers, NEW j \in DOMAIN farms, ClaimFarmEmission(v, j),
           NEW u \in Stakers, NEW i \in DOMAIN farms, NEW m \in Mints, farms[i].mint = m
    PROVE  Owed(u, m)' = Owed(u, m)
<1> DEFINE w == Settled(pos[v], Advanced(now))
           q == [w EXCEPT !.trackers[j].claimable = 0]
           amount == w.trackers[j].claimable
           n == farms[j].mint
           index == Advanced(now)[i].index
<1>1. /\ Brought(now) /\ now' = now
      /\ pos' = [pos EXCEPT ![v] = q]
      /\ paid' = [paid EXCEPT ![v][n] = @ + amount]
  BY DEF ClaimFarmEmission
<1>2. /\ pos[v] \in PositionRecord /\ n \in Mints
      /\ paid \in [Stakers -> [Mints -> Nat]]
      /\ pos \in [Stakers -> PositionRecord]
  BY FarmFields DEF TypeOK
<1>3. Advanced(now) \in Seq(FarmRecord) /\ DOMAIN Advanced(now) = DOMAIN farms
  BY AdvancedFarms
<1>4. /\ w \in PositionRecord /\ index \in Nat
      /\ j \in DOMAIN w.trackers
      /\ TrackerAt(w, i) = Credited(TrackerAt(pos[v], i), index, pos[v].staked)
  BY <1>2, <1>3, SettledFields, FarmFields
<1> HIDE DEF w, index, n
<1>5. /\ q \in PositionRecord
      /\ TrackerAt(q, i) = IF i = j THEN [TrackerAt(w, j) EXCEPT !.claimable = 0]
                           ELSE TrackerAt(w, i)
  BY <1>4, EmptiedFields
<1>6. amount = TrackerAt(w, j).claimable
  BY <1>4 DEF TrackerAt
<1> HIDE DEF q, amount
<1>7. CASE u # v
  <2>1. pos'[u] = pos[u] /\ paid'[u] = paid[u]
    BY <1>1, <1>2, <1>7
  <2> QED BY <1>1, <2>1, OthersUntouched
<1>8. CASE u = v
  <2>1. TrackerAt(w, i) \in Tracker /\ TrackerAt(q, i) \in Tracker
        /\ TrackerAt(w, i).seen = index
    BY <1>4, <1>5, TrackerType DEF Credited
  <2>2. CreditAt(pos[u], i, index) = TrackerAt(w, i).claimable
    BY <1>4, <1>8 DEF CreditAt
  <2>3. TrackerAt(q, i).seen = index
    BY <1>5, <2>1 DEF Tracker
  <2>4. CreditAt(q, i, index) = TrackerAt(q, i).claimable
    BY <1>4, <2>1, <2>3, NothingDue DEF CreditAt
  <2>5. pos'[u] = q
    BY <1>1, <1>2, <1>8
  <2>6. paid'[u][m] + TrackerAt(q, i).claimable
          = paid[u][m] + TrackerAt(w, i).claimable
    <3>1. CASE i = j
      <4>1. n = m /\ TrackerAt(q, i).claimable = 0 /\ amount = TrackerAt(w, i).claimable
        BY <1>5, <1>6, <2>1, <3>1 DEF n, Tracker
      <4>2. paid'[u][m] = paid[u][m] + amount
        BY <1>1, <1>2, <1>8, <4>1
      <4>3. paid[u][m] \in Nat /\ amount \in Nat
        BY <1>2, <2>1, <4>1 DEF Tracker
      <4> QED BY <4>1, <4>2, <4>3
    <3>2. CASE i # j
      <4>1. n # m
        BY <3>2 DEF OneFarmPerMint, n
      <4>2. paid'[u][m] = paid[u][m]
        BY <1>1, <1>2, <1>8, <4>1
      <4> QED BY <1>5, <3>2, <4>2
    <3> QED BY <3>1, <3>2
  <2> QED BY <1>1, <2>2, <2>4, <2>5, <2>6, BroughtPays DEF index
<1> QED BY <1>7, <1>8

(* Steps that touch neither farms, stakes, trackers nor payments.          *)
LEMMA IdlePays ==
    ASSUME TypeOK, TypeOK', OneFarmPerMint, OneFarmPerMint',
           now' = now, farms' = farms, lastUpdate' = lastUpdate,
           totalStaked' = totalStaked, paid' = paid,
           NEW u \in Stakers, NEW i \in DOMAIN farms, NEW m \in Mints, farms[i].mint = m,
           pos'[u].trackers = pos[u].trackers, pos'[u].staked = pos[u].staked
    PROVE  Owed(u, m)' = Owed(u, m)
<1>1. Owed(u, m) = paid[u][m] + CreditAt(pos[u], i, Advanced(now)[i].index)
  BY OwedIs DEF OwedByFarm
<1>2. OwedByFarm'
  BY NextOwed
<1>3. Advanced(now)' = Advanced(now)
  BY DEF Advanced, ActiveTime
<1>4. Owed(u, m)' = paid'[u][m] + CreditAt(pos'[u], i, Advanced(now)[i].index)
  BY <1>2, <1>3 DEF OwedByFarm, CreditAt, Credited, TrackerAt
<1>5. CreditAt(pos'[u], i, Advanced(now)[i].index)
        = CreditAt(pos[u], i, Advanced(now)[i].index)
  BY DEF CreditAt, TrackerAt
<1> QED BY <1>1, <1>4, <1>5

(* Cutting one farm out of the list moves the later ones up by one place.  *)
LEMMA RemovedPlaces ==
    ASSUME NEW fs \in Seq(FarmRecord), NEW i \in DOMAIN fs
    PROVE  \A j \in DOMAIN RemoveAt(fs, i) :
                /\ (IF j < i THEN j ELSE j + 1) \in DOMAIN fs \ {i}
                /\ RemoveAt(fs, i)[j] = fs[IF j < i THEN j ELSE j + 1]
                /\ j \in Nat
<1> DEFINE a == SubSeq(fs, 1, i - 1)  b == SubSeq(fs, i + 1, Len(fs))
<1>1. i \in 1..Len(fs) /\ Len(fs) \in Nat /\ DOMAIN fs = 1..Len(fs)
  OBVIOUS
<1>2. a \in Seq(FarmRecord) /\ Len(a) = i - 1 /\ \A j \in 1..i - 1 : a[j] = fs[j]
  BY <1>1
<1>3. b \in Seq(FarmRecord) /\ Len(b) = Len(fs) - i
      /\ \A j \in 1..Len(fs) - i : b[j] = fs[i + j]
  BY <1>1
<1>4. RemoveAt(fs, i) = a \o b
  BY DEF RemoveAt
<1> HIDE DEF a, b
<1> DEFINE c == a \o b
<1>5. /\ DOMAIN c = 1..Len(a) + Len(b)
      /\ \A j \in 1..Len(a) + Len(b) : c[j] = IF j <= Len(a) THEN a[j] ELSE b[j - Len(a)]
  BY <1>2, <1>3
<1> HIDE DEF c
<1>6. ASSUME NEW j \in DOMAIN c
      PROVE  /\ (IF j < i THEN j ELSE j + 1) \in DOMAIN fs \ {i}
             /\ c[j] = fs[IF j < i THEN j ELSE j + 1]
             /\ j \in Nat
  <2>1. j \in 1..Len(fs) - 1 /\ i \in Nat
    BY <1>1, <1>2, <1>3, <1>5
  <2>2. CASE j < i
    <3>1. j <= Len(a) /\ j \in 1..i - 1
      BY <1>1, <1>2, <2>1, <2>2
    <3>2. c[j] = fs[j]
      BY <1>2, <1>5, <3>1
    <3>3. j \in DOMAIN fs /\ j # i /\ j \in Nat
      BY <1>1, <2>1, <2>2
    <3> QED BY <2>2, <3>2, <3>3
  <2>3. CASE ~(j < i)
    <3>1. ~(j <= Len(a)) /\ j - Len(a) \in 1..Len(fs) - i /\ i + (j - Len(a)) = j + 1
      BY <1>1, <1>2, <2>1, <2>3
    <3>2. c[j] = fs[j + 1]
      BY <1>3, <1>5, <3>1
    <3>3. j + 1 \in DOMAIN fs /\ j + 1 # i /\ j \in Nat
      BY <1>1, <2>1, <2>3
    <3> QED BY <2>3, <3>2, <3>3
  <2> QED BY <2>2, <2>3
<1> QED BY <1>4, <1>6 DEF c

(* No step adds a second farm of a mint, and a removed farm's mint is gone *)
(* from the list.                                                          *)
LEMMA FarmsStayOne ==
    ASSUME TypeOK, OneFarmPerMint, [Next]_vars
    PROVE  OneFarmPerMint'
<1>1. farms \in Seq(FarmRecord) /\ Len(farms) \in Nat
  BY DEF TypeOK
<1>2. CASE farms' = farms
  BY <1>2 DEF OneFarmPerMint
<1>3. CASE Brought(now)
  BY <1>3, AdvancedFarms DEF Brought, OneFarmPerMint
<1>4. ASSUME NEW m \in Mints, NEW r \in TokenRates, NEW e \in Expiries, AddFarm(m, r, e)
      PROVE  OneFarmPerMint'
  <2> DEFINE f == [mint |-> m, rate |-> r, expiry |-> e, index |-> 0]
  <2>1. f \in FarmRecord /\ f.mint = m
    BY RewardsAssumptions DEF FarmRecord
  <2>2. farms' = Append(farms, f) /\ m \notin FarmMints
    BY <1>4 DEF AddFarm
  <2> HIDE DEF f
  <2>3. PICK n \in Nat : n = Len(farms) + 1
    BY <1>1
  <2>4. DOMAIN farms' = DOMAIN farms \cup {n} /\ n \notin DOMAIN farms /\ farms'[n] = f
        /\ \A i \in DOMAIN farms : farms'[i] = farms[i]
    BY <1>1, <2>1, <2>2, <2>3
  <2>5. \A i \in DOMAIN farms : farms[i].mint # m
    BY <2>2 DEF FarmMints
  <2> QED BY <2>1, <2>4, <2>5 DEF OneFarmPerMint
<1>5. ASSUME NEW i \in DOMAIN farms, DecommissionFarm(i)
      PROVE  OneFarmPerMint'
  <2> DEFINE fs == Advanced(now)  at(j) == IF j < i THEN j ELSE j + 1
  <2>1. /\ fs \in Seq(FarmRecord) /\ DOMAIN fs = DOMAIN farms
        /\ \A j \in DOMAIN farms : fs[j].mint = farms[j].mint
    BY AdvancedFarms
  <2>2. farms' = RemoveAt(fs, i)
    BY <1>5 DEF DecommissionFarm
  <2> HIDE DEF fs
  <2>3. \A j \in DOMAIN farms' : at(j) \in DOMAIN farms /\ farms'[j] = fs[at(j)] /\ j \in Nat
    BY <2>1, <2>2, RemovedPlaces
  <2>4. i \in Nat
    BY <1>1
  <2>5. \A j, k \in Nat : at(j) = at(k) => j = k
    BY <2>4
  <2> HIDE DEF at
  <2>6. ASSUME NEW j \in DOMAIN farms', NEW k \in DOMAIN farms', farms'[j].mint = farms'[k].mint
        PROVE  j = k
    <3>1. at(j) \in DOMAIN farms /\ at(k) \in DOMAIN farms
          /\ farms[at(j)].mint = farms[at(k)].mint
      BY <2>1, <2>3, <2>6
    <3>2. at(j) = at(k)
      BY <3>1 DEF OneFarmPerMint
    <3> QED BY <2>3, <2>5, <3>2
  <2> QED BY <2>6 DEF OneFarmPerMint
<1>6. CASE UNCHANGED vars
  BY <1>2, <1>6 DEF vars
<1>7. CASE Next
  BY <1>2, <1>3, <1>4, <1>5, <1>7, Zenon DEF Next, StakeLp, UnstakeLp, ClaimFarmEmission,
     ReallocStakePosition, RefillFarm, Tick
<1> QED BY <1>6, <1>7

(* A decommissioned farm's mint leaves the list, an added one's joins it.  *)
LEMMA MintsChange ==
    ASSUME TypeOK, OneFarmPerMint,
           \/ \E m \in Mints, r \in TokenRates, e \in Expiries : AddFarm(m, r, e)
           \/ \E i \in DOMAIN farms : DecommissionFarm(i)
    PROVE  FarmMints' # FarmMints
<1>1. farms \in Seq(FarmRecord) /\ Len(farms) \in Nat
  BY DEF TypeOK
<1>2. ASSUME NEW m \in Mints, NEW r \in TokenRates, NEW e \in Expiries, AddFarm(m, r, e)
      PROVE  m \in FarmMints' /\ m \notin FarmMints
  <2> DEFINE f == [mint |-> m, rate |-> r, expiry |-> e, index |-> 0]
  <2>1. f \in FarmRecord /\ f.mint = m
    BY RewardsAssumptions DEF FarmRecord
  <2>2. farms' = Append(farms, f) /\ m \notin FarmMints
    BY <1>2 DEF AddFarm
  <2> HIDE DEF f
  <2>3. Len(farms) + 1 \in DOMAIN farms' /\ farms'[Len(farms) + 1] = f
    BY <1>1, <2>1, <2>2
  <2> QED BY <2>1, <2>2, <2>3 DEF FarmMints
<1>3. ASSUME NEW i \in DOMAIN farms, DecommissionFarm(i)
      PROVE  farms[i].mint \notin FarmMints' /\ farms[i].mint \in FarmMints
  <2> DEFINE fs == Advanced(now)  at(j) == IF j < i THEN j ELSE j + 1
  <2>1. /\ fs \in Seq(FarmRecord) /\ DOMAIN fs = DOMAIN farms
        /\ \A j \in DOMAIN farms : fs[j].mint = farms[j].mint
    BY AdvancedFarms
  <2>2. farms' = RemoveAt(fs, i)
    BY <1>3 DEF DecommissionFarm
  <2> HIDE DEF fs
  <2>3. \A j \in DOMAIN farms' : at(j) \in DOMAIN farms \ {i} /\ farms'[j] = fs[at(j)]
    BY <2>1, <2>2, RemovedPlaces
  <2> HIDE DEF at
  <2>4. \A j \in DOMAIN farms' : farms'[j].mint # farms[i].mint
    BY <2>1, <2>3 DEF OneFarmPerMint
  <2> QED BY <2>4 DEF FarmMints
<1> QED BY <1>2, <1>3

(* A step that takes no time pays nobody.                                  *)
LEMMA StepPays ==
    ASSUME TypeOK, TypeOK', OneFarmPerMint, OneFarmPerMint', [Next]_vars,
           now' = now, FarmMints' = FarmMints, NEW u \in Stakers, NEW m \in Mints
    PROVE  Owed(u, m)' = Owed(u, m)
<1>1. CASE m \notin FarmMints
  <2>1. Owed(u, m) = paid[u][m] + 0 /\ Owed(u, m)' = paid'[u][m] + 0
    BY <1>1 DEF Owed
  <2>2. ASSUME NEW v \in Stakers, NEW j \in DOMAIN farms, ClaimFarmEmission(v, j)
        PROVE  paid'[u][m] = paid[u][m]
    <3> DEFINE n == farms[j].mint
    <3>1. n # m /\ paid \in [Stakers -> [Mints -> Nat]]
      BY <1>1 DEF FarmMints, TypeOK
    <3>2. PICK x : paid' = [paid EXCEPT ![v][n] = x]
      BY <2>2 DEF ClaimFarmEmission
    <3> HIDE DEF n
    <3> QED BY <3>1, <3>2
  <2>3. paid' = paid \/ \E v \in Stakers, j \in DOMAIN farms : ClaimFarmEmission(v, j)
    BY DEF Next, vars, StakeLp, UnstakeLp, ReallocStakePosition, AddFarm, RefillFarm,
           DecommissionFarm, Tick
  <2>4. paid'[u][m] = paid[u][m]
    BY <2>2, <2>3
  <2> QED BY <2>1, <2>4
<1>2. CASE m \in FarmMints
  <2>1. PICK i \in DOMAIN farms : farms[i].mint = m
    BY <1>2 DEF FarmMints
  <2>2. ASSUME NEW v \in Stakers, NEW a \in Amounts, StakeLp(v, a) \/ UnstakeLp(v, a)
        PROVE  Owed(u, m)' = Owed(u, m)
    BY <2>1, <2>2, StakePays
  <2>3. ASSUME NEW v \in Stakers, NEW j \in DOMAIN farms, ClaimFarmEmission(v, j)
        PROVE  Owed(u, m)' = Owed(u, m)
    BY <2>1, <2>3, ClaimPays
  <2>4. ASSUME NEW v \in Stakers, ReallocStakePosition(v)
        PROVE  Owed(u, m)' = Owed(u, m)
    <3>1. pos' = [pos EXCEPT ![v] = [pos[v] EXCEPT !.space = Len(farms)]]
          /\ farms' = farms /\ lastUpdate' = lastUpdate
          /\ totalStaked' = totalStaked /\ paid' = paid
      BY <2>4 DEF ReallocStakePosition
    <3>2. pos[v] \in PositionRecord /\ pos \in [Stakers -> PositionRecord]
      BY DEF TypeOK
    <3>3. [pos[v] EXCEPT !.space = Len(farms)].trackers = pos[v].trackers
          /\ [pos[v] EXCEPT !.space = Len(farms)].staked = pos[v].staked
      BY <3>2 DEF PositionRecord
    <3>4. pos'[u].trackers = pos[u].trackers /\ pos'[u].staked = pos[u].staked
      BY <3>1, <3>2, <3>3
    <3> QED BY <2>1, <3>1, <3>4, IdlePays
  <2>5. ASSUME NEW n \in Mints, NEW a \in Refills, RefillFarm(n, a)
        PROVE  Owed(u, m)' = Owed(u, m)
    BY <2>1, <2>5, IdlePays DEF RefillFarm
  <2>6. CASE UNCHANGED vars
    BY <2>1, <2>6, IdlePays DEF vars
  <2>7. ~Tick
    <3>1. now \in Nat
      BY DEF TypeOK
    <3> QED BY <3>1 DEF Tick
  <2> QED BY <2>2, <2>3, <2>4, <2>5, <2>6, <2>7, MintsChange DEF Next
<1> QED BY <1>1, <1>2

(* The list never holds two farms of one mint, whatever was removed.       *)
THEOREM FarmsUnique == Spec => []OneFarmPerMint
<1>1. Init => OneFarmPerMint
  BY DEF Init, OneFarmPerMint
<1>2. TypeOK /\ OneFarmPerMint /\ [Next]_vars => OneFarmPerMint'
  BY FarmsStayOne
<1> QED BY <1>1, <1>2, TypeCorrect, PTL DEF Spec

(* stake_lp, unstake_lp, claim_farm_emission: no step that takes no time   *)
(* changes what anybody was paid and is owed in all, whatever farms were   *)
(* removed before: neither the order nor the number of settlements counts. *)
THEOREM OnlyTime == Spec => OnlyTimePays
<1>1. TypeOK /\ TypeOK' /\ OneFarmPerMint /\ OneFarmPerMint' /\ [Next]_vars =>
        [(now' = now /\ FarmMints' = FarmMints) =>
            \A u \in Stakers, m \in Mints : Owed(u, m)' = Owed(u, m)]_vars
  BY StepPays
<1> QED BY <1>1, TypeCorrect, FarmsUnique, PTL DEF Spec, OnlyTimePays
=============================================================================
