---------------------------- MODULE CuratorProofs ----------------------------
(***************************************************************************)
(* Theorems about Curator for every value of its constants: no handler     *)
(* underflows, the shares add up, deposits and withdrawals keep the price  *)
(* of a share, the fee dilutes by no more than the fee, and a roll needs   *)
(* a standing consent.                                                     *)
(***************************************************************************)
EXTENDS Curator, ArithmeticTheorems

AdapterOK == adapter \in AdapterRecord /\ adapter.rate > 0

Money == base \in [Holders -> Nat] /\ idle \in Nat

Books ==
    /\ vault \in VaultRecord
    /\ shares \in [Holders -> Nat]
    /\ SharesAddUp

(* The vault's liquidity is part of what the market has issued.            *)
Held(o, p) ==
    /\ o \in OwnRecord
    /\ p \in [Markets -> PoolRecord]
    /\ \A m \in Markets : o.lp[m] <= p[m].lp

(* Every open delegation is a consent of its user.                         *)
Signed ==
    /\ now \in Nat
    /\ delegation \in [Holders -> DelegationRecord]
    /\ consent \in [Holders -> SUBSET ConsentRecord]
    /\ \A u \in Holders : delegation[u].open =>
          \E c \in consent[u] : /\ c.list = delegation[u].hash
                                /\ delegation[u].expires <= c.at + MaxTtl
                                /\ c.at <= now
    /\ \A u \in Holders : delegation[u].open =>
          \A c \in consent[u] : c.slippage = delegation[u].slippage

IInv ==
    /\ AdapterOK
    /\ Money
    /\ Books
    /\ allocs \in Seq(Allocation)
    /\ Held(own, pool)
    /\ Signed

-----------------------------------------------------------------------------
(* Arithmetic.                                                             *)

(* A quotient whose fraction is no more than c is no more than c.          *)
LEMMA QuotientBelow ==
    ASSUME NEW a \in Nat, NEW b \in Nat \ {0}, NEW c \in Nat, a <= c * b
    PROVE  a \div b <= c
  OBVIOUS

(* A quotient whose fraction is at least c is at least c.                  *)
LEMMA QuotientAbove ==
    ASSUME NEW a \in Nat, NEW b \in Nat \ {0}, NEW c \in Nat, c * b <= a
    PROVE  a \div b \in Nat /\ c <= a \div b
  OBVIOUS

(* Issuing s shares for a deposit x keeps the price of a share.            *)
LEMMA IssuingKeepsPrice ==
    ASSUME NEW A \in Nat, NEW S \in Nat, NEW x \in Nat, NEW s \in Nat,
           s * A <= x * S
    PROVE  (A + x) * S >= A * (S + s)
  OBVIOUS

(* Burning s shares for a payment x keeps the price of the others.         *)
LEMMA BurningKeepsPrice ==
    ASSUME NEW A \in Nat, NEW S \in Nat, NEW x \in Nat, NEW s \in Nat,
           x * S <= s * A
    PROVE  (A - x) * S >= A * (S - s)
  OBVIOUS

(* Shares for a fee f of assets a, valued after they are minted.           *)
LEMMA FeeValue ==
    ASSUME NEW S \in Nat, NEW f \in Nat, NEW r \in Nat, NEW s \in Nat, NEW v \in Nat,
           s * r <= S * f, s <= f
    PROVE  s * (r + f + v) <= f * (S + s + v)
<1>1. s * v <= f * v
  OBVIOUS
<1>2. s * (r + f + v) = s * r + s * f + s * v
  OBVIOUS
<1>3. f * (S + s + v) = S * f + s * f + f * v
  OBVIOUS
<1>4. s * r \in Int /\ s * f \in Int /\ s * v \in Int /\ S * f \in Int /\ f * v \in Int
  OBVIOUS
<1> QED BY ONLY <1>1, <1>2, <1>3, <1>4, s * r <= S * f

-----------------------------------------------------------------------------
(* Types of the helpers.                                                   *)

(* The constants' types.                                                   *)
LEMMA ConstantTypes ==
    /\ Virtual \in Nat \ {0} /\ FeeBps \in 0..2000 /\ MaxTtl \in Nat /\ MinTtl \in Nat
    /\ \A n \in Amounts : n \in Nat
    /\ \A n \in Lots : n \in Nat
    /\ \A n \in Quotes : n \in Nat
    /\ \A n \in Rates : n \in Nat
    /\ \A n \in Redemptions : n \in Nat
    /\ \A n \in Attested : n \in Nat
    /\ \A n \in Slippages : n \in Nat
    /\ \A n \in Ttls : n \in Nat
    /\ \A u \in Signers : u \in Holders
  BY CuratorAssumptions

(* The fields of a pool.                                                   *)
LEMMA PoolFields ==
    ASSUME NEW q \in PoolRecord
    PROVE  /\ q.pt \in Nat /\ q.sy \in Nat /\ q.lp \in Nat
           /\ q.pt + Virtual \in Nat \ {0}
           /\ q.sy + Virtual \in Nat \ {0}
           /\ q.lp + Virtual \in Nat \ {0}
<1>1. q.pt \in Nat /\ q.sy \in Nat /\ q.lp \in Nat
  BY DEF PoolRecord
<1> QED BY <1>1, ConstantTypes

(* A deposit adds natural amounts.                                         *)
LEMMA LpAddedNat ==
    ASSUME NEW q \in PoolRecord, NEW a \in Nat, NEW b \in Nat
    PROVE  LpAdded(q, a, b) \in PoolRecord
<1> DEFINE p == q.pt + Virtual  s == q.sy + Virtual  l == q.lp + Virtual
<1>1. p \in Nat \ {0} /\ s \in Nat \ {0} /\ l \in Nat \ {0}
  BY PoolFields
<1>2. LpAdded(q, a, b) =
        IF a * s < b * p
        THEN [pt |-> a, lp |-> (l * a) \div p,
              sy |-> (s * l * a + (l - 1) * p) \div (p * l)]
        ELSE [sy |-> b, lp |-> (l * b) \div s,
              pt |-> (p * l * b + (l - 1) * s) \div (s * l)]
  BY DEF LpAdded
<1> HIDE DEF p, s, l
<1>3. /\ l * a \in Nat /\ l * b \in Nat /\ p * l \in Nat \ {0} /\ s * l \in Nat \ {0}
      /\ s * l * a + (l - 1) * p \in Nat /\ p * l * b + (l - 1) * s \in Nat
  <2>1. /\ l * a \in Nat /\ l * b \in Nat /\ p * l \in Nat \ {0}
        /\ s * l \in Nat \ {0} /\ l - 1 \in Nat
    BY <1>1
  <2>2. s * l * a \in Nat /\ p * l * b \in Nat
    BY <2>1, ProductNat
  <2>3. (l - 1) * p \in Nat /\ (l - 1) * s \in Nat
    BY <1>1, <2>1, ProductNat
  <2> QED BY <2>1, <2>2, <2>3
<1>4. /\ (l * a) \div p \in Nat /\ (l * b) \div s \in Nat
      /\ (s * l * a + (l - 1) * p) \div (p * l) \in Nat
      /\ (p * l * b + (l - 1) * s) \div (s * l) \in Nat
  BY <1>1, <1>3, DivNat
<1> QED BY ONLY <1>2, <1>4, a \in Nat, b \in Nat DEF PoolRecord

(* A withdrawal takes natural amounts, no more than the reserves.          *)
LEMMA LpRemovedNat ==
    ASSUME NEW q \in PoolRecord, NEW n \in Nat
    PROVE  /\ LpRemoved(q, n).pt \in Nat /\ LpRemoved(q, n).pt <= q.pt
           /\ LpRemoved(q, n).sy \in Nat /\ LpRemoved(q, n).sy <= q.sy
<1> DEFINE a == ((q.pt + Virtual) * n) \div (q.lp + Virtual)
           b == ((q.sy + Virtual) * n) \div (q.lp + Virtual)
<1>1. a \in Nat /\ b \in Nat
  <2>1. (q.pt + Virtual) * n \in Nat /\ (q.sy + Virtual) * n \in Nat
    BY PoolFields, ProductNat
  <2> QED BY <2>1, PoolFields, DivNat
<1>2. LpRemoved(q, n) = [pt |-> Smaller(a, q.pt), sy |-> Smaller(b, q.sy)]
  BY DEF LpRemoved
<1> HIDE DEF a, b
<1> QED BY <1>1, <1>2, PoolFields DEF Smaller

(* Reserves after a deposit, a withdrawal and a trade.                     *)
LEMMA PoolMoves ==
    ASSUME NEW q \in PoolRecord
    PROVE  /\ \A r \in PoolRecord :
                Joined(q, r) \in PoolRecord /\ Joined(q, r).lp = q.lp + r.lp
           /\ \A n \in Nat : n <= q.lp =>
                /\ Parted(q, LpRemoved(q, n), n) \in PoolRecord
                /\ Parted(q, LpRemoved(q, n), n).lp = q.lp - n
           /\ \A n, c \in Nat : n <= q.pt =>
                Traded(q, n, c) \in PoolRecord /\ Traded(q, n, c).lp = q.lp
<1>1. ASSUME NEW r \in PoolRecord
      PROVE  Joined(q, r) \in PoolRecord /\ Joined(q, r).lp = q.lp + r.lp
  BY PoolFields DEF Joined, PoolRecord
<1>2. ASSUME NEW n \in Nat, n <= q.lp
      PROVE  /\ Parted(q, LpRemoved(q, n), n) \in PoolRecord
             /\ Parted(q, LpRemoved(q, n), n).lp = q.lp - n
  <2>1. /\ q.pt - LpRemoved(q, n).pt \in Nat /\ q.sy - LpRemoved(q, n).sy \in Nat
        /\ q.lp - n \in Nat
    BY <1>2, PoolFields, LpRemovedNat
  <2> QED BY <2>1 DEF Parted, PoolRecord
<1>3. ASSUME NEW n \in Nat, NEW c \in Nat, n <= q.pt
      PROVE  Traded(q, n, c) \in PoolRecord /\ Traded(q, n, c).lp = q.lp
  <2>1. q.pt - n \in Nat /\ q.sy + c \in Nat
    BY <1>3, PoolFields
  <2> QED BY <2>1 DEF Traded, PoolRecord
<1> QED BY <1>1, <1>2, <1>3

(* The adapter's amounts at a positive rate.                               *)
LEMMA AdapterNat ==
    ASSUME adapter \in AdapterRecord, adapter.rate > 0, NEW n \in Nat
    PROVE  /\ MintedFor(n) \in Nat /\ RedeemedFor(n) \in Nat
           /\ \A a \in AdapterRecord :
                /\ WithMint(a, n) \in AdapterRecord
                /\ WithMint(a, n).rate = a.rate
                /\ RedeemedFor(n) <= a.base => /\ WithRedeem(a, n) \in AdapterRecord
                                              /\ WithRedeem(a, n).rate = a.rate
<1>1. adapter.rate \in Nat \ {0}
  BY DEF AdapterRecord
<1>2. MintedFor(n) \in Nat /\ RedeemedFor(n) \in Nat
  BY <1>1, NumberNat DEF MintedFor, RedeemedFor
<1>3. ASSUME NEW a \in AdapterRecord
      PROVE  /\ WithMint(a, n) \in AdapterRecord
             /\ WithMint(a, n).rate = a.rate
             /\ RedeemedFor(n) <= a.base => /\ WithRedeem(a, n) \in AdapterRecord
                                           /\ WithRedeem(a, n).rate = a.rate
  <2>1. a.base \in Nat /\ a.rate \in Nat /\ a.base + n \in Nat
    BY DEF AdapterRecord
  <2>2. RedeemedFor(n) <= a.base => a.base - RedeemedFor(n) \in Nat
    BY <1>2, <2>1
  <2>3. /\ WithMint(a, n) = [a EXCEPT !.base = a.base + n]
        /\ WithRedeem(a, n) = [a EXCEPT !.base = a.base - RedeemedFor(n)]
    BY DEF WithMint, WithRedeem
  <2> QED BY ONLY <2>1, <2>2, <2>3, a \in AdapterRecord DEF AdapterRecord
<1> QED BY <1>2, <1>3

(* An allocation whose deployed amount changes stays an allocation.        *)
LEMMA AllocUpdate ==
    ASSUME NEW list \in Seq(Allocation), NEW i \in DOMAIN list, NEW v \in Nat
    PROVE  /\ [list EXCEPT ![i].deployed = v] \in Seq(Allocation)
           /\ DOMAIN [list EXCEPT ![i].deployed = v] = DOMAIN list
<1>1. PICK n \in Nat : DOMAIN list = 1..n /\ list \in [1..n -> Allocation]
  <2>1. DOMAIN list = 1..Len(list) /\ Len(list) \in Nat
    OBVIOUS
  <2>2. list \in [1..Len(list) -> Allocation]
    OBVIOUS
  <2> QED BY <2>1, <2>2, Zenon
<1>2. [list[i] EXCEPT !.deployed = v] \in Allocation
  BY <1>1 DEF Allocation
<1> DEFINE e == [list[i] EXCEPT !.deployed = v]
<1>3. [list EXCEPT ![i].deployed = v] = [list EXCEPT ![i] = e]
  OBVIOUS
<1> HIDE DEF e
<1>4. [list EXCEPT ![i] = e] \in [1..n -> Allocation]
  BY <1>1, <1>2 DEF e
<1>5. \A f \in [1..n -> Allocation] : f \in Seq(Allocation) /\ DOMAIN f = 1..n
  OBVIOUS
<1> QED BY <1>1, <1>3, <1>4, <1>5

(* The fields of an allocation in force.                                   *)
LEMMA AllocFields ==
    ASSUME NEW list \in Seq(Allocation), NEW i \in DOMAIN list
    PROVE  /\ list[i].deployed \in Nat /\ list[i].market \in Markets
           /\ list[i].cap \in Nat /\ list[i].weight \in Nat
<1>1. list[i] \in Allocation
  OBVIOUS
<1> QED BY <1>1 DEF Allocation

(* The deployed amounts add up to a natural number.                        *)
LEMMA DeployedNat ==
    ASSUME NEW list \in Seq(Allocation)
    PROVE  Deployed(list) \in Nat
<1> DEFINE f == [i \in DOMAIN list |-> list[i].deployed]
<1>1. IsFiniteSet(DOMAIN list)
  <2>1. DOMAIN list = 1..Len(list) /\ Len(list) \in Nat
    OBVIOUS
  <2> QED BY <2>1, IntervalSize
<1>2. \A i \in DOMAIN list : f[i] \in Nat
  BY AllocFields
<1>3. Deployed(list) = Total(DOMAIN list, f)
  BY DEF Deployed
<1> HIDE DEF f
<1> QED BY <1>1, <1>2, <1>3, TotalNat

(* A commitment to a list of allocations.                                  *)
LEMMA CommitmentsTyped ==
    ASSUME NEW list \in Seq(Allocation)
    PROVE  /\ HashAllocations(list) \in Seq(Commitment)
           /\ Whitelist(list) = HashAllocations(list)
<1> DEFINE h == [i \in DOMAIN list |->
                   [market |-> list[i].market, weight |-> list[i].weight,
                    cap |-> list[i].cap]]
<1>1. DOMAIN list = 1..Len(list) /\ Len(list) \in Nat
  OBVIOUS
<1>2. \A i \in DOMAIN list : [market |-> list[i].market, weight |-> list[i].weight,
                               cap |-> list[i].cap] \in Commitment
  BY AllocFields DEF Commitment
<1>3. h \in [1..Len(list) -> Commitment]
  BY <1>1, <1>2
<1> HIDE DEF h
<1>4. h \in Seq(Commitment)
  BY <1>1, <1>3
<1>5. HashAllocations(list) = h /\ Whitelist(list) = h
  BY DEF HashAllocations, Whitelist, h
<1> QED BY <1>4, <1>5

(* One holder's shares change, and the total with them.                    *)
LEMMA SharesMove ==
    ASSUME NEW f \in [Holders -> Nat], NEW g \in [Holders -> Nat], NEW u \in Holders,
           \A y \in Holders \ {u} : g[y] = f[y]
    PROVE  /\ Total(Holders, f) \in Nat /\ Total(Holders, g) \in Nat
           /\ Total(Holders, g) + f[u] = Total(Holders, f) + g[u]
<1>1. \A y \in Holders : f[y] \in Nat /\ g[y] \in Nat
  OBVIOUS
<1>2. IsFiniteSet(Holders)
  BY CuratorAssumptions
<1>3. Total(Holders, f) \in Nat /\ Total(Holders, g) \in Nat
  BY <1>1, <1>2, TotalNat
<1>4. Total(Holders, g) + f[u] = Total(Holders, f) + g[u]
  BY ONLY <1>1, <1>2, u \in Holders, \A y \in Holders \ {u} : g[y] = f[y], TotalUpdate
<1> QED BY <1>3, <1>4

(* A change in one market.                                                 *)
LEMMA HeldMove ==
    ASSUME NEW o, NEW p, Held(o, p), NEW m \in Markets, NEW y \in Nat,
           NEW t \in [Markets -> Nat], NEW z \in Nat, NEW r \in PoolRecord, z <= r.lp
    PROVE  Held([sy |-> y, pt |-> t, lp |-> [o.lp EXCEPT ![m] = z]],
                [p EXCEPT ![m] = r])
<1> DEFINE l == [o.lp EXCEPT ![m] = z]  q == [p EXCEPT ![m] = r]
           n == [sy |-> y, pt |-> t, lp |-> l]
<1>1. o.lp \in [Markets -> Nat] /\ p \in [Markets -> PoolRecord]
  BY DEF Held, OwnRecord
<1>2. l \in [Markets -> Nat] /\ q \in [Markets -> PoolRecord]
  BY <1>1
<1>3. \A k \in Markets : l[k] <= q[k].lp
  <2> SUFFICES ASSUME NEW k \in Markets PROVE l[k] <= q[k].lp
    OBVIOUS
  <2>1. CASE k = m
    BY <1>1, <2>1
  <2>2. CASE k # m
    BY <1>1, <2>2 DEF Held
  <2> QED BY <2>1, <2>2
<1>4. n.lp = l /\ n \in OwnRecord
  BY <1>2 DEF OwnRecord
<1> HIDE DEF l, q, n
<1>5. Held(n, q)
  BY <1>2, <1>3, <1>4 DEF Held
<1> QED BY <1>5 DEF l, q, n

(* The vault's holdings in one market.                                     *)
LEMMA HeldFields ==
    ASSUME NEW o, NEW p, Held(o, p), NEW m \in Markets
    PROVE  /\ o.sy \in Nat /\ o.pt \in [Markets -> Nat] /\ o.lp \in [Markets -> Nat]
           /\ o.pt[m] \in Nat /\ o.lp[m] \in Nat /\ p[m] \in PoolRecord
           /\ o.lp[m] <= p[m].lp
<1>1. o.sy \in Nat /\ o.pt \in [Markets -> Nat] /\ o.lp \in [Markets -> Nat]
  BY DEF Held, OwnRecord
<1> QED BY <1>1 DEF Held

(* The value of an allocation is a natural number.                         *)
LEMMA MarketValueNat ==
    ASSUME Held(own, pool), NEW m \in Markets, NEW rate \in Nat, NEW redemption \in Nat
    PROVE  MarketValue(m, rate, redemption) \in Nat
<1> DEFINE inSy(pt, sy) == NumMul(Natural(pt), redemption) + Natural(sy)
           share == FromRatio(own.lp[m], pool[m].lp)
           ofPool == IF own.lp[m] > 0 /\ pool[m].lp > 0
                     THEN NumMul(share, inSy(pool[m].pt, EscrowedSy(m)))
                     ELSE 0
<1>1. /\ own.sy \in Nat /\ own.pt[m] \in Nat /\ own.lp[m] \in Nat
      /\ pool[m].pt \in Nat /\ pool[m].lp \in Nat /\ EscrowedSy(m) \in Nat
  BY HeldFields, PoolFields DEF EscrowedSy
<1>2. \A a, b \in Nat : inSy(a, b) \in Nat
  <2> SUFFICES ASSUME NEW a \in Nat, NEW b \in Nat PROVE inSy(a, b) \in Nat
    OBVIOUS
  <2>1. Natural(a) \in Nat /\ Natural(b) \in Nat
    BY NumberNat
  <2>2. NumMul(Natural(a), redemption) \in Nat
    BY <2>1, NumberNat
  <2> QED BY <2>1, <2>2
<1>3. share \in Nat
  <2>1. CASE pool[m].lp = 0
    BY <2>1 DEF FromRatio
  <2>2. CASE pool[m].lp # 0
    <3>1. Natural(own.lp[m]) \in Nat /\ Natural(pool[m].lp) \in Nat \ {0}
      BY <1>1, <2>2, ONEAssumption DEF Natural
    <3>2. NumDiv(Natural(own.lp[m]), Natural(pool[m].lp)) \in Nat
      BY <3>1, NumberNat
    <3> QED BY <2>2, <3>2 DEF FromRatio
  <2> QED BY <2>1, <2>2
<1> HIDE DEF inSy, share
<1>4. ofPool \in Nat
  BY <1>1, <1>2, <1>3, NumberNat
<1>5. MarketValue(m, rate, redemption)
        = FloorU64(NumMul(inSy(own.pt[m], own.sy) + ofPool, rate))
  BY DEF MarketValue, inSy, share
<1> HIDE DEF ofPool
<1>6. inSy(own.pt[m], own.sy) + ofPool \in Nat
  <2>1. inSy(own.pt[m], own.sy) \in Nat
    BY <1>1, <1>2
  <2> QED BY ONLY <1>4, <2>1
<1>7. NumMul(inSy(own.pt[m], own.sy) + ofPool, rate) \in Nat
  BY <1>6, NumberNat
<1> QED BY <1>5, <1>7, NumberNat

-----------------------------------------------------------------------------
(* The holders' and the curator's steps.                                   *)

(* The fields of the vault.                                                *)
LEMMA VaultFields ==
    ASSUME NEW w \in VaultRecord
    PROVE  /\ w.assets \in Nat /\ w.shares \in Nat /\ w.harvested \in Nat
           /\ w.assets + Virtual \in Nat \ {0}
           /\ w.shares + Virtual \in Nat \ {0}
<1>1. w.assets \in Nat /\ w.shares \in Nat /\ w.harvested \in Nat
  BY DEF VaultRecord
<1> QED BY <1>1, ConstantTypes

(* The books after shares of one holder were minted or burned.             *)
LEMMA BooksMove ==
    ASSUME Books, NEW u \in Holders, NEW v \in Nat, NEW s \in Nat,
           s + shares[u] = vault.shares + v,
           vault' \in VaultRecord, vault'.shares = s,
           shares' = [shares EXCEPT ![u] = v]
    PROVE  Books'
<1>1. /\ shares \in [Holders -> Nat] /\ vault.shares = Total(Holders, shares)
      /\ shares[u] \in Nat
  BY DEF Books, SharesAddUp
<1>2. /\ shares' \in [Holders -> Nat] /\ shares'[u] = v
      /\ \A y \in Holders \ {u} : shares'[y] = shares[y]
  BY ONLY <1>1, shares' = [shares EXCEPT ![u] = v], u \in Holders, v \in Nat
<1>3. /\ Total(Holders, shares') \in Nat /\ Total(Holders, shares) \in Nat
      /\ Total(Holders, shares') + shares[u] = Total(Holders, shares) + shares'[u]
  BY ONLY <1>1, <1>2, u \in Holders, SharesMove
<1>4. PICK T \in Nat : T = Total(Holders, shares')
  BY <1>3
<1>5. PICK w \in Nat : w = shares[u]
  BY <1>1
<1>6. PICK z \in Nat : z = vault.shares
  BY <1>1, <1>3
<1>7. T + w = z + v /\ s + w = z + v
  BY <1>1, <1>2, <1>3, <1>4, <1>5, <1>6
<1>8. T = s
  BY ONLY <1>7, T \in Nat, s \in Nat, w \in Nat, z \in Nat, v \in Nat
<1> QED BY <1>2, <1>4, <1>8 DEF Books, SharesAddUp

(* Shares for a deposit, and assets for shares, never exceed the price.    *)
LEMMA ShareBounds ==
    ASSUME Books, NEW n \in Nat
    PROVE  /\ SharesFor(n) \in Nat
           /\ SharesFor(n) * (vault.assets + Virtual) <= n * (vault.shares + Virtual)
           /\ AssetsFor(n) \in Nat
           /\ AssetsFor(n) * (vault.shares + Virtual) <= n * (vault.assets + Virtual)
<1> DEFINE A == vault.assets + Virtual  S == vault.shares + Virtual
<1>1. A \in Nat \ {0} /\ S \in Nat \ {0}
  BY VaultFields DEF Books
<1>2. SharesFor(n) = (n * S) \div A /\ AssetsFor(n) = (n * A) \div S
  BY DEF SharesFor, AssetsFor
<1> HIDE DEF A, S
<1>3. n * S \in Nat /\ n * A \in Nat
  BY <1>1, ProductNat
<1>4. (n * S) \div A \in Nat /\ ((n * S) \div A) * A <= n * S
  BY <1>1, <1>3, Quotient
<1>5. (n * A) \div S \in Nat /\ ((n * A) \div S) * S <= n * A
  BY <1>1, <1>3, Quotient
<1>6. /\ SharesFor(n) \in Nat /\ SharesFor(n) * A <= n * S
      /\ AssetsFor(n) \in Nat /\ AssetsFor(n) * S <= n * A
  BY ONLY <1>2, <1>4, <1>5
<1> USE DEF A, S
<1> QED BY <1>6

(* The fee is no more than a fifth of the assets attested.                 *)
LEMMA FeeBounds ==
    ASSUME Books, NEW c \in Nat
    PROVE  FeeOn(c) \in Nat /\ FeeOn(c) <= c /\ (c > 0 => FeeOn(c) < c)
<1> DEFINE g == IF c <= vault.harvested THEN 0 ELSE c - vault.harvested
           k == g * FeeBps
<1>1. vault.harvested \in Nat
  BY VaultFields DEF Books
<1>2. g \in Nat /\ g <= c
  BY <1>1
<1> HIDE DEF g
<1>3. k \in Nat /\ k <= c * 2000
  <2>1. FeeBps \in Nat /\ FeeBps <= 2000
    BY ConstantTypes
  <2>2. g * FeeBps <= c * 2000
    BY <1>2, <2>1
  <2> QED BY <1>2, <2>1, <2>2
<1>4. FeeOn(c) = k \div 10000
  BY DEF FeeOn, g
<1> HIDE DEF k
<1> QED BY ONLY <1>3, <1>4, c \in Nat

(* The shares of the fee: a natural number; when each unit of the rest is  *)
(* worth a share, no more than the fee and no more than its price.         *)
LEMMA FeeSharesBounds ==
    ASSUME Books, NEW c \in Nat
    PROVE  /\ FeeShares(c) \in Nat
           /\ vault.shares \in 1..(c - FeeOn(c)) =>
                /\ FeeShares(c) <= FeeOn(c)
                /\ FeeShares(c) * (c - FeeOn(c)) <= vault.shares * FeeOn(c)
<1> DEFINE f == FeeOn(c)  S == vault.shares  r == c - f  q == (S * f) \div r
<1>1. f \in Nat /\ f <= c /\ S \in Nat /\ r \in Nat
  BY FeeBounds, VaultFields DEF Books
<1>2. FeeShares(c) = IF f > 0 /\ S = 0 THEN f
                     ELSE IF f > 0 /\ c > f THEN q ELSE 0
  BY DEF FeeShares
<1>3. ASSUME r > 0
      PROVE  q \in Nat /\ q * r <= S * f /\ (S <= r => q <= f)
  <2> HIDE DEF f, S, r
  <2>1. S * f \in Nat /\ r \in Nat \ {0}
    BY <1>1, <1>3, ProductNat
  <2>2. q \in Nat /\ q * r <= S * f
    BY ONLY <2>1, Quotient
  <2>3. ASSUME S <= r PROVE q <= f
    <3>1. S * f <= f * r
      BY <1>1, <2>3
    <3> QED BY ONLY <1>1, <2>1, <3>1, QuotientBelow
  <2> QED BY <2>2, <2>3
<1>4. c > f <=> r > 0
  BY <1>1
<1>5. FeeShares(c) \in Nat
  BY ONLY <1>1, <1>2, <1>3, <1>4
<1>6. ASSUME S \in 1..r
      PROVE  FeeShares(c) <= f /\ FeeShares(c) * r <= S * f
  <2>1. S <= r /\ r > 0 /\ S # 0 /\ S * f \in Nat
    BY <1>1, <1>6, ProductNat
  <2>2. CASE f > 0
    <3>1. FeeShares(c) = q
      BY <1>2, <1>4, <2>1, <2>2
    <3>2. q <= f /\ q * r <= S * f
      BY <1>3, <2>1
    <3> QED BY ONLY <3>1, <3>2
  <2>3. CASE ~(f > 0)
    <3>1. FeeShares(c) = 0
      BY <1>1, <1>2, <2>3
    <3>2. 0 <= f /\ 0 * r <= S * f
      BY <1>1, <2>1
    <3> QED BY ONLY <3>1, <3>2
  <2> QED BY <2>2, <2>3
<1> HIDE DEF q
<1> QED BY <1>5, <1>6

(* deposit.                                                                *)
LEMMA DepositStep ==
    ASSUME IInv, NEW u \in Holders, NEW n \in Nat, Deposit(u, n)
    PROVE  IInv'
<1>1. /\ n <= base[u] /\ base' = [base EXCEPT ![u] = base[u] - n] /\ idle' = idle + n
      /\ vault' = [vault EXCEPT !.assets = vault.assets + n,
                                !.shares = vault.shares + SharesFor(n)]
      /\ shares' = [shares EXCEPT ![u] = shares[u] + SharesFor(n)]
      /\ UNCHANGED <<adapter, now, allocs, own, pool, delegation, consent>>
  BY DEF Deposit
<1>2. Books /\ Money /\ shares \in [Holders -> Nat] /\ vault \in VaultRecord
  BY DEF IInv, Books
<1>3. SharesFor(n) \in Nat
  BY <1>2, ShareBounds
<1>4. PICK k \in Nat : k = SharesFor(n)
  BY <1>3
<1>5. /\ vault.assets + n \in Nat /\ vault.shares + k \in Nat /\ shares[u] + k \in Nat
      /\ (vault.shares + k) + shares[u] = vault.shares + (shares[u] + k)
  BY <1>2, VaultFields
<1>6. vault' \in VaultRecord /\ vault'.shares = vault.shares + k
  <2>1. vault' = [vault EXCEPT !.assets = vault.assets + n, !.shares = vault.shares + k]
    BY <1>1, <1>4
  <2> QED BY ONLY <1>2, <1>5, <2>1 DEF VaultRecord
<1>7. Books'
  <2>1. shares' = [shares EXCEPT ![u] = shares[u] + k]
    BY <1>1, <1>4
  <2> QED BY ONLY <1>2, <1>5, <1>6, <2>1, u \in Holders, BooksMove
<1>8. Money'
  BY <1>1, <1>2 DEF Money
<1> QED BY <1>1, <1>7, <1>8 DEF IInv, AdapterOK, Signed

(* withdraw.                                                               *)
LEMMA WithdrawStep ==
    ASSUME IInv, NEW u \in Holders, NEW n \in Nat, Withdraw(u, n)
    PROVE  IInv'
<1>1. /\ n <= shares[u] /\ n <= vault.shares
      /\ AssetsFor(n) <= vault.assets /\ AssetsFor(n) <= idle
      /\ base' = [base EXCEPT ![u] = base[u] + AssetsFor(n)]
      /\ idle' = idle - AssetsFor(n)
      /\ vault' = [vault EXCEPT !.assets = vault.assets - AssetsFor(n),
                                !.shares = vault.shares - n]
      /\ shares' = [shares EXCEPT ![u] = shares[u] - n]
      /\ UNCHANGED <<adapter, now, allocs, own, pool, delegation, consent>>
  BY DEF Withdraw, Burned
<1>2. Books /\ Money /\ shares \in [Holders -> Nat] /\ vault \in VaultRecord
  BY DEF IInv, Books
<1>3. AssetsFor(n) \in Nat
  BY <1>2, ShareBounds
<1>5. /\ vault.assets - AssetsFor(n) \in Nat /\ vault.shares - n \in Nat
      /\ shares[u] - n \in Nat
      /\ (vault.shares - n) + shares[u] = vault.shares + (shares[u] - n)
  BY <1>1, <1>2, <1>3, VaultFields
<1>6. vault' \in VaultRecord /\ vault'.shares = vault.shares - n
  <2>1. vault' = [vault EXCEPT !.assets = vault.assets - AssetsFor(n),
                               !.shares = vault.shares - n]
    BY <1>1
  <2> QED BY ONLY <1>2, <1>5, <2>1 DEF VaultRecord
<1>7. Books'
  BY ONLY <1>1, <1>2, <1>5, <1>6, u \in Holders, BooksMove
<1>8. Money'
  BY <1>1, <1>2, <1>3 DEF Money
<1> QED BY <1>1, <1>7, <1>8 DEF IInv, AdapterOK, Signed

(* harvest_fees.  Without shares in the vault no position has any.         *)
LEMMA HarvestStep ==
    ASSUME IInv, NEW u \in Holders, NEW c \in Nat, HarvestFees(u, c)
    PROVE  IInv'
<1> DEFINE k == FeeShares(c)  S == vault.shares
<1>1. /\ vault' = [assets |-> c, shares |-> S + k, harvested |-> c]
      /\ shares' = [shares EXCEPT ![u] = IF S = 0 /\ k > 0 THEN k ELSE shares[u] + k]
      /\ UNCHANGED <<adapter, now, base, idle, allocs, own, pool, delegation, consent>>
  BY DEF HarvestFees
<1>2. Books /\ shares \in [Holders -> Nat] /\ vault \in VaultRecord /\ shares[u] \in Nat
  BY DEF IInv, Books
<1>3. k \in Nat /\ S \in Nat
  BY <1>2, FeeSharesBounds, VaultFields
<1>4. shares[u] <= S
  <2>1. IsFiniteSet(Holders) /\ S = Total(Holders, shares)
    BY <1>2, CuratorAssumptions DEF Books, SharesAddUp
  <2>2. \A y \in Holders : shares[y] \in Nat
    BY <1>2
  <2>3. shares[u] <= Total(Holders, shares)
    BY ONLY <2>1, <2>2, u \in Holders, TotalBounds
  <2> QED BY <2>1, <2>3
<1> HIDE DEF k, S
<1> DEFINE v == shares[u] + k
<1>5. (IF S = 0 /\ k > 0 THEN k ELSE shares[u] + k) = v
  BY <1>2, <1>3, <1>4
<1>6. shares' = [shares EXCEPT ![u] = v]
  BY <1>1, <1>5
<1>7. S + k \in Nat /\ v \in Nat /\ (S + k) + shares[u] = S + v
  BY <1>2, <1>3
<1>8. vault' \in VaultRecord /\ vault'.shares = S + k
  BY <1>1, <1>7 DEF VaultRecord
<1> HIDE DEF v
<1>9. Books'
  <2>1. (S + k) + shares[u] = vault.shares + v
    BY <1>7 DEF S
  <2> QED BY ONLY <1>2, <1>6, <1>7, <1>8, <2>1, u \in Holders, BooksMove
<1> QED BY <1>1, <1>9 DEF IInv, AdapterOK, Money, Signed

(* set_allocations.                                                        *)
LEMMA SetAllocationsStep ==
    ASSUME IInv, NEW u, NEW list \in Lists, SetAllocations(u, list)
    PROVE  IInv'
<1>1. allocs' = list /\ list \in Seq(Allocation)
  BY ListsAssumption DEF SetAllocations
<1>2. UNCHANGED <<adapter, now, base, idle, vault, shares, own, pool, delegation, consent>>
  BY DEF SetAllocations
<1> QED BY <1>1, <1>2 DEF IInv, AdapterOK, Money, Books, SharesAddUp, Signed

(* reallocate_to_market.                                                   *)
LEMMA ReallocateToStep ==
    ASSUME IInv, NEW u, NEW i \in DOMAIN allocs, NEW m \in Markets, NEW a \in Nat,
           NEW n \in Nat, NEW c \in Nat, NEW pi \in Nat, NEW si \in Nat,
           ReallocateToMarket(u, i, m, a, n, c, pi, si)
    PROVE  IInv'
<1> DEFINE sy == own.sy + SyFor(a)
           q == Traded(pool[m], n, c)
           r == LpAdded(q, pi, si)
           p == Joined(q, r)
<1>1. /\ n <= pool[m].pt /\ c + r.sy <= sy /\ r.pt <= own.pt[m] + n /\ a <= idle
      /\ idle' = idle - a /\ adapter' = WithMint(adapter, a)
      /\ pool' = [pool EXCEPT ![m] = p]
      /\ own' = [sy |-> sy - c - r.sy,
                 pt |-> [own.pt EXCEPT ![m] = own.pt[m] + n - r.pt],
                 lp |-> [own.lp EXCEPT ![m] = own.lp[m] + r.lp]]
      /\ allocs' = [allocs EXCEPT ![i].deployed = allocs[i].deployed + a]
      /\ UNCHANGED <<now, base, vault, shares, delegation, consent>>
  BY DEF ReallocateToMarket
<1>2. /\ AdapterOK /\ Money /\ Held(own, pool) /\ allocs \in Seq(Allocation)
  BY DEF IInv
<1>3. SyFor(a) \in Nat /\ AdapterOK'
  <2>1. /\ MintedFor(a) \in Nat /\ WithMint(adapter, a) \in AdapterRecord
        /\ WithMint(adapter, a).rate = adapter.rate
    BY <1>2, AdapterNat DEF AdapterOK
  <2> QED BY <1>1, <1>2, <2>1 DEF AdapterOK, SyFor
<1>4. /\ q \in PoolRecord /\ q.lp = pool[m].lp /\ r \in PoolRecord
      /\ p \in PoolRecord /\ p.lp = pool[m].lp + r.lp
  <2>1. pool[m] \in PoolRecord
    BY <1>2, HeldFields
  <2>2. q \in PoolRecord /\ q.lp = pool[m].lp
    BY <1>1, <2>1, PoolMoves
  <2> HIDE DEF q
  <2>3. r \in PoolRecord
    BY <2>2, LpAddedNat
  <2> HIDE DEF r
  <2>4. p \in PoolRecord /\ p.lp = q.lp + r.lp
    BY <2>2, <2>3, PoolMoves
  <2> QED BY <2>2, <2>3, <2>4
<1>5. /\ own.sy \in Nat /\ own.pt \in [Markets -> Nat] /\ own.pt[m] \in Nat
      /\ own.lp[m] \in Nat /\ own.lp[m] <= pool[m].lp /\ pool[m].lp \in Nat
      /\ r.sy \in Nat /\ r.pt \in Nat /\ r.lp \in Nat
  <2>1. pool[m] \in PoolRecord
    BY <1>2, HeldFields
  <2> QED BY <1>2, <1>4, <2>1, HeldFields, PoolFields
<1> HIDE DEF q, r, p
<1> DEFINE y == sy - c - r.sy  x == own.pt[m] + n - r.pt  z == own.lp[m] + r.lp
           t == [own.pt EXCEPT ![m] = x]
<1>6. y \in Nat /\ x \in Nat /\ z \in Nat /\ z <= p.lp
  <2>1. sy \in Nat
    BY <1>3, <1>5
  <2> HIDE DEF sy
  <2>2. y \in Nat
    BY ONLY <1>1, <1>5, <2>1, c \in Nat
  <2> QED BY <1>1, <1>4, <1>5, <2>2
<1>7. t \in [Markets -> Nat]
  BY <1>5, <1>6
<1>8. own' = [sy |-> y, pt |-> t, lp |-> [own.lp EXCEPT ![m] = z]]
  BY <1>1
<1> HIDE DEF y, x, z, t
<1>9. Held(own', pool')
  <2>1. Held([sy |-> y, pt |-> t, lp |-> [own.lp EXCEPT ![m] = z]], [pool EXCEPT ![m] = p])
    BY ONLY <1>2, <1>4, <1>6, <1>7, m \in Markets, HeldMove
  <2>2. pool' = [pool EXCEPT ![m] = p]
    BY <1>1
  <2> QED BY ONLY <1>8, <2>1, <2>2, Zenon
<1>10. allocs' \in Seq(Allocation)
  <2>1. allocs[i].deployed + a \in Nat
    BY <1>2, AllocFields
  <2> QED BY <1>1, <1>2, <2>1, AllocUpdate
<1>11. Money'
  BY <1>1, <1>2 DEF Money
<1> QED BY <1>1, <1>3, <1>9, <1>10, <1>11 DEF IInv, Books, SharesAddUp, Signed

(* reallocate_from_market.                                                 *)
LEMMA ReallocateFromStep ==
    ASSUME IInv, NEW u, NEW i \in DOMAIN allocs, NEW m \in Markets, NEW lp \in Nat,
           NEW n \in Nat, NEW c \in Nat, NEW rd \in Nat, NEW e \in Nat,
           ReallocateFromMarket(u, i, m, lp, n, c, rd, e)
    PROVE  IInv'
<1> DEFINE r == LpRemoved(pool[m], lp)
           q == Parted(pool[m], r, lp)
           p == [q EXCEPT !.pt = q.pt + n, !.sy = q.sy - c]
           sy == own.sy + r.sy + c
<1>1. /\ lp <= own.lp[m] /\ n <= own.pt[m] + r.pt /\ c <= q.sy /\ rd <= sy
      /\ CanRedeem(rd)
      /\ pool' = [pool EXCEPT ![m] = p]
      /\ own' = [sy |-> own.sy + r.sy + c - rd,
                 pt |-> [own.pt EXCEPT ![m] = own.pt[m] + r.pt - n],
                 lp |-> [own.lp EXCEPT ![m] = own.lp[m] - lp]]
      /\ adapter' = WithRedeem(adapter, rd) /\ idle' = idle + RedeemedFor(rd)
      /\ allocs' = [allocs EXCEPT ![i].deployed = Undeployed(allocs[i].deployed, e)]
      /\ UNCHANGED <<now, base, vault, shares, delegation, consent>>
  <2>1. /\ lp <= own.lp[m] /\ n <= own.pt[m] + r.pt /\ c <= q.sy /\ rd <= sy
        /\ CanRedeem(rd)
        /\ adapter' = WithRedeem(adapter, rd) /\ idle' = idle + RedeemedFor(rd)
        /\ UNCHANGED <<now, base, vault, shares, delegation, consent>>
    BY DEF ReallocateFromMarket
  <2>2. pool' = [pool EXCEPT ![m] = p]
    BY DEF ReallocateFromMarket
  <2>3. own' = [sy |-> own.sy + r.sy + c - rd,
                pt |-> [own.pt EXCEPT ![m] = own.pt[m] + r.pt - n],
                lp |-> [own.lp EXCEPT ![m] = own.lp[m] - lp]]
    BY DEF ReallocateFromMarket
  <2>4. allocs' = [allocs EXCEPT ![i].deployed = Undeployed(allocs[i].deployed, e)]
    BY DEF ReallocateFromMarket
  <2> QED BY ONLY <2>1, <2>2, <2>3, <2>4
<1>2. /\ AdapterOK /\ Money /\ Held(own, pool) /\ allocs \in Seq(Allocation)
  BY DEF IInv
<1>3. RedeemedFor(rd) \in Nat /\ AdapterOK'
  <2>1. RedeemedFor(rd) \in Nat /\ RedeemedFor(rd) <= adapter.base
    BY <1>1, <1>2, AdapterNat DEF AdapterOK, CanRedeem
  <2>2. /\ WithRedeem(adapter, rd) \in AdapterRecord
        /\ WithRedeem(adapter, rd).rate = adapter.rate
    BY <1>2, <2>1, AdapterNat DEF AdapterOK
  <2> QED BY <1>1, <1>2, <2>1, <2>2 DEF AdapterOK
<1>4. /\ own.sy \in Nat /\ own.pt \in [Markets -> Nat] /\ own.pt[m] \in Nat
      /\ own.lp[m] \in Nat /\ own.lp[m] <= pool[m].lp /\ pool[m] \in PoolRecord
      /\ pool[m].lp \in Nat
  BY <1>2, HeldFields, PoolFields
<1>5. r.pt \in Nat /\ r.sy \in Nat /\ lp <= pool[m].lp
  BY <1>1, <1>4, LpRemovedNat
<1>6. q \in PoolRecord /\ q.lp = pool[m].lp - lp
  BY <1>4, <1>5, PoolMoves
<1> HIDE DEF q, r
<1>7. p \in PoolRecord /\ p.lp = q.lp
  <2>1. q.pt + n \in Nat /\ q.sy - c \in Nat
    BY <1>1, <1>6, PoolFields
  <2> QED BY ONLY <1>6, <2>1 DEF PoolRecord
<1> HIDE DEF p
<1> DEFINE y == own.sy + r.sy + c - rd  x == own.pt[m] + r.pt - n  z == own.lp[m] - lp
           t == [own.pt EXCEPT ![m] = x]
<1>8. y \in Nat /\ x \in Nat /\ z \in Nat /\ z <= p.lp
  <2>2. y \in Nat
    BY <1>1, <1>4, <1>5
  <2> QED BY <1>1, <1>4, <1>5, <1>6, <1>7, <2>2
<1>9. t \in [Markets -> Nat]
  BY <1>4, <1>8
<1>10. own' = [sy |-> y, pt |-> t, lp |-> [own.lp EXCEPT ![m] = z]]
  BY <1>1
<1> HIDE DEF y, x, z, t
<1>11. Held(own', pool')
  <2>1. Held([sy |-> y, pt |-> t, lp |-> [own.lp EXCEPT ![m] = z]], [pool EXCEPT ![m] = p])
    BY ONLY <1>2, <1>7, <1>8, <1>9, m \in Markets, HeldMove
  <2>2. pool' = [pool EXCEPT ![m] = p]
    BY <1>1
  <2> QED BY ONLY <1>10, <2>1, <2>2, Zenon
<1>12. allocs' \in Seq(Allocation)
  <2>1. allocs[i].deployed \in Nat
    BY <1>2, AllocFields
  <2>2. Undeployed(allocs[i].deployed, e) \in Nat
    BY <2>1 DEF Undeployed
  <2> QED BY <1>1, <1>2, <2>2, AllocUpdate
<1>13. Money'
  BY <1>1, <1>2, <1>3 DEF Money
<1> QED BY <1>1, <1>3, <1>11, <1>12, <1>13 DEF IInv, Books, SharesAddUp, Signed

(* mark_to_market.                                                         *)
LEMMA MarkStep ==
    ASSUME IInv, NEW i \in DOMAIN allocs, NEW m \in Markets, NEW rate \in Nat,
           NEW pr \in Nat, MarkToMarket(i, m, rate, pr)
    PROVE  IInv'
<1> DEFINE v == MarketValue(m, rate, pr)
           list == [allocs EXCEPT ![i].deployed = v]
<1>1. /\ allocs' = list
      /\ vault' = [vault EXCEPT !.assets = idle + Deployed(list)]
      /\ UNCHANGED <<adapter, now, base, idle, shares, own, pool, delegation, consent>>
  BY DEF MarkToMarket
<1>2. Held(own, pool) /\ allocs \in Seq(Allocation) /\ Books /\ idle \in Nat
      /\ vault \in VaultRecord
  BY DEF IInv, Money, Books
<1>3. v \in Nat
  BY <1>2, MarketValueNat
<1> HIDE DEF v
<1>4. list \in Seq(Allocation)
  BY <1>2, <1>3, AllocUpdate
<1> HIDE DEF list
<1>5. idle + Deployed(list) \in Nat
  BY <1>2, <1>4, DeployedNat
<1>6. vault' \in VaultRecord /\ vault'.shares = vault.shares
  BY <1>1, <1>2, <1>5 DEF VaultRecord
<1>7. Books'
  BY <1>1, <1>2, <1>6 DEF Books, SharesAddUp
<1> QED BY <1>1, <1>4, <1>7 DEF IInv, AdapterOK, Money, Signed

(* create_delegation: what is hashed is what the user signs.               *)
LEMMA CreateStep ==
    ASSUME IInv, NEW u \in Holders, NEW sl \in Nat, NEW ttl \in Nat,
           CreateDelegation(u, sl, ttl)
    PROVE  IInv'
<1> DEFINE d == [open |-> TRUE, slippage |-> sl, expires |-> now + ttl,
                 hash |-> HashAllocations(allocs)]
           c == [list |-> Whitelist(allocs), slippage |-> sl, at |-> now]
<1>1. /\ ttl <= MaxTtl
      /\ delegation' = [delegation EXCEPT ![u] = d]
      /\ consent' = [consent EXCEPT ![u] = {c}]
      /\ UNCHANGED <<adapter, now, base, idle, vault, allocs, shares, own, pool>>
  BY DEF CreateDelegation
<1>2. allocs \in Seq(Allocation) /\ Signed
  BY DEF IInv
<1>3. /\ HashAllocations(allocs) \in Seq(Commitment)
      /\ Whitelist(allocs) = HashAllocations(allocs)
  BY <1>2, CommitmentsTyped
<1>4. now \in Nat /\ now + ttl \in Nat /\ now + ttl <= now + MaxTtl /\ now <= now
  BY <1>1, <1>2, ConstantTypes DEF Signed
<1>5. d \in DelegationRecord /\ c \in ConsentRecord
  BY <1>3, <1>4 DEF DelegationRecord, ConsentRecord
<1>6. /\ c.list = d.hash /\ d.expires <= c.at + MaxTtl /\ c.at <= now
      /\ c.slippage = d.slippage
  BY <1>3, <1>4
<1> HIDE DEF d, c
<1>7. delegation' \in [Holders -> DelegationRecord]
  BY <1>1, <1>2, <1>5 DEF Signed
<1>8. ASSUME NEW w \in Holders
      PROVE  /\ consent'[w] \subseteq ConsentRecord
             /\ delegation'[w].open =>
                  \E k \in consent'[w] : /\ k.list = delegation'[w].hash
                                         /\ delegation'[w].expires <= k.at + MaxTtl
                                         /\ k.at <= now'
             /\ delegation'[w].open =>
                  \A k \in consent'[w] : k.slippage = delegation'[w].slippage
  <2>1. CASE w = u
    <3>1. consent'[w] = {c} /\ delegation'[w] = d /\ now' = now
      BY <1>1, <1>2, <2>1 DEF Signed
    <3> QED BY <1>5, <1>6, <3>1
  <2>2. CASE w # u
    <3>1. consent'[w] = consent[w] /\ delegation'[w] = delegation[w] /\ now' = now
      BY <1>1, <1>2, <2>2 DEF Signed
    <3> QED BY <1>2, <3>1 DEF Signed
  <2> QED BY <2>1, <2>2
<1>9. Signed'
  <2>1. consent' \in [Holders -> SUBSET ConsentRecord]
    BY <1>1, <1>2, <1>5 DEF Signed
  <2> QED BY <1>1, <1>2, <1>7, <1>8, <2>1 DEF Signed
<1> QED BY <1>1, <1>9 DEF IInv, AdapterOK, Money, Books, SharesAddUp

(* close_delegation takes the consent back.                                *)
LEMMA CloseStep ==
    ASSUME IInv, NEW u \in Holders, CloseDelegation(u)
    PROVE  IInv'
<1>1. /\ delegation' = [delegation EXCEPT ![u] = NoDelegation]
      /\ consent' = [consent EXCEPT ![u] = {}]
      /\ UNCHANGED <<adapter, now, base, idle, vault, allocs, shares, own, pool>>
  BY DEF CloseDelegation
<1>2. Signed
  BY DEF IInv
<1>3. NoDelegation \in DelegationRecord /\ NoDelegation.open = FALSE
  BY DEF NoDelegation, DelegationRecord
<1>4. Signed'
  <2>1. delegation' \in [Holders -> DelegationRecord]
    BY <1>1, <1>2, <1>3 DEF Signed
  <2>2. ASSUME NEW w \in Holders
        PROVE  /\ consent'[w] \subseteq ConsentRecord
               /\ delegation'[w].open =>
                    \E k \in consent'[w] : /\ k.list = delegation'[w].hash
                                           /\ delegation'[w].expires <= k.at + MaxTtl
                                           /\ k.at <= now'
               /\ delegation'[w].open =>
                    \A k \in consent'[w] : k.slippage = delegation'[w].slippage
    <3>1. CASE w = u
      <4>1. delegation'[w] = NoDelegation
        BY <1>1, <1>2, <3>1 DEF Signed
      <4>2. consent'[w] \subseteq ConsentRecord
        BY <1>1, <1>2, <3>1 DEF Signed
      <4> QED BY <1>3, <4>1, <4>2
    <3>2. CASE w # u
      <4>1. consent'[w] = consent[w] /\ delegation'[w] = delegation[w] /\ now' = now
        BY <1>1, <1>2, <3>2 DEF Signed
      <4> QED BY <1>2, <4>1 DEF Signed
    <3> QED BY <3>1, <3>2
  <2>3. consent' \in [Holders -> SUBSET ConsentRecord]
    BY <1>1, <1>2 DEF Signed
  <2> QED BY <1>1, <1>2, <2>1, <2>2, <2>3 DEF Signed
<1> QED BY <1>1, <1>4 DEF IInv, AdapterOK, Money, Books, SharesAddUp

(* A deposit without PT takes none of the SY that it is offered.           *)
LEMMA ParkedNothing ==
    ASSUME NEW q \in PoolRecord, NEW b \in Nat
    PROVE  LpAdded(q, 0, b).sy = 0
<1> DEFINE p == q.pt + Virtual  s == q.sy + Virtual  l == q.lp + Virtual
<1>1. p \in Nat \ {0} /\ s \in Nat \ {0} /\ l \in Nat \ {0}
  BY PoolFields
<1>2. LpAdded(q, 0, b).sy = IF 0 * s < b * p
                           THEN (s * l * 0 + (l - 1) * p) \div (p * l) ELSE b
  BY DEF LpAdded
<1> HIDE DEF p, s, l
<1>3. (s * l * 0 + (l - 1) * p) \div (p * l) = 0
  <2>1. s * l \in Nat /\ p * l \in Nat \ {0}
    BY <1>1
  <2>2. s * l * 0 = 0
    BY <2>1
  <2>3. (l - 1) * p \in Nat /\ (l - 1) * p < p * l
    BY <1>1
  <2>4. \A a \in Nat, d \in Nat \ {0} : a < d => a \div d = 0
    OBVIOUS
  <2>5. ((l - 1) * p) \div (p * l) = 0
    BY <2>1, <2>3, <2>4
  <2>6. s * l * 0 + (l - 1) * p = (l - 1) * p
    BY ONLY <2>2, <2>3
  <2> QED BY ONLY <2>5, <2>6
<1>4. 0 * s < b * p \/ b = 0
  <2>1. 0 * s = 0
    BY <1>1
  <2>2. b > 0 => b * p > 0
    BY <1>1
  <2> QED BY <2>1, <2>2
<1> QED BY ONLY <1>2, <1>3, <1>4

(* crank_roll_delegated: out of the matured market, into the next one.     *)
LEMMA CrankStep ==
    ASSUME IInv, NEW u, NEW i \in DOMAIN allocs, NEW j \in DOMAIN allocs, NEW min,
           CrankRollDelegated(u, i, j, min)
    PROVE  IInv'
<1> DEFINE from == allocs[i].market
           to == allocs[j].market
           n == allocs[i].deployed
           sy == SyHome(from, n)
           out == RedeemedFor(sy)
           minted == MintedFor(out)
           left == LeftBehind(from, n)
           d == ParkedSy(left, to, minted)
           list == [allocs EXCEPT ![i].deployed = 0]
           l1 == [own.lp EXCEPT ![from] = own.lp[from] - n]
           p1 == Parted(pool[from], LpRemoved(pool[from], n), n)
           p2 == Joined(left[to], d)
<1>1. own.lp[from] >= n /\ CanRedeem(sy)
  BY DEF CrankRollDelegated
<1>2. own' = [sy |-> minted - d.sy, pt |-> own.pt, lp |-> [l1 EXCEPT ![to] = l1[to] + d.lp]]
  BY DEF CrankRollDelegated
<1>3. pool' = [left EXCEPT ![to] = p2]
  BY DEF CrankRollDelegated
<1>4. adapter' = WithMint(WithRedeem(adapter, sy), out)
  BY DEF CrankRollDelegated
<1>5. allocs' = [list EXCEPT ![j].deployed = list[j].deployed + out]
  BY DEF CrankRollDelegated
<1>6. UNCHANGED <<now, base, idle, vault, shares, delegation, consent>>
  BY DEF CrankRollDelegated
<1>7. /\ AdapterOK /\ Held(own, pool) /\ allocs \in Seq(Allocation)
  BY DEF IInv
<1>8. from \in Markets /\ to \in Markets /\ n \in Nat
  BY <1>7, AllocFields
<1>9. left = [pool EXCEPT ![from] = p1]
  BY DEF LeftBehind
<1>10. sy = own.sy + LpRemoved(pool[from], n).sy /\ d = LpAdded(left[to], 0, minted)
  BY DEF SyHome, ParkedSy
<1> HIDE DEF from, to, n, sy, out, minted, left, d, list, l1, p1, p2
<1>11. /\ own.sy \in Nat /\ own.pt \in [Markets -> Nat] /\ own.lp \in [Markets -> Nat]
       /\ own.lp[from] \in Nat /\ own.lp[from] <= pool[from].lp
       /\ pool[from] \in PoolRecord /\ pool[from].lp \in Nat
  <2>1. pool[from] \in PoolRecord
    BY <1>7, <1>8, HeldFields
  <2> QED BY <1>7, <1>8, <2>1, HeldFields, PoolFields
<1>12. n <= pool[from].lp /\ own.lp[from] - n \in Nat
  BY ONLY <1>1, <1>8, <1>11
<1>13. p1 \in PoolRecord /\ p1.lp = pool[from].lp - n
  BY ONLY <1>8, <1>11, <1>12, PoolMoves DEF p1
<1>14. sy \in Nat
  BY <1>8, <1>10, <1>11, LpRemovedNat
<1>15. out \in Nat /\ minted \in Nat /\ AdapterOK'
  <2>1. adapter \in AdapterRecord /\ adapter.rate > 0
    BY <1>7 DEF AdapterOK
  <2>2. out \in Nat /\ RedeemedFor(sy) <= adapter.base
    BY <1>1, <1>14, <2>1, AdapterNat DEF CanRedeem, out
  <2>3. minted \in Nat
    BY <2>1, <2>2, AdapterNat DEF minted
  <2>4. /\ WithRedeem(adapter, sy) \in AdapterRecord
        /\ WithRedeem(adapter, sy).rate = adapter.rate
    BY <1>14, <2>1, <2>2, AdapterNat
  <2>5. /\ WithMint(WithRedeem(adapter, sy), out) \in AdapterRecord
        /\ WithMint(WithRedeem(adapter, sy), out).rate = adapter.rate
    BY <2>1, <2>2, <2>4, AdapterNat
  <2> QED BY <1>4, <2>1, <2>2, <2>3, <2>5 DEF AdapterOK
<1> DEFINE o1 == [sy |-> 0, pt |-> own.pt, lp |-> l1]
<1>16. Held(o1, left)
  <2>1. own.lp[from] - n <= p1.lp
    BY <1>8, <1>11, <1>12, <1>13
  <2>2. 0 \in Nat
    OBVIOUS
  <2> QED BY ONLY <1>7, <1>8, <1>9, <1>11, <1>12, <1>13, <2>1, <2>2, HeldMove DEF l1
<1>17. /\ left[to] \in PoolRecord /\ l1[to] \in Nat /\ l1[to] <= left[to].lp
       /\ left[to].lp \in Nat /\ o1.lp = l1
  <2>1. o1.lp = l1
    OBVIOUS
  <2> HIDE DEF o1
  <2>2. left[to] \in PoolRecord /\ o1.lp[to] \in Nat /\ o1.lp[to] <= left[to].lp
    BY ONLY <1>8, <1>16, HeldFields
  <2> QED BY <2>1, <2>2, PoolFields
<1>18. d \in PoolRecord /\ d.sy <= minted /\ d.lp \in Nat /\ d.sy \in Nat
  <2>1. d \in PoolRecord
    BY <1>10, <1>15, <1>17, LpAddedNat
  <2> QED BY <1>10, <1>15, <1>17, <2>1, ParkedNothing, PoolFields
<1>19. p2 \in PoolRecord /\ p2.lp = left[to].lp + d.lp
  BY <1>17, <1>18, PoolMoves DEF p2
<1>20. Held(own', pool')
  <2> DEFINE y == minted - d.sy  z == l1[to] + d.lp
  <2>1. y \in Nat /\ z \in Nat /\ z <= p2.lp
    BY <1>15, <1>17, <1>18, <1>19
  <2>2. own' = [sy |-> y, pt |-> own.pt, lp |-> [o1.lp EXCEPT ![to] = z]]
    BY <1>2, <1>17
  <2> HIDE DEF o1, y, z
  <2>3. Held([sy |-> y, pt |-> own.pt, lp |-> [o1.lp EXCEPT ![to] = z]],
             [left EXCEPT ![to] = p2])
    BY ONLY <1>8, <1>11, <1>16, <1>19, <2>1, HeldMove
  <2> QED BY ONLY <1>3, <2>2, <2>3, Zenon
<1>21. allocs' \in Seq(Allocation)
  <2>1. list \in Seq(Allocation) /\ DOMAIN list = DOMAIN allocs
    <3>1. 0 \in Nat
      OBVIOUS
    <3> QED BY <1>7, <3>1, AllocUpdate DEF list
  <2>2. list[j].deployed + out \in Nat
    BY <1>15, <2>1, AllocFields
  <2> QED BY <1>5, <2>1, <2>2, AllocUpdate
<1> QED BY <1>6, <1>15, <1>20, <1>21 DEF IInv, Money, Books, SharesAddUp, Signed

(* Traders move the reserves of a market, not its liquidity supply.        *)
LEMMA OtherTradeStep ==
    ASSUME IInv, NEW m \in Markets, NEW n \in Nat, NEW c \in Nat, OtherTrade(m, n, c)
    PROVE  IInv'
<1>1. /\ n <= pool[m].pt /\ pool' = [pool EXCEPT ![m] = Traded(pool[m], n, c)]
      /\ UNCHANGED <<adapter, now, base, idle, vault, allocs, shares, own,
                     delegation, consent>>
  BY DEF OtherTrade
<1>2. Held(own, pool)
  BY DEF IInv
<1>3. pool[m] \in PoolRecord
  BY <1>2, HeldFields
<1>4. /\ Traded(pool[m], n, c) \in PoolRecord
      /\ Traded(pool[m], n, c).lp = pool[m].lp
  BY <1>1, <1>3, PoolMoves
<1>5. Held(own', pool')
  <2>1. own' = own /\ pool' \in [Markets -> PoolRecord]
    BY <1>1, <1>2, <1>4 DEF Held
  <2>2. \A k \in Markets : pool'[k].lp = pool[k].lp
    BY <1>1, <1>2, <1>4 DEF Held
  <2> QED BY <1>2, <2>1, <2>2 DEF Held
<1> QED BY <1>1, <1>5 DEF IInv, AdapterOK, Money, Books, SharesAddUp, Signed

(* Time passes.                                                            *)
LEMMA TickStep ==
    ASSUME IInv, Tick
    PROVE  IInv'
<1>1. /\ now' = now + 1
      /\ UNCHANGED <<adapter, base, idle, vault, allocs, shares, own, pool,
                     delegation, consent>>
  BY DEF Tick
<1>2. Signed
  BY DEF IInv
<1>3. \A u \in Holders : \A k \in consent[u] : k.at \in Nat
  BY <1>2 DEF Signed, ConsentRecord
<1>4. Signed'
  <2>1. now' \in Nat /\ \A k \in Nat : k <= now => k <= now'
    BY <1>1, <1>2 DEF Signed
  <2>2. ASSUME NEW u \in Holders, delegation[u].open
        PROVE  \E k \in consent[u] : /\ k.list = delegation[u].hash
                                     /\ delegation[u].expires <= k.at + MaxTtl
                                     /\ k.at <= now'
    <3>1. PICK k \in consent[u] : /\ k.list = delegation[u].hash
                                   /\ delegation[u].expires <= k.at + MaxTtl
                                   /\ k.at <= now
      BY <1>2, <2>2 DEF Signed
    <3>2. k.at <= now'
      BY <1>3, <2>1, <3>1
    <3> QED BY <3>1, <3>2
  <2> QED BY <1>1, <1>2, <2>1, <2>2 DEF Signed
<1> QED BY <1>1, <1>4 DEF IInv, AdapterOK, Money, Books, SharesAddUp

-----------------------------------------------------------------------------
(* The theorems.                                                           *)

(* The vault starts empty.                                                 *)
LEMMA InitHolds == Init => IInv
<1> SUFFICES ASSUME Init PROVE IInv
  OBVIOUS
<1>1. AdapterOK /\ Money
  BY CuratorAssumptions DEF Init, AdapterOK, Money
<1>2. Books
  <2>1. shares = [u \in Holders |-> 0] /\ vault = [assets |-> 0, shares |-> 0, harvested |-> 0]
    BY DEF Init
  <2>2. \A u \in Holders : shares[u] = 0
    BY <2>1
  <2>3. Total(Holders, shares) = 0
    BY <2>2, TotalZero
  <2> QED BY <2>1, <2>3 DEF Books, SharesAddUp, VaultRecord
<1>3. allocs \in Seq(Allocation)
  BY DEF Init
<1>4. Held(own, pool)
  <2>1. /\ own = [sy |-> 0, pt |-> [m \in Markets |-> 0], lp |-> [m \in Markets |-> 0]]
        /\ pool = InitialPool
    BY DEF Init
  <2>2. pool \in [Markets -> PoolRecord]
    BY <2>1, CuratorAssumptions DEF PoolRecord
  <2>3. own \in OwnRecord /\ \A m \in Markets : own.lp[m] = 0
    BY <2>1 DEF OwnRecord
  <2>4. \A m \in Markets : pool[m].lp \in Nat
    BY <2>2 DEF PoolRecord
  <2> QED BY <2>2, <2>3, <2>4 DEF Held
<1>5. Signed
  <2>1. /\ now = 0 /\ delegation = [u \in Holders |-> NoDelegation]
        /\ consent = [u \in Holders |-> {}]
    BY DEF Init
  <2>2. NoDelegation \in DelegationRecord /\ NoDelegation.open = FALSE
    BY DEF NoDelegation, DelegationRecord
  <2>3. consent \in [Holders -> SUBSET ConsentRecord]
    BY <2>1
  <2> QED BY <2>1, <2>2, <2>3 DEF Signed
<1> QED BY <1>1, <1>2, <1>3, <1>4, <1>5 DEF IInv

(* Every step keeps the invariant.                                         *)
LEMMA NextKeeps == IInv /\ [Next]_vars => IInv'
<1> SUFFICES ASSUME IInv, [Next]_vars PROVE IInv'
  OBVIOUS
<1>1. ASSUME NEW u \in Holders, NEW a \in Amounts, Deposit(u, a) \/ Withdraw(u, a)
      PROVE  IInv'
  BY <1>1, ConstantTypes, DepositStep, WithdrawStep
<1>2. ASSUME NEW u \in Holders, NEW a \in Attested, HarvestFees(u, a)
      PROVE  IInv'
  BY <1>2, ConstantTypes, HarvestStep
<1>3. ASSUME NEW u \in Holders, NEW list \in Lists, SetAllocations(u, list)
      PROVE  IInv'
  BY <1>3, SetAllocationsStep
<1>4. ASSUME NEW u \in Holders, NEW i \in DOMAIN allocs, NEW m \in Markets,
             NEW a \in Amounts, NEW n \in Lots, NEW pi \in Lots, NEW si \in Lots,
             NEW c \in Quotes, ReallocateToMarket(u, i, m, a, n, c, pi, si)
      PROVE  IInv'
  BY <1>4, ConstantTypes, ReallocateToStep
<1>5. ASSUME NEW u \in Holders, NEW i \in DOMAIN allocs, NEW m \in Markets,
             NEW lp \in Lots, NEW n \in Lots, NEW rd \in Lots, NEW b \in Amounts,
             NEW c \in Quotes, ReallocateFromMarket(u, i, m, lp, n, c, rd, b)
      PROVE  IInv'
  BY <1>5, ConstantTypes, ReallocateFromStep
<1>6. ASSUME NEW i \in DOMAIN allocs, NEW m \in Markets, NEW r \in Rates,
             NEW p \in Redemptions, MarkToMarket(i, m, r, p)
      PROVE  IInv'
  BY <1>6, ConstantTypes, MarkStep
<1>7. ASSUME NEW u \in Signers, NEW sl \in Slippages, NEW t \in Ttls,
             CreateDelegation(u, sl, t)
      PROVE  IInv'
  BY <1>7, ConstantTypes, CreateStep
<1>8. ASSUME NEW u \in Holders, CloseDelegation(u)
      PROVE  IInv'
  BY <1>8, CloseStep
<1>9. ASSUME NEW u \in Holders, NEW i \in DOMAIN allocs, NEW j \in DOMAIN allocs,
             NEW b \in Lots, CrankRollDelegated(u, i, j, b)
      PROVE  IInv'
  BY <1>9, CrankStep
<1>10. ASSUME NEW m \in Markets, NEW n \in Lots, NEW c \in Quotes, OtherTrade(m, n, c)
       PROVE  IInv'
  BY <1>10, ConstantTypes, OtherTradeStep
<1>11. ASSUME NEW r \in Rates, Poke(r)
       PROVE  IInv'
  <2>1. /\ r > 0 /\ r \in Nat /\ adapter' = [adapter EXCEPT !.rate = r]
        /\ UNCHANGED <<now, base, idle, vault, allocs, shares, own, pool,
                       delegation, consent>>
    BY <1>11, ConstantTypes DEF Poke, PokeExchangeRate
  <2> QED BY <2>1 DEF IInv, AdapterOK, AdapterRecord, Money, Books, SharesAddUp, Signed
<1>12. ASSUME Tick
       PROVE  IInv'
  BY <1>12, TickStep
<1>13. ASSUME UNCHANGED vars
       PROVE  IInv'
  BY <1>13 DEF vars, IInv, AdapterOK, Money, Books, SharesAddUp, Signed
<1> QED BY <1>1, <1>2, <1>3, <1>4, <1>5, <1>6, <1>7, <1>8, <1>9, <1>10, <1>11, <1>12,
           <1>13 DEF Next

(* The inductive invariant of the curator vault.                           *)
THEOREM InvariantHolds == Spec => []IInv
<1> QED BY InitHolds, NextKeeps, PTL DEF Spec

(* In every reachable state, for all prices, lists, amounts and holders,   *)
(* every balance is a natural number: no handler underflows.               *)
THEOREM TypeCorrect == Spec => []TypeOK
<1>1. IInv => TypeOK
  BY DEF IInv, AdapterOK, Money, Books, Held, Signed, TypeOK
<1> QED BY <1>1, InvariantHolds, PTL

(* deposit, withdraw and harvest_fees: total_shares is the sum of all      *)
(* positions.                                                              *)
THEOREM SharesSum == Spec => []SharesAddUp
<1>1. IInv => SharesAddUp
  BY DEF IInv, Books
<1> QED BY <1>1, InvariantHolds, PTL

(* The price of a share, kept by one step.                                 *)
PriceKept ==
    (vault.assets' + Virtual) * (vault.shares + Virtual)
        >= (vault.assets + Virtual) * (vault.shares' + Virtual)

(* Steps of holders keep the price.                                        *)
LEMMA HoldersKeepPrice ==
    ASSUME IInv, NEW u \in Holders, NEW n \in Nat, Deposit(u, n) \/ Withdraw(u, n)
    PROVE  PriceKept
<1> DEFINE A == vault.assets + Virtual  S == vault.shares + Virtual
<1>1. Books /\ vault \in VaultRecord
  BY DEF IInv, Books
<1>2. /\ vault.assets \in Nat /\ vault.shares \in Nat /\ Virtual \in Nat
      /\ A \in Nat /\ S \in Nat
  BY <1>1, VaultFields, ConstantTypes
<1>3. CASE Deposit(u, n)
  <2>1. /\ vault'.assets = vault.assets + n /\ vault'.shares = vault.shares + SharesFor(n)
    BY <1>1, <1>3 DEF Deposit, VaultRecord
  <2>2. PICK k \in Nat : k = SharesFor(n)
    BY <1>1, ShareBounds
  <2>3. k * A <= n * S
    BY <1>1, <2>2, ShareBounds
  <2>4. vault'.assets + Virtual = A + n /\ vault'.shares + Virtual = S + k
    BY <1>2, <2>1, <2>2
  <2> HIDE DEF A, S
  <2>5. (A + n) * S >= A * (S + k)
    BY ONLY <1>2, <2>3, n \in Nat, k \in Nat, IssuingKeepsPrice
  <2>6. (vault'.assets + Virtual) * S >= A * (vault'.shares + Virtual)
    BY ONLY <2>4, <2>5
  <2> USE DEF A, S
  <2> QED BY <2>6 DEF PriceKept
<1>4. CASE Withdraw(u, n)
  <2>1. /\ vault'.assets = vault.assets - AssetsFor(n) /\ vault'.shares = vault.shares - n
    BY <1>1, <1>4 DEF Withdraw, Burned, VaultRecord
  <2>2. PICK x \in Nat : x = AssetsFor(n)
    BY <1>1, ShareBounds
  <2>3. x * S <= n * A
    BY <1>1, <2>2, ShareBounds
  <2>4. vault'.assets + Virtual = A - x /\ vault'.shares + Virtual = S - n
    BY <1>2, <2>1, <2>2
  <2> HIDE DEF A, S
  <2>5. (A - x) * S >= A * (S - n)
    BY ONLY <1>2, <2>3, n \in Nat, x \in Nat, BurningKeepsPrice
  <2>6. (vault'.assets + Virtual) * S >= A * (vault'.shares + Virtual)
    BY ONLY <2>4, <2>5
  <2> USE DEF A, S
  <2> QED BY <2>6 DEF PriceKept
<1> QED BY <1>3, <1>4

(* deposit and withdraw: rounding never takes value from the shares that   *)
(* stay, for any sequence of them and any amounts.                         *)
THEOREM SharePrice == Spec => SharePriceKept
<1>1. IInv /\ [Next]_vars => [idle' # idle /\ allocs' = allocs => PriceKept]_vars
  <2> SUFFICES ASSUME IInv, Next, idle' # idle
               PROVE  PriceKept
    OBVIOUS
  <2>1. ASSUME vault' = vault
        PROVE  PriceKept
    <3>1. /\ vault.assets + Virtual \in Nat /\ vault.shares + Virtual \in Nat
      BY VaultFields DEF IInv, Books
    <3>2. (vault.assets + Virtual) * (vault.shares + Virtual) \in Nat
      BY <3>1, ProductNat
    <3> QED BY <2>1, <3>2 DEF PriceKept
  <2>2. ASSUME NEW u \in Holders, NEW a \in Amounts, Deposit(u, a) \/ Withdraw(u, a)
        PROVE  PriceKept
    BY <2>2, ConstantTypes, HoldersKeepPrice
  <2>3. ASSUME NEW u \in Holders, NEW i \in DOMAIN allocs, NEW m \in Markets,
               NEW a \in Amounts, NEW n \in Lots, NEW pi \in Lots, NEW si \in Lots,
               NEW c \in Quotes, ReallocateToMarket(u, i, m, a, n, c, pi, si)
        PROVE  PriceKept
    BY <2>1, <2>3 DEF ReallocateToMarket
  <2>4. ASSUME NEW u \in Holders, NEW i \in DOMAIN allocs, NEW m \in Markets,
               NEW lp \in Lots, NEW n \in Lots, NEW rd \in Lots, NEW b \in Amounts,
               NEW c \in Quotes, ReallocateFromMarket(u, i, m, lp, n, c, rd, b)
        PROVE  PriceKept
    BY <2>1, <2>4 DEF ReallocateFromMarket
  <2>5. ASSUME NEW u \in Holders, NEW a \in Attested, HarvestFees(u, a)
        PROVE  FALSE
    BY <2>5 DEF HarvestFees
  <2>6. ASSUME NEW u \in Holders, NEW list \in Lists, SetAllocations(u, list)
        PROVE  FALSE
    BY <2>6 DEF SetAllocations
  <2>7. ASSUME NEW i \in DOMAIN allocs, NEW m \in Markets, NEW r \in Rates,
               NEW p \in Redemptions, MarkToMarket(i, m, r, p)
        PROVE  FALSE
    BY <2>7 DEF MarkToMarket
  <2>8. ASSUME NEW u \in Signers, NEW sl \in Slippages, NEW t \in Ttls,
               CreateDelegation(u, sl, t)
        PROVE  FALSE
    BY <2>8 DEF CreateDelegation
  <2>9. ASSUME NEW u \in Holders, CloseDelegation(u)
        PROVE  FALSE
    BY <2>9 DEF CloseDelegation
  <2>10. ASSUME NEW u \in Holders, NEW i \in DOMAIN allocs, NEW j \in DOMAIN allocs,
                NEW b \in Lots, CrankRollDelegated(u, i, j, b)
         PROVE  FALSE
    BY <2>10 DEF CrankRollDelegated
  <2>11. ASSUME NEW m \in Markets, NEW n \in Lots, NEW c \in Quotes, OtherTrade(m, n, c)
         PROVE  FALSE
    BY <2>11 DEF OtherTrade
  <2>12. ASSUME NEW r \in Rates, Poke(r)
         PROVE  FALSE
    BY <2>12 DEF Poke
  <2>13. ASSUME Tick
         PROVE  FALSE
    BY <2>13 DEF Tick
  <2> QED BY <2>2, <2>3, <2>4, <2>5, <2>6, <2>7, <2>8, <2>9, <2>10, <2>11, <2>12, <2>13
          DEF Next
<1> QED BY <1>1, InvariantHolds, PTL DEF Spec, SharePriceKept, PriceKept

(* harvest_fees: whatever the curator attests, holders whose shares are    *)
(* worth a unit each are not diluted by more than the fee.                 *)
THEOREM FeeDilution == Spec => DilutedByTheFee
<1>1. IInv /\ [Next]_vars =>
        [\A u \in Holders, a \in Attested :
           HarvestFees(u, a) /\ vault.shares \in 1..(a - FeeOn(a)) =>
             FeeShares(a) * (a + Virtual) <= FeeOn(a) * (vault.shares' + Virtual)]_vars
  <2> SUFFICES ASSUME IInv, NEW u \in Holders, NEW a \in Attested, HarvestFees(u, a),
                      vault.shares \in 1..(a - FeeOn(a))
               PROVE  FeeShares(a) * (a + Virtual) <= FeeOn(a) * (vault.shares' + Virtual)
    OBVIOUS
  <2>1. a \in Nat /\ Virtual \in Nat /\ Books /\ vault.shares \in Nat
    BY ConstantTypes, VaultFields DEF IInv, Books
  <2>2. PICK f \in Nat : f = FeeOn(a)
    BY <2>1, FeeBounds
  <2>3. f <= a /\ a - f \in Nat
    BY <2>1, <2>2, FeeBounds
  <2>4. PICK s \in Nat : s = FeeShares(a)
    BY <2>1, FeeSharesBounds
  <2>5. s <= f /\ s * (a - f) <= vault.shares * f
    BY <2>1, <2>2, <2>4, FeeSharesBounds
  <2>6. vault'.shares = vault.shares + s
    BY <2>4 DEF HarvestFees
  <2>7. s * ((a - f) + f + Virtual) <= f * (vault.shares + s + Virtual)
    BY ONLY <2>1, <2>3, <2>5, f \in Nat, s \in Nat, FeeValue
  <2>8. (a - f) + f + Virtual = a + Virtual
    BY <2>1, <2>3
  <2>9. s * (a + Virtual) <= f * (vault'.shares + Virtual)
    BY ONLY <2>6, <2>7, <2>8
  <2> QED BY <2>2, <2>4, <2>9
<1> QED BY <1>1, InvariantHolds, PTL DEF Spec, DilutedByTheFee

(* crank_roll_delegated: every roll rests on a consent to the allocations  *)
(* in force that is neither taken back nor older than MaxTtl.              *)
THEOREM RollsAuthorised == Spec => RollAuthorised
<1>1. IInv /\ [Next]_vars =>
        [\A u \in Holders, i, j \in DOMAIN allocs, b \in Lots :
           CrankRollDelegated(u, i, j, b) =>
             \E c \in consent[u] : /\ c.list = Whitelist(allocs)
                                   /\ now < c.at + MaxTtl
                                   /\ now >= c.at]_vars
  <2> SUFFICES ASSUME IInv, NEW u \in Holders, NEW i \in DOMAIN allocs,
                      NEW j \in DOMAIN allocs, NEW b \in Lots,
                      CrankRollDelegated(u, i, j, b)
               PROVE  \E c \in consent[u] : /\ c.list = Whitelist(allocs)
                                            /\ now < c.at + MaxTtl
                                            /\ now >= c.at
    OBVIOUS
  <2>1. /\ delegation[u].open /\ now < delegation[u].expires
        /\ delegation[u].hash = HashAllocations(allocs)
    BY DEF CrankRollDelegated, ValidDelegation
  <2>2. Signed /\ Whitelist(allocs) = HashAllocations(allocs)
    BY CommitmentsTyped DEF IInv
  <2>3. PICK c \in consent[u] : /\ c.list = delegation[u].hash
                                /\ delegation[u].expires <= c.at + MaxTtl
                                /\ c.at <= now
    BY <2>1, <2>2 DEF Signed
  <2>4. /\ now \in Nat /\ delegation[u].expires \in Nat /\ c.at \in Nat
        /\ MaxTtl \in Nat
    BY <2>2, ConstantTypes DEF Signed, DelegationRecord, ConsentRecord
  <2>5. now < c.at + MaxTtl /\ now >= c.at
    BY ONLY <2>1, <2>3, <2>4
  <2> QED BY <2>1, <2>2, <2>3, <2>5
<1> QED BY <1>1, InvariantHolds, PTL DEF Spec, RollAuthorised

(* What was minted for an amount, and one unit more, redeems for it.       *)
LEMMA OneMoreUnit ==
    ASSUME NEW b \in Nat, NEW r \in Nat \ {0}, NEW one \in Nat \ {0}, NEW c \in Nat,
           NEW q \in Nat, q = ((b * one) * one + c) \div r,
           NEW m \in Nat, m = q \div one
    PROVE  (((((m + 1) * one) * r + c) \div one) \div one) >= b
<1>1. q < (m + 1) * one
  OBVIOUS
<1>2. (b * one) * one + c < (q + 1) * r
  <2>1. (b * one) * one + c \in Nat
    OBVIOUS
  <2>2. \A x \in Nat, y \in Nat \ {0} : x < ((x \div y) + 1) * y
    OBVIOUS
  <2> QED BY ONLY <2>1, <2>2, r \in Nat \ {0}, q = ((b * one) * one + c) \div r
<1>3. (q + 1) * r <= ((m + 1) * one) * r
  <2>1. (m + 1) * one \in Nat /\ q + 1 <= (m + 1) * one
    BY <1>1
  <2> QED BY ONLY <2>1, q \in Nat, r \in Nat \ {0}, Scaled
<1> DEFINE x == ((m + 1) * one) * r + c
<1>4. x \in Nat /\ (b * one) * one <= x
  <2>1. ((m + 1) * one) * r \in Nat /\ (b * one) * one \in Nat /\ (q + 1) * r \in Nat
    OBVIOUS
  <2> QED BY ONLY <1>2, <1>3, <2>1, c \in Nat
<1> HIDE DEF x
<1>5. x \div one \in Nat /\ b * one <= x \div one
  BY ONLY <1>4, b \in Nat, one \in Nat \ {0}, QuotientAbove, ProductNat
<1>6. b <= (x \div one) \div one
  BY ONLY <1>5, b \in Nat, one \in Nat \ {0}, QuotientAbove
<1> USE DEF x
<1>7. (x \div one) \div one \in Nat
  BY <1>5, DivNat
<1> QED BY ONLY <1>6, <1>7, b \in Nat

(* mint_sy and redeem_sy of the adapter.                                   *)
LEMMA MintedRedeems ==
    ASSUME AdapterOK, NEW n \in Nat
    PROVE  RedeemedFor(MintedFor(n) + 1) >= n
<1> DEFINE q == NumDiv(Natural(n), adapter.rate)  m == MintedFor(n)
<1>1. adapter.rate \in Nat \ {0} /\ ONE \in Nat \ {0} /\ Correction \in Nat
  <2>1. ONE \in Nat \ {0}
    BY ONEAssumption
  <2>2. ONE \div 2 \in Nat
    BY <2>1
  <2> QED BY <2>1, <2>2 DEF AdapterOK, AdapterRecord, Correction
<1>2. q \in Nat /\ q = ((n * ONE) * ONE + Correction) \div adapter.rate
  <2>1. Natural(n) \in Nat
    BY NumberNat
  <2>2. q \in Nat
    BY <1>1, <2>1, NumberNat
  <2> QED BY <2>2 DEF NumDiv, Natural
<1>3. m = q \div ONE
  BY DEF MintedFor, FloorU64
<1> HIDE DEF q
<1>4. m \in Nat
  BY <1>1, <1>2, <1>3, DivNat
<1>5. RedeemedFor(m + 1)
        = ((((m + 1) * ONE) * adapter.rate + Correction) \div ONE) \div ONE
  BY DEF RedeemedFor, FloorU64, NumMul, Natural
<1> HIDE DEF m
<1>6. ((((m + 1) * ONE) * adapter.rate + Correction) \div ONE) \div ONE >= n
  BY ONLY <1>1, <1>2, <1>3, <1>4, n \in Nat, OneMoreUnit
<1>7. RedeemedFor(m + 1) >= n
  BY ONLY <1>5, <1>6
<1> USE DEF m
<1> QED BY <1>7

(* crank_roll_delegated: what is booked in the next market is no less than *)
(* the user's slippage allows, and the SY kept redeems for it up to a unit. *)
THEOREM RollsKeepValue == Spec => RollKeepsValue
<1>1. IInv /\ [Next]_vars =>
        [\A u \in Holders, i, j \in DOMAIN allocs, b \in Lots :
           CrankRollDelegated(u, i, j, b) =>
             /\ RedeemedFor(own.sy' + 1) >= Arrived(i, j)
             /\ \A c \in consent[u] :
                  Arrived(i, j) >= SlippageFloor(allocs[i].deployed, c.slippage)]_vars
  <2> SUFFICES ASSUME IInv, NEW u \in Holders, NEW i \in DOMAIN allocs,
                      NEW j \in DOMAIN allocs, NEW b \in Lots,
                      CrankRollDelegated(u, i, j, b)
               PROVE  /\ RedeemedFor(own.sy' + 1) >= Arrived(i, j)
                      /\ \A c \in consent[u] :
                           Arrived(i, j) >= SlippageFloor(allocs[i].deployed, c.slippage)
    OBVIOUS
  <2> DEFINE from == allocs[i].market
             to == allocs[j].market
             n == allocs[i].deployed
             out == RedeemedFor(SyHome(from, n))
             minted == MintedFor(out)
             left == LeftBehind(from, n)
             d == ParkedSy(left, to, minted)
             list == [allocs EXCEPT ![i].deployed = 0]
  <2>1. /\ ValidDelegation(u) /\ CanRedeem(SyHome(from, n))
        /\ b >= SlippageFloor(n, delegation[u].slippage) /\ EnoughBaseOut(out, b)
        /\ own.lp[from] >= n
    BY DEF CrankRollDelegated
  <2>2. own'.sy = minted - d.sy
    BY DEF CrankRollDelegated
  <2>3. allocs' = [list EXCEPT ![j].deployed = list[j].deployed + out]
    BY DEF CrankRollDelegated
  <2>4. AdapterOK /\ Held(own, pool) /\ allocs \in Seq(Allocation) /\ Signed
    BY DEF IInv
  <2>5. from \in Markets /\ to \in Markets /\ n \in Nat
    BY <2>4, AllocFields
  <2>6. left = [pool EXCEPT ![from] = Parted(pool[from], LpRemoved(pool[from], n), n)]
    BY DEF LeftBehind
  <2>7. /\ own.sy \in Nat /\ pool[from] \in PoolRecord /\ pool \in [Markets -> PoolRecord]
        /\ n <= pool[from].lp
    <3>1. /\ own.sy \in Nat /\ own.lp[from] \in Nat /\ own.lp[from] <= pool[from].lp
          /\ pool[from] \in PoolRecord
      BY <2>4, <2>5, HeldFields
    <3>2. pool[from].lp \in Nat
      BY <3>1, PoolFields
    <3> QED BY <2>1, <2>4, <2>5, <3>1, <3>2 DEF Held
  <2>8. SyHome(from, n) \in Nat
    BY <2>5, <2>7, LpRemovedNat DEF SyHome
  <2>9. out \in Nat /\ minted \in Nat
    <3> HIDE DEF from, n
    <3> QED BY <2>4, <2>8, AdapterNat DEF AdapterOK
  <2>10. left[to] \in PoolRecord
    <3>1. Parted(pool[from], LpRemoved(pool[from], n), n) \in PoolRecord
      BY <2>5, <2>7, PoolMoves
    <3> QED BY <2>5, <2>6, <2>7, <3>1
  <2>11. d.sy = 0
    <3>1. d = LpAdded(left[to], 0, minted)
      BY DEF ParkedSy
    <3> HIDE DEF d, left, minted, to
    <3> QED BY <2>9, <2>10, <3>1, ParkedNothing
  <2>12. own'.sy = minted
    <3> HIDE DEF minted, d
    <3> QED BY <2>2, <2>9, <2>11
  <2>13. list[j].deployed = IF i = j THEN 0 ELSE allocs[j].deployed
    <3>1. allocs[j] \in Allocation /\ allocs[i] \in Allocation
      BY <2>4
    <3> QED BY <3>1 DEF Allocation
  <2>14. allocs'[j].deployed = list[j].deployed + out
    <3>1. list \in Seq(Allocation) /\ DOMAIN list = DOMAIN allocs
      <4>1. 0 \in Nat
        OBVIOUS
      <4> QED BY <2>4, <4>1, AllocUpdate
    <3>2. list[j] \in Allocation
      BY <3>1
    <3> HIDE DEF list, out
    <3> QED BY <2>3, <3>1, <3>2 DEF Allocation
  <2>15. Arrived(i, j) = out
    <3>1. (IF i = j THEN 0 ELSE allocs[j].deployed) \in Nat
      BY <2>4, AllocFields
    <3> HIDE DEF list, out
    <3> QED BY <2>9, <2>13, <2>14, <3>1 DEF Arrived
  <2>16. RedeemedFor(own'.sy + 1) >= out
    <3> HIDE DEF out
    <3> QED BY <2>4, <2>9, <2>12, MintedRedeems
  <2>17. ASSUME NEW c \in consent[u]
         PROVE  out >= SlippageFloor(n, c.slippage)
    <3>1. c.slippage = delegation[u].slippage /\ c.slippage \in Nat
      BY <2>1, <2>4 DEF Signed, ValidDelegation, ConsentRecord
    <3>2. b \in Nat /\ b <= out /\ b >= SlippageFloor(n, c.slippage)
      BY <2>1, <2>9, <3>1, ConstantTypes DEF EnoughBaseOut
    <3>3. SlippageFloor(n, c.slippage) \in Nat
      <4>1. (IF c.slippage > 10000 THEN 0 ELSE 10000 - c.slippage) \in Nat
        BY <3>1
      <4>2. n * (IF c.slippage > 10000 THEN 0 ELSE 10000 - c.slippage) \in Nat
        BY <2>5, <4>1, ProductNat
      <4> QED BY <4>2 DEF SlippageFloor
    <3> HIDE DEF out, n
    <3> QED BY ONLY <2>9, <3>2, <3>3
  <2> QED BY <2>15, <2>16, <2>17
<1> QED BY <1>1, InvariantHolds, PTL DEF Spec, RollKeepsValue

=============================================================================
