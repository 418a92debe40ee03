------------------------------- MODULE Curator -------------------------------
(***************************************************************************)
(* The curator vault (periphery/clearstone_curator): holders deposit base  *)
(* tokens for shares, the curator moves them through the SY adapter into   *)
(* core markets, and keepers roll matured allocations for users who signed *)
(* a delegation.  One action is one instruction with all of its inner      *)
(* calls; an instruction that fails is a disabled action.  Prices of PT    *)
(* are open quotes; liquidity shares are the market's own arithmetic.      *)
(***************************************************************************)
EXTENDS SyAdapter, Sums, Sequences

CONSTANTS
    Holders,        \* users; the curator is one of them
    TheCurator,
    Signers,        \* holders who sign delegations
    Funds,          \* base tokens each holder owns at first
    Markets,
    Expiry,         \* of each market
    InitialPool,    \* reserves and LP supply of each market at first
    Virtual,        \* VIRTUAL_ASSETS, VIRTUAL_SHARES and the pools' floors
    FeeBps,
    Lists,          \* allocation lists the curator may set
    Amounts,        \* amounts of base and of shares in instructions
    Lots,           \* amounts of SY, PT and LP, and minimal outputs
    Quotes,         \* SY paid for PT in one trade
    Rates,          \* exchange rates the adapter is poked to
    Redemptions,    \* PT redemption rates of the core vaults
    Attested,       \* total assets the curator may vouch for
    Slippages,      \* of delegations, in basis points
    Ttls,           \* lifetimes users ask for
    MinTtl, MaxTtl,
    InitialAdapter,
    Horizon         \* bound on the clock

ASSUME CuratorAssumptions ==
    /\ IsFiniteSet(Holders)
    /\ TheCurator \in Holders
    /\ Signers \subseteq Holders
    /\ Funds \in [Holders -> Nat]
    /\ Expiry \in [Markets -> Nat]
    /\ InitialPool \in [Markets -> [pt : Nat, sy : Nat, lp : Nat]]
    /\ Virtual \in Nat \ {0}
    /\ FeeBps \in 0..2000
    /\ InitialAdapter \in AdapterRecord /\ InitialAdapter.rate > 0
    /\ Amounts \subseteq Nat
    /\ Lots \subseteq Nat
    /\ Quotes \subseteq Nat \ {0}
    /\ Rates \subseteq Nat \ {0}
    /\ Redemptions \subseteq Nat
    /\ Attested \subseteq Nat
    /\ Slippages \subseteq Nat
    /\ Ttls \subseteq Nat
    /\ MinTtl \in Nat /\ MaxTtl \in Nat
    /\ Horizon \in Nat

(* Target and cap of one allocation, and what is recorded as deployed.     *)
Allocation == [market : Markets, weight : Nat, cap : Nat, deployed : Nat]

ASSUME ListsAssumption == Lists \subseteq Seq(Allocation)

VARIABLES
    now,            \* unix time, and slots: one slot per second
    base,           \* base tokens of each holder
    idle,           \* base tokens in base_escrow
    vault,          \* total_assets, total_shares, last_harvest_total_assets
    allocs,         \* CuratorVault::allocations
    shares,         \* UserPosition::shares
    own,            \* the vault's SY, and PT and LP of each market
    pool,           \* each market's reserves and LP supply
    delegation,     \* each user's RollDelegation
    consent         \* history: what each user signed for, and when

vars == <<adapter, now, base, idle, vault, allocs, shares, own, pool,
          delegation, consent>>

VaultRecord == [assets : Nat, shares : Nat, harvested : Nat]
OwnRecord == [sy : Nat, pt : [Markets -> Nat], lp : [Markets -> Nat]]
PoolRecord == [pt : Nat, sy : Nat, lp : Nat]
Commitment == [market : Markets, weight : Nat, cap : Nat]
DelegationRecord ==
    [open : BOOLEAN, slippage : Nat, expires : Nat, hash : Seq(Commitment)]
ConsentRecord == [list : Seq(Commitment), slippage : Nat, at : Nat]

NoDelegation == [open |-> FALSE, slippage |-> 0, expires |-> 0, hash |-> <<>>]

-----------------------------------------------------------------------------
(* Shares.                                                                 *)

SharesForRoundedUp(amount) ==
    (amount * (vault.shares + Virtual)) \div (vault.assets + Virtual) + 1
SharesFor(amount) ==
    (amount * (vault.shares + Virtual)) \div (vault.assets + Virtual)

AssetsFor(s) == (s * (vault.assets + Virtual)) \div (vault.shares + Virtual)

Deposit(u, amount) ==
    /\ amount > 0
    /\ amount <= base[u]
    /\ base' = [base EXCEPT ![u] = @ - amount]
    /\ idle' = idle + amount
    /\ vault' = [vault EXCEPT !.assets = @ + amount,
                              !.shares = @ + SharesFor(amount)]
    /\ shares' = [shares EXCEPT ![u] = @ + SharesFor(amount)]
    /\ UNCHANGED <<adapter, now, allocs, own, pool, delegation, consent>>

BurnedOutOfPosition(s, out) == [vault EXCEPT !.assets = @ - out]
Burned(s, out) == [vault EXCEPT !.assets = @ - out, !.shares = @ - s]

(* Paid from the escrow alone.                                             *)
Withdraw(u, s) ==
    LET out == AssetsFor(s) IN
    /\ s > 0
    /\ s <= shares[u]
    /\ s <= vault.shares
    /\ out <= vault.assets
    /\ out <= idle
    /\ base' = [base EXCEPT ![u] = @ + out]
    /\ idle' = idle - out
    /\ vault' = Burned(s, out)
    /\ shares' = [shares EXCEPT ![u] = @ - s]
    /\ UNCHANGED <<adapter, now, allocs, own, pool, delegation, consent>>

FeeOn(current) ==
    LET gain == IF current <= vault.harvested THEN 0 ELSE current - vault.harvested
    IN  (gain * FeeBps) \div 10000

FeeSharesRoundedUp(current) ==
    IF FeeOn(current) > 0 /\ vault.shares > 0
    THEN (vault.shares * FeeOn(current)) \div (current - FeeOn(current)) + 1
    ELSE 0

(* Shares minted for the fee.  Without shares the curator takes the fee    *)
(* one to one.                                                             *)
FeeShares(current) ==
    LET fee == FeeOn(current) IN
    IF fee > 0 /\ vault.shares = 0 THEN fee
    ELSE IF fee > 0 /\ current > fee
         THEN (vault.shares * fee) \div (current - fee)
         ELSE 0

SignedByCurator(u) == u = TheCurator

(* total_assets becomes what the curator attests.                          *)
HarvestFees(u, current) ==
    /\ SignedByCurator(u)
    /\ vault' = [assets |-> current,
                 shares |-> vault.shares + FeeShares(current),
                 harvested |-> current]
    /\ shares' = [shares EXCEPT ![u] =
                    IF vault.shares = 0 /\ FeeShares(current) > 0
                    THEN FeeShares(current) ELSE @ + FeeShares(current)]
    /\ UNCHANGED <<adapter, now, base, idle, allocs, own, pool, delegation,
                   consent>>

-----------------------------------------------------------------------------
(* The market's side of the inner calls, as outcomes.                      *)

Trading(m) == now < Expiry[m]           \* at expiry the curve has no price
Depositing(m) == now <= Expiry[m]       \* market_two_deposit_liquidity

(* market_two_deposit_liquidity into and withdraw_liquidity from reserves q. *)
LpAdded(q, ptIntent, syIntent) ==
    LET p == q.pt + Virtual
        s == q.sy + Virtual
        l == q.lp + Virtual
    IN  IF ptIntent * s < syIntent * p
        THEN [pt |-> ptIntent, lp |-> (l * ptIntent) \div p,
              sy |-> (s * l * ptIntent + (l - 1) * p) \div (p * l)]
        ELSE [sy |-> syIntent, lp |-> (l * syIntent) \div s,
              pt |-> (p * l * syIntent + (l - 1) * s) \div (s * l)]

LpRemoved(q, lp) ==
    [pt |-> Smaller(((q.pt + Virtual) * lp) \div (q.lp + Virtual), q.pt),
     sy |-> Smaller(((q.sy + Virtual) * lp) \div (q.lp + Virtual), q.sy)]

Joined(q, r) == [pt |-> q.pt + r.pt, sy |-> q.sy + r.sy, lp |-> q.lp + r.lp]
Parted(q, r, lp) == [pt |-> q.pt - r.pt, sy |-> q.sy - r.sy, lp |-> q.lp - lp]

(* trade_pt: n PT out of the reserves for cost SY.                         *)
Traded(q, n, cost) == [q EXCEPT !.pt = @ - n, !.sy = @ + cost]

(* The SY escrow of a market is empty between its instructions: its SY     *)
(* lies with the adapter.                                                  *)
EscrowedSy(m) == 0

-----------------------------------------------------------------------------
(* The curator.                                                            *)

(* Every field of the list is the curator's, `deployed` too.               *)
SetAllocations(u, list) ==
    /\ SignedByCurator(u)
    /\ Total(DOMAIN list, [i \in DOMAIN list |-> list[i].weight]) <= 10000
    /\ allocs' = list
    /\ UNCHANGED <<adapter, now, base, idle, vault, shares, own, pool,
                   delegation, consent>>

WithinCap(i, deployed) == deployed <= allocs[i].cap

(* The accounts of the reallocations: the curator signs for the vault, the *)
(* market is the one of the allocation.                                    *)
MayDeploy(u, i, m) == SignedByCurator(u) /\ allocs[i].market = m
MayPull(u, i, m) == SignedByCurator(u) /\ allocs[i].market = m

(* mint_sy, at the generic or at the Kamino adapter: both give SY by the    *)
(* rate they report.                                                       *)
SyFor(amount) == MintedFor(amount)

(* mint_sy; trade_pt for n PT at `cost` SY; deposit_liquidity.             *)
ReallocateToMarket(u, i, m, amount, n, cost, ptIntent, syIntent) ==
    LET sy == own.sy + SyFor(amount)
        q == Traded(pool[m], n, cost)
        r == LpAdded(q, ptIntent, syIntent)
    IN  /\ MayDeploy(u, i, m)
        /\ amount > 0
        /\ WithinCap(i, allocs[i].deployed + amount)
        /\ RateValid
        /\ amount <= idle
        /\ Trading(m) /\ n > 0
        /\ n <= pool[m].pt
        /\ cost + r.sy <= sy
        /\ r.pt <= own.pt[m] + n
        /\ idle' = idle - amount
        /\ adapter' = WithMint(adapter, amount)
        /\ pool' = [pool EXCEPT ![m] = Joined(q, r)]
        /\ own' = [sy |-> sy - cost - r.sy,
                   pt |-> [own.pt EXCEPT ![m] = @ + n - r.pt],
                   lp |-> [own.lp EXCEPT ![m] = @ + r.lp]]
        /\ allocs' = [allocs EXCEPT ![i].deployed = @ + amount]
        /\ UNCHANGED <<now, base, vault, shares, delegation, consent>>

UndeployedUnchecked(deployed, expected) == deployed - expected
Undeployed(deployed, expected) ==
    IF expected > deployed THEN 0 ELSE deployed - expected

(* withdraw_liquidity; trade_pt of n PT for `proceeds` SY; redeem_sy of    *)
(* `redeemed`.  What came out is only the curator's word: `expected`.      *)
ReallocateFromMarket(u, i, m, lp, n, proceeds, redeemed, expected) ==
    LET r == LpRemoved(pool[m], lp)
        q == Parted(pool[m], r, lp)
    IN  /\ MayPull(u, i, m)
        /\ lp <= own.lp[m]
        /\ Trading(m) /\ n > 0
        /\ n <= own.pt[m] + r.pt
        /\ proceeds <= q.sy
        /\ redeemed <= own.sy + r.sy + proceeds
        /\ CanRedeem(redeemed)
        /\ pool' = [pool EXCEPT ![m] = [q EXCEPT !.pt = @ + n,
                                                 !.sy = @ - proceeds]]
        /\ own' = [sy |-> own.sy + r.sy + proceeds - redeemed,
                   pt |-> [own.pt EXCEPT ![m] = @ + r.pt - n],
                   lp |-> [own.lp EXCEPT ![m] = @ - lp]]
        /\ adapter' = WithRedeem(adapter, redeemed)
        /\ idle' = idle + RedeemedFor(redeemed)
        /\ allocs' = [allocs EXCEPT ![i].deployed = Undeployed(@, expected)]
        /\ UNCHANGED <<now, base, vault, shares, delegation, consent>>

(* Value of the vault's PT, SY and LP of market m at a rate and a          *)
(* redemption rate of PT.                                                  *)
MarketValue(m, rate, redemption) ==
    LET inSy(pt, sy) == NumMul(Natural(pt), redemption) + Natural(sy)
        share == FromRatio(own.lp[m], pool[m].lp)
        ofPool == IF own.lp[m] > 0 /\ pool[m].lp > 0
                  THEN NumMul(share, inSy(pool[m].pt, EscrowedSy(m)))
                  ELSE 0
    IN  FloorU64(NumMul(inSy(own.pt[m], own.sy) + ofPool, rate))

Deployed(list) == Total(DOMAIN list, [i \in DOMAIN list |-> list[i].deployed])

(* Anyone's; the rates are the core vault's last seen ones, which may lag   *)
(* behind the adapter's.                                                   *)
MarkedAt(rate, m, i) == rate <= adapter.rate /\ allocs[i].market = m

MarkToMarket(i, m, rate, redemption) ==
    LET list == [allocs EXCEPT ![i].deployed = MarketValue(m, rate, redemption)]
    IN  /\ MarkedAt(rate, m, i)
        /\ allocs' = list
        /\ vault' = [vault EXCEPT !.assets = idle + Deployed(list)]
        /\ UNCHANGED <<adapter, now, base, idle, shares, own, pool,
                       delegation, consent>>

-----------------------------------------------------------------------------
(* Roll delegations.                                                       *)

HashWithoutCap(list) ==
    [i \in DOMAIN list |->
        [market |-> list[i].market, weight |-> list[i].weight, cap |-> 0]]

(* hash_allocations: a commitment to all but the deployed amounts.         *)
HashAllocations(list) ==
    [i \in DOMAIN list |->
        [market |-> list[i].market, weight |-> list[i].weight,
         cap |-> list[i].cap]]

(* What the user reads and agrees to.                                      *)
Whitelist(list) ==
    [i \in DOMAIN list |->
        [market |-> list[i].market, weight |-> list[i].weight,
         cap |-> list[i].cap]]

CreateDelegation(u, slippage, ttl) ==
    /\ slippage <= 1000
    /\ ttl >= MinTtl
    /\ ttl <= MaxTtl
    /\ delegation' = [delegation EXCEPT ![u] =
                        [open |-> TRUE, slippage |-> slippage,
                         expires |-> now + ttl, hash |-> HashAllocations(allocs)]]
    /\ consent' = [consent EXCEPT ![u] =
                        {[list |-> Whitelist(allocs), slippage |-> slippage,
                          at |-> now]}]
    /\ UNCHANGED <<adapter, now, base, idle, vault, allocs, shares, own, pool>>

CloseDelegation(u) ==
    /\ delegation[u].open
    /\ delegation' = [delegation EXCEPT ![u] = NoDelegation]
    /\ consent' = [consent EXCEPT ![u] = {}]
    /\ UNCHANGED <<adapter, now, base, idle, vault, allocs, shares, own, pool>>

ValidDelegation(u) ==
    /\ delegation[u].open
    /\ now < delegation[u].expires
    /\ delegation[u].hash = HashAllocations(allocs)

SlippageFloor(deployed, slippage) ==
    (deployed * (IF slippage > 10000 THEN 0 ELSE 10000 - slippage)) \div 10000

AnyBaseOut(out, min) == TRUE
EnoughBaseOut(out, min) == out >= min

(* The inner calls of a roll.  First `lp` of the matured market are burnt,  *)
(* all PT sold, which needs an active market, and all SY redeemed; then    *)
(* the base is minted to SY again and deposited without PT.                *)
CanLeave(m, lp) == own.pt[m] + LpRemoved(pool[m], lp).pt > 0 => Trading(m)

SyHome(m, lp) == own.sy + LpRemoved(pool[m], lp).sy

LeftBehind(m, lp) ==
    [pool EXCEPT ![m] = Parted(@, LpRemoved(pool[m], lp), lp)]

ParkedSy(pools, m, sy) == LpAdded(pools[m], 0, sy)

(* A keeper's crank.  It burns as many LP as base is recorded.             *)
CrankRollDelegated(u, i, j, min) ==
    LET from == allocs[i].market
        to == allocs[j].market
        deployed == allocs[i].deployed
        sy == SyHome(from, deployed)
        out == RedeemedFor(sy)
        minted == MintedFor(out)
        left == LeftBehind(from, deployed)
        d == ParkedSy(left, to, minted)
        list == [allocs EXCEPT ![i].deployed = 0]
    IN  /\ ValidDelegation(u)
        /\ now >= Expiry[from]
        /\ deployed > 0
        /\ own.lp[from] >= deployed
        /\ min >= SlippageFloor(deployed, delegation[u].slippage)
        /\ CanLeave(from, deployed)
        /\ CanRedeem(sy)
        /\ EnoughBaseOut(out, min)
        /\ WithinCap(j, list[j].deployed + out)
        /\ Depositing(to)
        /\ own' = [sy |-> minted - d.sy,
                   pt |-> own.pt,
                   lp |-> [[own.lp EXCEPT ![from] = @ - deployed]
                            EXCEPT ![to] = @ + d.lp]]
        /\ pool' = [left EXCEPT ![to] = Joined(@, d)]
        /\ adapter' = WithMint(WithRedeem(adapter, sy), out)
        /\ allocs' = [list EXCEPT ![j].deployed = @ + out]
        /\ UNCHANGED <<now, base, idle, vault, shares, delegation, consent>>

-----------------------------------------------------------------------------
(* Others.                                                                 *)

(* Traders buy PT from a market.                                           *)
OtherTrade(m, n, cost) ==
    /\ Trading(m) /\ n > 0
    /\ n <= pool[m].pt
    /\ pool' = [pool EXCEPT ![m] = Traded(@, n, cost)]
    /\ UNCHANGED <<adapter, now, base, idle, vault, allocs, shares, own,
                   delegation, consent>>

Poke(new) ==
    /\ PokeExchangeRate(new)
    /\ UNCHANGED <<now, base, idle, vault, allocs, shares, own, pool,
                   delegation, consent>>

Tick ==
    /\ now < Horizon
    /\ now' = now + 1
    /\ UNCHANGED <<adapter, base, idle, vault, allocs, shares, own, pool,
                   delegation, consent>>

-----------------------------------------------------------------------------

Init ==
    /\ adapter = InitialAdapter
    /\ now = 0
    /\ base = Funds
    /\ idle = 0
    /\ vault = [assets |-> 0, shares |-> 0, harvested |-> 0]
    /\ allocs = <<>>
    /\ shares = [u \in Holders |-> 0]
    /\ own = [sy |-> 0, pt |-> [m \in Markets |-> 0], lp |-> [m \in Markets |-> 0]]
    /\ pool = InitialPool
    /\ delegation = [u \in Holders |-> NoDelegation]
    /\ consent = [u \in Holders |-> {}]

Next ==
    \/ \E u \in Holders, a \in Amounts : Deposit(u, a) \/ Withdraw(u, a)
    \/ \E u \in Holders, a \in Attested : HarvestFees(u, a)
    \/ \E u \in Holders, list \in Lists : SetAllocations(u, list)
    \/ \E u \in Holders, i \in DOMAIN allocs, m \in Markets, a \in Amounts,
          n, ptIntent, syIntent \in Lots, c \in Quotes :
         ReallocateToMarket(u, i, m, a, n, c, ptIntent, syIntent)
    \/ \E u \in Holders, i \in DOMAIN allocs, m \in Markets, lp, n, s \in Lots,
          b \in Amounts, c \in Quotes :
         ReallocateFromMarket(u, i, m, lp, n, c, s, b)
    \/ \E i \in DOMAIN allocs, m \in Markets, r \in Rates, p \in Redemptions :
         MarkToMarket(i, m, r, p)
    \/ \E u \in Signers, s \in Slippages, t \in Ttls : CreateDelegation(u, s, t)
    \/ \E u \in Holders : CloseDelegation(u)
    \/ \E u \in Holders, i, j \in DOMAIN allocs, b \in Lots :
         CrankRollDelegated(u, i, j, b)
    \/ \E m \in Markets, n \in Lots, c \in Quotes : OtherTrade(m, n, c)
    \/ \E r \in Rates : Poke(r)
    \/ Tick

Spec == Init /\ [][Next]_vars

-----------------------------------------------------------------------------

(* Every balance is a natural number.                                      *)
TypeOK ==
    /\ adapter \in AdapterRecord
    /\ adapter.rate > 0
    /\ now \in Nat
    /\ base \in [Holders -> Nat]
    /\ idle \in Nat
    /\ vault \in VaultRecord
    /\ allocs \in Seq(Allocation)
    /\ shares \in [Holders -> Nat]
    /\ own \in OwnRecord
    /\ pool \in [Markets -> PoolRecord]
    /\ delegation \in [Holders -> DelegationRecord]
    /\ \A u \in Holders : consent[u] \subseteq ConsentRecord

(* deposit, withdraw and harvest_fees: total_shares, by which every claim  *)
(* is divided, is the sum of all positions, so every holder can burn all   *)
(* of his shares.                                                          *)
SharesAddUp == vault.shares = Total(Holders, shares)

(* deposit and withdraw: while the assets are not revalued, no sequence of *)
(* deposits and withdrawals lowers the price of the shares that stay.      *)
SharePriceKept ==
    [][idle' # idle /\ allocs' = allocs =>
         (vault.assets' + Virtual) * (vault.shares + Virtual)
             >= (vault.assets + Virtual) * (vault.shares' + Virtual)]_vars

(* harvest_fees: as long as others hold shares worth at least one unit     *)
(* each, the shares of the fee are worth no more than the fee.             *)
DilutedByTheFee ==
    [][\A u \in Holders, a \in Attested :
         HarvestFees(u, a) /\ vault.shares \in 1..(a - FeeOn(a)) =>
           FeeShares(a) * (a + Virtual)
               <= FeeOn(a) * (vault.shares' + Virtual)]_vars

(* crank_roll_delegated: a roll needs a user who signed for the very list  *)
(* of allocations now in force, not longer than MaxTtl ago, and who has    *)
(* not taken it back, whatever lists the curator has set since.            *)
RollAuthorised ==
    [][\A u \in Holders, i, j \in DOMAIN allocs, b \in Lots :
         CrankRollDelegated(u, i, j, b) =>
           \E c \in consent[u] : /\ c.list = Whitelist(allocs)
                                 /\ now < c.at + MaxTtl
                                 /\ now >= c.at]_vars

(* Base a roll from allocation i to j records there.                       *)
Arrived(i, j) ==
    allocs'[j].deployed - (IF i = j THEN 0 ELSE allocs[j].deployed)

(* crank_roll_delegated: the base recorded in the next market is what each *)
(* consenting user's slippage allows of the base recorded before, and the  *)
(* SY left with the vault redeem for it, up to one unit of SY.             *)
RollKeepsValue ==
    [][\A u \in Holders, i, j \in DOMAIN allocs, b \in Lots :
         CrankRollDelegated(u, i, j, b) =>
           /\ RedeemedFor(own.sy' + 1) >= Arrived(i, j)
           /\ \A c \in consent[u] :
                Arrived(i, j) >= SlippageFloor(allocs[i].deployed, c.slippage)]_vars

(* What the holders have put in and not yet taken out.                     *)
PaidIn == Total(Holders, Funds) - Total(Holders, base)

(* The comment on fee_bps: the fee is on realized yield.  A harvest at     *)
(* assets that the deposits alone account for charges nothing.             *)
FeesOnYieldOnly ==
    [][\A u \in Holders, a \in Attested :
         HarvestFees(u, a) /\ a <= PaidIn => FeeShares(a) = 0]_vars

(* The comment on the deposit of a roll: the base is parked as liquidity.   *)
(* A roll that has SY to deposit adds to the vault's LP in the next market. *)
RollReachesMarket ==
    [][\A u \in Holders, i, j \in DOMAIN allocs, b \in Lots :
         CrankRollDelegated(u, i, j, b) =>
           \/ own.sy' = 0
           \/ own.lp'[allocs[j].market] > own.lp[allocs[j].market]]_vars
=============================================================================
