# Clearstone fixed yield: TLA+ models, checks and proofs

Clearstone splits a yield-bearing token (SY) into principal (PT) and yield
(YT), trades PT against SY in a time-dependent market maker, and surrounds both
with a curated lending vault, reward farms, a router and adapters that turn
base tokens into SY. This directory holds TLA+ models of the on-chain programs,
TLC configurations that check them on small instances, and TLAPS proofs for
every value of the constants.

    tlc -workers 4 -config MCVaultSteady.cfg MCVault      # one run
    tlapm VaultProofs.tla                                 # one module's proofs

`PROJECT.json` lists the runs, the source lines behind every definition, the
mutants each property detects, the hazards and the theorems.

## 1. Inventory

| Component (source) | State | Operations | Talks to |
|---|---|---|---|
| Vault (`clearstone_core/src/state/vault.rs`, `state/yield_token_position.rs`, `instructions/vault`) | last, all-time-high and final exchange rate; escrowed SY, SY set aside for PT, uncollected and treasury SY; PT supply; one position per YT staker and one for all unstaked YT; emission indexes; claim window; status flags | strip, merge, deposit/withdraw YT, stage yield, collect interest, collect emission, treasury collections, curator settings | SY program (rate, deposit, withdraw, emissions), SPL tokens |
| Market (`state/market_two.rs`, `instructions/market_two`) | tracked PT and SY reserve, LP supply, flash debt and flash flag, limits on the change of LP supply, status flags, fee | trade PT, deposit/withdraw liquidity, buy/sell YT, flash swap PT, flash swap SY, flash sell YT, curator settings | SY program, vault (strip and merge by self-CPI), callback program |
| Time curve (`libraries/time_curve`) | none | trade pricing, liquidity shares | called by the market |
| Fixed point (`libraries/precise_number`) | none | multiply, divide, floor, ceiling at 12 decimals | called by most programs |
| Reentrancy latch (`reentrancy.rs`, `utils/sy_cpi.rs`) | one byte in Vault and MarketTwo | latch, unlatch around calls of the SY program | SY program, runtime |
| Rewards (`periphery/clearstone_rewards`) | farms (rate, index, expiry), positions with one tracker per farm | add, refill and decommission farm, stake, unstake, claim, reallocate a position | LP tokens |
| Curator vault (`periphery/clearstone_curator/src/lib.rs`) | assets, shares, allocations over markets, marked value | deposit, withdraw, set allocations, reallocate to and from a market, mark to market, harvest fees | market, SY adapter |
| Roll delegation (`roll_delegation.rs`) | per user: slippage bound, expiry, hash of allocations | create, close; a keeper cranks a matured allocation into the next market | curator vault |
| Router (`periphery/clearstone_router`) | none | fifteen wrappers: one or two adapter calls and one or two core calls in a transaction | adapter, core |
| Generic adapter (`reference_adapters/generic_exchange_rate_sy`) | stored rate, base tokens, personal positions and their escrow | mint, redeem, poke the rate, deposit, withdraw | core, router, curator |
| Kamino adapter (`reference_adapters/kamino_sy_adapter`) | whitelist, ctokens, personal positions and their escrow | initialise, mint, redeem, deposit, withdraw; rate decoded from a lending reserve | klend reserve, core |
| Solver callback (`periphery/clearstone_solver_callback`) | none | callback of a flash window: fill an order, repay | market, fusion program |

A Solana transaction is atomic and instructions on one account are serialised,
so the concurrency of this system is of three kinds: the order in which users',
curators' and keepers' transactions arrive; the callback programs, SY programs
and inner calls that run in the middle of an instruction and may fail there;
and the rates, reserves and clocks that others move between any two
instructions. Hard behaviours are therefore long sequences of legal calls
around changes of the rate and around maturity, state held in memory across a
call of foreign code, tokens and counters that are updated in different
places, lists addressed by index, windows and limits, and rounding that
accumulates.

What makes each component correct:

* vault: the escrowed SY covers the PT at par, the treasury, and all interest
  settled or not; no interval of the rate is earned twice; a rate is never
  recorded as zero nor above the high water mark; supplies and escrows add up;
  the settlement data freeze at maturity; matured PT can always be redeemed;
* market: the tokens held cover the reserves it prices against; at most one
  flash window is open, and nothing moves the market meanwhile; a flash window
  is one trade; liquidity operations never dilute other providers; the limits
  on LP supply mean what they say;
* latch: no call reaches the account that is in the middle of a call;
* rewards: no farm pays out more than its stream, nobody earns for time before
  the stake, stakes stay in escrow and stakers can always leave;
* curator and delegation: shares add up; deposits and withdrawals do not lower
  the price of a share; a fee dilutes by no more than itself; a roll happens
  only under a consent for the allocations in force and keeps within its slippage;
* router: a wrapper does all or nothing, and SY and PT stay redeemable;
* adapters: escrowed SY covers every position, every SY is covered by a ctoken
  or by base, and the rate does not move by accident of rounding.

## 2. Modules

| Module | Models |
|---|---|
| `FixedPoint` | the arithmetic of `Number` (a natural scaled by `ONE`), conversions between SY and PY, interest and share formulas, fees |
| `Sums` | totals over finite sets |
| `Vault` | the vault with its positions, emissions, treasury, claim limits, and the SY program as environment |
| `AtomicPool` | abstract: two reserves and an LP supply that change by whole trades and fair liquidity operations |
| `MarketTwo` | the market with its escrows, SY position, flash windows and limits; refines `AtomicPool` |
| `Rewards` | farms, their streams, stakers' trackers and the escrows |
| `SyAdapter` | mint, redeem and rate of the generic SY program |
| `SyPositions` | the personal positions and the pooled escrow both adapters keep |
| `KaminoAdapter` | the Kamino adapter over a lending reserve; extends `SyPositions` |
| `Curator` | the curator vault with roll delegations, composed with `SyAdapter` and with several markets |
| `Router` | the wrappers step by step, composed with `MarketTwo` and `SyAdapter` |
| `MCVault`, `MCMarket`, `MCRewards`, `MCCurator`, `MCKamino`, `MCRouter` | lists, settings, limits and pools for the `.cfg` files |
| `ArithmeticTheorems` | lemmas on the arithmetic and on totals |
| `VaultProofs`, `MarketProofs`, `RewardsProofs`, `CuratorProofs`, `KaminoProofs`, `RouterProofs` | the invariants of each module, proved |
| `SolvencyProofs` | that the vault can pay what it owes, over `VaultProofs` |

Everywhere one action is one instruction, with every call it makes that changes
state, and a failing instruction is a disabled action. Only where something can
happen in between, in flash windows and in the router's wrappers, is an
instruction several steps.

### Vault

`vault` holds the accounting fields (`last`, `ath`, `final` rates; `total`,
`forPt`, `uncollected`, `treasury` SY; `pts`), `pos` the interest part and
`trackers` the emission part of every `YieldTokenPosition`. `Robot` is the
vault-owned position that earns for all unstaked YT. `UpdateFromSyState`,
`EarnPosition` and `EarnEmissions` are the functions of the same names, and
`SyncedVault`, `SettledPosition` and the like compose them in the order of
`instructions/vault/common.rs`. The actions `Strip`, `Merge`, `StageYield`,
`DepositYt`, `WithdrawYt`, `CollectInterest`, `CollectEmission`, the four
treasury collections, `ModifyVaultSetting` and `ChangeClaimLimits` are the
handlers. `Tick`, `SyRateMoves` and `SyEmissionAccrues` are the environment.
All holders' token accounts are one pool (`wallet`): tokens are fungible and
transferable, so any holder may do what the pool allows.

### MarketTwo

`market` holds the tracked reserves, the flash debt and the flash flag; `held`
the tokens: PT escrow, SY escrow, position with the SY program. The three flash
instructions are an opening action, any actions of a callback, and a closing
action. An open window is a frame on `flash` with the handler's in-memory copy
of the account (`mem`), which the closing action writes back, as the handlers
do that never reload the account after the callback; `TransactionFails`
restores what was before the outermost window. The callback may try every
instruction of the market and any transfer. The runtime refuses re-entrance
into a program from its callee; the handlers do not rely on it and neither
does the model, so that their `flash_pt_debt` gate is what the properties test.
The exception is the curator's settings, which have no gate: they happen
between transactions.

A quote of the curve is any SY amount and any fee of two small sets
(`Quotes`); prices, slippage limits and the implied rate are left out, since
f64 exponentials are beyond TLC and no property here is about the price. The
vault inside `BuyYt`, `SellYt` and `FlashSellYtDelivered` converts at par and
refuses while the rate is below its high (`VaultConverts`). Shares of
liquidity are exact integer divisions where the code uses f64; the two agree
below 2^53. At the expiry second the market still takes deposits but can no
longer trade, because the curve divides by the time left (`IsPriced`).

`ImplementsPool` states that `MarketTwo` implements `AtomicPool` with `pt`,
`sy` and `lp` read off the market account: opening a window stutters, closing
it is one trade, a failed transaction stutters.

### Rewards

`farms` is the list in `FarmState`, addressed by index as in the code, and
`pos[u]` a stake position with its list of trackers and the number of trackers
its account has room for (`space`). `Advanced` is `update_indexes`, `Settled`
is `settle_user`, `Fits` is `require_position_fits`. `StakeLp`, `UnstakeLp`,
`ClaimFarmEmission`, `ReallocStakePosition`, `AddFarm`, `RefillFarm` and
`DecommissionFarm` are the instructions, `Tick` is time. `paid`, `addedAt` and
`removed` are history variables. That a new farm inherits the last update of
the others, and that an existing position must be resized before its owner can
stake or unstake, is the code's.

### Curator

`vault`, `allocs` and `shares` are the accounts of the program, `idle` its
base escrow, `own` what it holds of SY, PT and LP. `pool` holds the markets as
the outcomes of the inner calls: a trade at an open quote (`Traded`), the
market's own liquidity arithmetic (`LpAdded`, `LpRemoved`), an expired market
that refuses trades and new deposits. `Deposit`, `Withdraw`, `HarvestFees`,
`SetAllocations`, `ReallocateToMarket`, `ReallocateFromMarket`, `MarkToMarket`,
`CreateDelegation`, `CloseDelegation` and `CrankRollDelegated` are the
instructions; `OtherTrade`, `Poke` and `Tick` are others. What the program
accepts on the curator's word is an open choice: the total a harvest attests
(`Attested`), the base a withdrawal from a market is said to have brought
(`expected`), the `deployed` amounts of a new list. The account of a delegation
holds a hash; the model's hash is the tuple of the hashed fields, so hashes
collide only when the fields agree. `consent` is a history variable: the list
a user saw when signing.

### Router

`Router` extends `MarketTwo`, whose wallet is now the user's, with the base
tokens, the adapter and a stack frame `call`. A wrapper's first inner call
enters the frame with the legs that remain; each leg is a step
(`StripsMinted`, `RedeemsAll`, `BuysPt`, `BuysYt`, `Deposits`);
`WrapperFails` may happen before any leg and restores the frame's `undo`, as
the runtime does. Nothing else happens while a frame is open, except in the
flash wrappers, which only pass their arguments on to the market's own
instruction and so leave the callback's freedom as it is in `MarketTwo`. The
vault's strip, merge and collect_interest are their conversions
(`VaultConverts`, `MergedUp`, `CollectInterest`). What is redeemed after a
sale is the user's whole SY balance as reloaded, not the proceeds.

### KaminoAdapter and SyPositions

`reserve` is the klend account as the adapter decodes it, in fixed point of
`Scale`; `Refreshed` applies the interest that is due, which the reserve only
books when somebody refreshes it. `InitSyParams`, `MintSy`, `RedeemSy`,
`OpenPosition`, `Deposit` and `Withdraw` are the adapter's instructions;
`Lend`, `Unlend`, `Borrow`, `Repay`, `WithdrawFees`, `Accrue`,
`RefreshReserve`, `DonateCtokens` and `Transfer` are everybody else. `Locked`
ctokens of the reserve's first deposit never come back, as in klend. `high` is
a history variable: the highest rate any reader has seen. Losses of the
reserve (socialised bad debt) are left out, so that a fall of the rate can only
come from the decoding.

### How the modules compose

`Router` EXTENDS `MarketTwo` and instantiates `SyAdapter`; `Curator` extends
`SyAdapter` and the liquidity arithmetic of the market; `KaminoAdapter` extends
`SyPositions`; `MarketTwo` instantiates `AtomicPool` for its refinement. The
vault stands alone with an SY program that reports any rate, zero and falling
ones included, which is more than either adapter does.

## 3. Runs

Exchange rates of the vault's and the market's runs are powers of two times
`ONE`, so that conversions are exact: what the last digit of an inexact rate
does to a backing is not checked there (section 5 says what it does). The router's rates 7/8 and 3/2 and the
Kamino reserve's are not exact. All bounds are constants of the `.cfg` files:
`Horizon` (the clock), `MaxPySupply`, `InitialSy`, `Amounts`, `MaxIndex`,
`MaxDepth` (nested windows), `MaxLpSupply`, `MaxEscrow`, `MaxAdded`,
`MaxSupply`.

| Run | Instance | Shows |
|---|---|---|
| `vault_falling` | one staker, rates 0, 1, 2, 4 in any order, maturity crossed, settings and claim limits changing | no underflow; rates recorded in order and never zero; solvency while the rate falls and recovers; no interval earned twice; claims capped; no gain from a round trip |
| `vault_steady` | one staker, one emission, rates 1, 2, 4 rising, start and maturity crossed | accounts add up; par backing and redemption through maturity; staged emissions covered; final data frozen |
| `market_flash` | pool of 2 PT and 2 SY, quotes of 1 or 2 SY with and without fee, depth 2 | reserves held, one window, isolation, refinement, no underflow |
| `market_liquidity` | uneven and empty pools, amounts 1 and 3, limits and settings changing | share price kept, withdrawals of a window limited |
| `rewards` | two stakers, two mints, farms added, refilled and removed, time past the expiry | stakes escrowed, no farm pays more than its stream, only time pays, stakers can leave |
| `curator` | a depositor, the curator, two markets with different expiries, rates 1 and 2 | shares add up, share price kept, fee dilution bounded, rolls authorised and within slippage |
| `kamino` | one user and the core vault, a reserve with loans, interest and fees in half units | positions escrowed, SY backed by ctokens, the rate within one unit of its high |
| `router` | one user of all wrappers, each leg failing, rates 7/8 and 3/2, expiry crossed | SY and PT redeemable, a sale pays its floor in base or changes nothing |
| `vault_surplus`, `market_flag`, `rewards_removal`, `curator_fees` | | section 4 |

Why these bounds: in the vault amounts of 4 make every conversion at
rates up to 4 whole, a cap of 8 PY (12 with falling rates) lets strips
at rates 1 and 2 meet, and what was stripped then lives through a rate of 4;
three rates are needed for a fall and a recovery beyond the high; two time steps cross start and maturity. A
market of two PT with a cap of one half has exactly one PT to flash, and two
more wallets' worth of tokens let a callback repay, donate, trade or fail. Two
farms are the least in which an index can shift, two time steps cross an
expiry, and a stream of 3 over 1 or 2 stakers rounds. In the curator's run one
market that matures at the first tick and one that never does give a roll its
two sides; a second list with the same markets and other caps is what a stale
consent needs; the adapter's rate doubles once so that marks and rolls meet a rate other than one.
The Kamino run's half units make truncation lose up to half a token of at most
five. The router's run has funds for one wrapper after another and a pool a
wrapper can move. Each property is broken by a plausible bug in the code under
the same bounds (the mutants of `PROJECT.json`).

`FullySolvent` and `PtBackedAtPar` carry the condition `BackingIntact`: after
maturity they are claimed only for rates that never fall, because of the first
divergence of section 4. `EmissionsBacked` is checked with rates that never
fall, for the sixth. `StreamBounded` is claimed until the first farm is removed,
for the third. `SyRedeemable` is claimed until the rate is first raised: nobody adds
the base that a higher rate promises, so a raise that the underlying has not
earned makes redemption first come, first served. Runs whose tokens may all end
in escrows after the clock has stopped do not check for deadlock.

### Fairness and liveness

Nothing in these programs schedules itself, so most of the models state safety
only. The exception is `Rewards`: each farm added makes every existing position
too small and stops its owner's unstake until the position is resized.
`FairSpec` assumes of each staker who wants out that he persists: weak fairness
of `ReallocStakePosition`, which stays possible, and strong fairness of
`Leave`, an unstake of the whole stake, which farms added in between disable
again and again. Both are his own transactions; nothing is assumed of the
curator. `StakersCanLeave` then says that no curator can hold his LP back. That
matured PT can be redeemed is an invariant: `MaturityRedeemable` lists the
guards of `Merge` and says that they hold.

## 4. Where the code differs from what is said of it

TLC finds each of these counterexamples. The first four are runs of
`PROJECT.json`; the others have a configuration beside them.

1. `vault_surplus` - the treasury's surplus after maturity is measured from the
   last seen rate, not from the all-time high that allows it. A withdrawal of
   YT in emergency mode before maturity records a low rate; a later rise above
   the high then credits the treasury the whole recovery, out of PT backing.
2. `market_flag` - `is_current_flash_swap` survives `buy_yt` and
   `flash_sell_yt`, so later spot trades pay the flash fee.
3. `rewards_removal` - decommissioning a farm shifts the indexes of later
   farms, and with them every staker's trackers: claimable amounts of one mint
   become claims on another.
4. `curator_fees` - deposits do not move the snapshot of the last harvest, so
   the performance fee is charged on principal.
5. `MCVaultFinalRate` - matured PT settle at a share of `sy_for_pt`, which
   follows the last seen rate, not at the frozen final rate.
6. `MCVaultInflated` - `withdraw_yt` earns emissions in emergency mode, which
   `collect_interest` refuses, on SY valued at the low rate.
7. `MCMarketAdapter` - `flash_swap_pt` leaves its repayment in the SY escrow
   although it counts as reserve, so the SY program's position no longer covers
   the reserve.
8. `MCMarketWindow` - changing the limits on LP supply starts a window measured
   against the supply of an older one, or zero.
9. `MCCuratorRoll` - a crank deposits with a PT intent of 0, which mints no LP:
   the base is recorded as deployed in the next market but stays SY of the
   vault.
10. `MCKaminoRate` - the Kamino rate truncates to whole units before dividing,
    so another lender's redemption can lower the rate that the generic adapter's
    comments say only rises.

Further facts the models carry and a reader of the code may not expect.
*Router:* a sweep redeems all SY the user holds; purchases and deposits may use
SY that was there before, so `max_base` does not cap what is spent; leftover SY
of a purchase stays with the user; slippage is bounded in SY only.
*Curator:* `mark_to_market` counts the vault's own SY in every market and the
pool's SY in none; `set_allocations` overwrites `deployed_base`; a matured
position cannot be pulled by the curator, since every way out ends in a trade;
after a loss the last holder cannot withdraw all shares.
*Kamino:* the last ctokens of a reserve cannot be redeemed, since the rate could
not be read afterwards; positions are reported with a rate not yet refreshed.

## 5. Proofs

All theorems hold for every value of the constants under the named assumptions
of the modules. In each proof module an inductive invariant `IInv` implies the
properties; every action has a lemma that it preserves `IInv`, and the temporal
step is one application of the induction rule.

`VaultProofs` (all rates, falling and zero ones included):

* `TypeCorrect`: no balance ever underflows;
* `RatesOrdered`, `PositiveRates`: the recorded rates stay below the high water
  mark and are never zero;
* `SyConserved`, `PyConserved`: SY is conserved between wallets, vault and
  treasury; PT, YT and `pt_supply` stay in step;
* `HighWater`, `Frozen`: the high water mark only rises; final data freeze.

* `StakesEscrowed`, `UncollectedStaged`: the escrowed YT and the uncollected
  SY are the sums over all positions;
* `ClaimsWithinLimit`: what is claimed in a window stays within its limit;
* `EarnedOnce`: no user has settled further than the robot, from which staked
  YT comes and to which it returns, so no rise of the rate is earned twice;
* `NoProfitInRoundTrip`: SY stripped and at once merged back bring no profit;
* `MaturedPtRedeem`: after maturity, unless the rate is below its high, no
  guard of `Merge` stands in the way of any amount of PT.

`TypeCorrect` is inductive by itself: each handler's checked subtractions make
the types hold, and `ArithmeticTheorems` bounds fees, backings and surplus.
The others share `IInv`: types, order of the rates, positive rates, both
conservation laws and `NoPtBeforeStart`. The last is what makes `PySupply`
inductive: a merge before the start would burn PT without YT, and none can
happen because nothing can be stripped before the start. `BooksInv` adds to
`IInv` the two sums, the limit, and `SettledInOrder`: outside an emergency the
robot is settled to the final rate, and no rate is taken over before the start.
So a step that takes over a rate before maturity does so in the active term,
where the robot settles in the same step, and nobody overtakes it. Sums change
by one summand at a time (`TotalUpdate` of `ArithmeticTheorems`).
`NoProfitInRoundTrip` is a fact about steps: only `Strip` creates PT, and both
its conversion and the one back round down. `MaturedPtRedeem` adds `PtHaveRate`,
that there are PT only after a positive rate has been taken over, since without
one nothing could be redeemed.

`SolvencyProofs`, for *exact* rates:

* `Solvent`: outside an emergency the escrow covers the PT's backing, the
  treasury and the interest of every position, settled or not;
* `BackedAtPar`: then the PT are backed at par, so the code's fallback to
  whatever SY is left is never taken (after maturity both are claimed, as in
  the runs, for rates that never fall);
* `EmissionsCovered`: the SY program owes the vault at least the emissions
  credited to positions and treasury, so each of them can be collected. This
  one is for rates that never fall.

`ExactRates` is a hypothesis on the constant `Rates`, not something the code
guarantees: the reciprocal of every rate divides without remainder, and no
ratio of a rate to a higher one is rounded up. `WholeRatesExact` gives rates
that satisfy it, among them those of the runs (`ONE`, `2 * ONE`, `4 * ONE`).
Without it the claim is false. `SyInterest` multiplies the YT by a difference of
rounded reciprocals, so amounts of the order of `ONE` (10^12 smallest units) are
credited a unit too much: `MCVaultDust.cfg` strips 6 SY at rate 1 with `ONE = 2`
and, at rate 3/2, settles interest of 3 where 2 were earned, which leaves 3 SY
for PT worth 4. The theorems therefore say that nothing but this rounding can
make the vault insolvent: no sequence of strips, merges, stakes and claims.

The invariant `SolvencyInv` is `BooksInv` and `Sound`. Until maturity, `Sound`
asks the SY that belong neither to the treasury nor to settled interest to
cover the value each position's YT had at the index it is settled to
(`CoversYt`). That is stronger than solvency at today's rate, and it is what a
settlement keeps: the position's value falls by what is staged at least. It also
survives a fall and a recovery of the rate. When staked YT move between robot
and staker they change index, and their value would rise if they came to a
position settled less far; that they never do is `EarnedOnce`. After maturity
the PT no longer follow the YT, and the free SY cover the PT at the last rate
plus what is still due on the YT (`CoversPt`); the treasury's surplus is no more
than a rise of the rate frees.

`EmissionsInv` adds, per emission, that what is owed covers what the treasury
has been credited, what each position has been and will be credited up to its
next settlement, and the growth of the index over all SY since the vault's last
update (`Covered`). A position earns on its staged SY and on the value of its
YT, whose sum `CoversYt` bounds by the vault's SY. With a rate that has fallen
this breaks down: YT are then valued at the low rate and stand for more SY than
the vault holds (divergence 6), so nothing is claimed there.

`MarketProofs` (all pools, virtual amounts, curves, callbacks, caps, nesting
depths, settings and limits):

* `TypeCorrect`, `ReservesCovered`: no balance underflows; the escrows and the
  SY position cover the tracked reserves less what an open window has lent;
* `OneDebtOneWindow`, `Isolation`: the debt marks exactly the open window,
  there is one at most, and nothing moves the market while it stays open;
* `Refinement`: the market implements `AtomicPool`;
* `Withdrawals`: withdrawals within one window of the limits stay below its
  share. This needs `MaxPct >= 10000`: the code's `u32::MAX` saturates far above
  a full withdrawal.

None of these is inductive. `IInv` says that either no window is open, the debt
is zero and the reserves are covered (`RestOK`), or one window is (`WindowOK`):
the account still equals the copy in its handler's memory except for the debt,
the tokens cover that copy but for what was lent, the balance measured before
the callback is high enough for the check after it, and the state the runtime
would restore is covered as well. `GateShut` derives from it that a handler that
finds no debt runs outside any window; `OpenStep` and `CloseStep` lead from one
half to the other, `BystanderStep` covers what may happen in both. `NextInv`
proves with the invariant that each step is a step of the pool or leaves it
alone, so refinement is a corollary. The share arithmetic is in `MatchPays`
(rounding the matched amount up pays for shares rounded down),
`AddedKeepsPrice` and `RemovedKeepsPrice`.

`RewardsProofs` (any number of stakers, mints and farms):

* `TypeCorrect`, `StakesCovered`: the escrow, the total that divides every
  emission and the sum of all stakes agree, so no unstake finds it short;
* `FarmsUnique`, `OnlyTime`: there is one farm per mint, and a step that takes
  no time leaves what every staker was paid and is owed exactly as it was;
* `StreamsBounded`: until a farm is removed, all that stakers have claimed, can
  claim and have earned since stays within the rate times the time, whatever
  stakes came and went.

`StreamBounded` is inductive only with `TrackersBehind` (no tracker is ahead of
its farm's index, so no settlement is skipped), `FarmsOrdered` (one farm per
mint, added before the last update) and `PaidByFarms`. An update raises the sum
by the rise of the index times the total stake (`AllHeldRises`, from the
linearity of totals in `ArithmeticTheorems`), and truncation makes that no more than
what was streamed; a settlement only moves it. The proof rests on
`update_indexes` dividing by the very total that is the sum of the stakes.
`OnlyTime` needs less and holds across removals too: `FarmsUnique` makes a mint
name one farm, indexes that are up to date do not move (`AdvancedOnce`), and
whoever is settled at an index is owed nothing more at it (`NothingDue`), so a
step that brings the farms up to date only moves what was owed.

`CuratorProofs` (any holders, markets, lists, quotes, marks and attestations):

* `TypeCorrect`: no balance underflows, whatever is booked, marked or attested;
* `SharesSum`: total shares are the sum of all positions;
* `SharePrice`: while nothing is revalued, deposits and withdrawals never lower
  the price of a share (with the virtual amounts);
* `FeeDilution`: the shares minted for a fee are worth no more than the fee;
* `RollsAuthorised`: every roll follows a consent for the list in force, given
  no longer than `MaxTtl` ago and not withdrawn;
* `RollsKeepValue`: what a roll books is within the consenting user's slippage
  and backed by the SY it leaves, up to one unit.

`IInv` has the books (with `SharesAddUp`), the vault's LP within what each
market has issued (`Held`, without which a withdrawal of liquidity could
underflow the pool) and `Signed`: every open delegation is a consent of its
user with the same list, slippage and an expiry within `MaxTtl` of it. The
crank's guard compares the hash with the list in force; `Signed` carries the
comparison back to what the user saw.

`KaminoProofs` (any reserve, users, interest and fees):

* `PositionsCovered`: the shared escrow covers the sum of all positions;
* `SyBacked`: every SY is covered by a ctoken;
* `RateStaysNear`: the rate read stays within one liquidity unit, spread over
  the supply of ctokens, of the highest one ever read.

The last needs `Sound`: what the reserve owes per ctoken, exactly, never falls
below the highest rate read, since lending and redeeming round in favour of the
reserve; and `Outstanding`: the adapter's ctokens and the locked ones are part
of the supply, so that it never reaches zero.

`RouterProofs` (any rates, curves, callbacks, failures and sequences of wrappers),
over the invariant of `MarketProofs`:

* `WrappersKeepMarket`: the market's types, its cover of the reserves and its
  single window hold between the inner calls and after a failure;
* `SyAlwaysRedeemable`: until the rate is first raised the adapter can pay for
  all SY;
* `PtAlwaysRedeemable`: the SY in the vault redeem all PT, wherever they are;
* `SalesReachBase`: a sale brings at least its floor in base or changes nothing.

`RouterInv` is the market's invariant with the backing of SY and PT, stated
three times: for the balances as they are, for those that a failing wrapper
would restore (`call.undo`), and for those that a failing flash would restore
(the frame's `undo`, when a wrapper opened the window). An invariant of the
balances alone would be lost when one of these comes back. While a sale is under
way its proceeds are in the wallet, which is what `SaleReachesBase` needs of the
last leg. `InitiallyBacked` assumes that the SY and PT a run begins with could
have been minted and stripped.

Every safety property that a passing run checks is stated by a theorem, the
three of `SolvencyProofs` under the conditions given there. What no theorem
states is liveness (`StakersCanLeave`): fairness is out of the prover's reach,
and TLC checks it.

## 6. Not modelled

* *Vault:* adding and removing emission rows (one row stands for all; what
  removal does to indexes is shown on the farms); `realloc`, account lists
  (`CpiAccounts`), lookup tables, key changes, metadata and events, which carry
  no accounting state.
* *Market:* the curve's prices, in f64 exponentials; slippage arguments of the
  market's own instructions; `realloc_market` and account lists.
* *32-bit timestamps:* start plus duration near 2^32 panics and changes
  nothing; the runs stay far below.
* *Reentrancy latch:* it acts only when an SY program calls back into core.
  Neither SY program of the repository does, so in a composition of these
  components the latch never bites; it is exercised by the repository's
  re-entrant test adapter, a test double. The conversions and the validation of
  the SY state in `sy_cpi.rs` are part of `Vault`, `MarketTwo` and `Router`.
* *Solver callback:* its settlement is a call into the fusion program, a git
  dependency that is not in the repository. Everything it can do to the market
  is among the callbacks `MarketTwo` leaves open. From its own code: after the
  fill it compares a balance, not a difference, with the amount required, so an
  order filled short is paid from the solver's own tokens.
* *Kamino:* the mock reserve layout that the decoder accepts for local tests,
  and losses of the reserve.
* *Curator:* allocations of the Kamino kind have no way back in the program;
  their way in is the same mint of SY as for a market.
* Client code (TypeScript), scripts, generated IDLs and test adapters.

## 7. What is left

The vault composed with `SyAdapter` in place of its open SY program; several
emission rows; a bound on what rounding can cost the vault at inexact rates.
