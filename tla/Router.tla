------------------------------- MODULE Router -------------------------------
(***************************************************************************)
(* The router (periphery/clearstone_router) over the market and the        *)
(* generic SY program: a wrapper is one transaction of two or three inner  *)
(* calls, from base tokens to SY and on into the core, or out of the core  *)
(* and back to base.  The router keeps no state of its own; `call` is its  *)
(* stack frame.  Each inner call is a step, and a wrapper one of whose     *)
(* calls fails leaves nothing behind.  The market's wallet is the user's;  *)
(* the vault is reduced, as in MarketTwo, to conversions at par.           *)
(***************************************************************************)
EXTENDS MarketTwo

CONSTANTS
    Funds,              \* base tokens of the user at first
    InitialPooled,      \* base tokens in the adapter's base_vault at first
    InitialSupply,      \* SY in existence at first
    BaseAmounts,        \* amounts of base in wrappers
    Intents,            \* amounts of PT and SY offered as liquidity
    Maxima, Minima,     \* slippage bounds of purchases and of the rest
    InterestBpsFee      \* the vault's fee on collected interest

ASSUME RouterAssumptions ==
    /\ Funds \in Nat /\ InitialPooled \in Nat /\ InitialSupply \in Nat
    /\ BaseAmounts \subseteq Nat /\ Intents \subseteq Nat
    /\ Maxima \subseteq Nat /\ Minima \subseteq Nat
    /\ InterestBpsFee \in BasisPoints

(* SY and PT exist at first because they were minted and stripped: the SY   *)
(* can be redeemed at the lowest rate, and the vault's SY redeem all PT.   *)
ASSUME InitiallyBacked ==
    \A r \in Rates \ {0} :
        /\ (\A x \in Rates \ {0} : r <= x) => SyToPy(r, InitialSupply) <= InitialPooled
        /\ \A pool \in InitialPools :
             PyToSy(r, InitialWallet.pt + pool[1]) + InitialWallet.sy + pool[2]
                <= InitialSupply

VARIABLES
    base,               \* base tokens of the user
    pooled,             \* base tokens in the adapter's base_vault
    supply,             \* supply of the SY mint
    call                \* the running wrapper

routerVars == <<base, pooled, supply, call>>
allVars == <<vars, routerVars>>

Adapter == INSTANCE SyAdapter WITH adapter <- [rate |-> rate, base |-> pooled]

(* A frame: what remains to be called, and what a failure restores.         *)
NoCall == [todo |-> <<>>]
Running == call.todo # <<>>

Undo == [base |-> base, pooled |-> pooled, supply |-> supply,
         market |-> market, lp |-> lp, held |-> held, wallet |-> wallet,
         treasury |-> treasury, limits |-> limits, vaultAth |-> vaultAth]

(* A later call of a wrapper: the action, its amounts and its bound.       *)
Leg(op, n, m, bound) == [op |-> op, n |-> n, m |-> m, bound |-> bound]

-----------------------------------------------------------------------------
(* The inner calls.                                                        *)

InAdapter == UNCHANGED <<now, rate, vaultAth, market, lp, held, treasury,
                         settings, limits, flash>>
InVault == UNCHANGED <<now, rate, market, lp, held, settings, limits, flash,
                       base, pooled, supply>>
InMarket == UNCHANGED <<base, pooled, supply>>

Minted(b) == Adapter!MintedFor(b)

MintSy(b) ==
    /\ Adapter!RateValid
    /\ b <= base
    /\ base' = base - b
    /\ pooled' = pooled + b
    /\ supply' = supply + Minted(b)
    /\ wallet' = [wallet EXCEPT !.sy = @ + Minted(b)]
    /\ InAdapter

RedeemSy(s) ==
    /\ Adapter!CanRedeem(s)
    /\ base' = base + Adapter!RedeemedFor(s)
    /\ pooled' = pooled - Adapter!RedeemedFor(s)
    /\ supply' = supply - s
    /\ wallet' = [wallet EXCEPT !.sy = @ - s]
    /\ InAdapter

Strip(s) ==
    /\ IsActive
    /\ VaultConverts
    /\ s > 0
    /\ s <= wallet.sy
    /\ wallet' = [pt |-> wallet.pt + SyToPy(rate, s),
                  yt |-> wallet.yt + SyToPy(rate, s), sy |-> wallet.sy - s]
    /\ UNCHANGED treasury
    /\ InVault

MergedUp(n) == PyToSyCeil(rate, n)
Merged(n) == PyToSy(rate, n)

(* No YT is burned once the vault has matured.                             *)
BurnedYt(n) == IF IsActive THEN n ELSE 0

Merge(n) ==
    /\ VaultConverts
    /\ n <= wallet.pt
    /\ BurnedYt(n) <= wallet.yt
    /\ wallet' = [pt |-> wallet.pt - n, yt |-> wallet.yt - BurnedYt(n),
                  sy |-> wallet.sy + Merged(n)]
    /\ UNCHANGED treasury
    /\ InVault

(* The SY that the vault holds, and what of it backs the PT.               *)
VaultSy == supply - (wallet.sy + held.sy + held.adapter + treasury)
PtValue == PyToSy(rate, wallet.pt + held.pt)

(* Interest is what the vault holds beyond that; emergencies do not stop   *)
(* its collection, and the high is not touched.                            *)
InterestFee(s) == FeeCeil(s, InterestBpsFee)

CollectInterest(s) ==
    /\ rate > 0
    /\ s + PtValue <= VaultSy
    /\ wallet' = [wallet EXCEPT !.sy = @ + (s - InterestFee(s))]
    /\ treasury' = treasury + InterestFee(s)
    /\ UNCHANGED vaultAth
    /\ InVault

BuyPt(n, max) == TradePtBuy(n) /\ wallet.sy - wallet'.sy <= max /\ InMarket
SellPt(n, min) == TradePtSell(n) /\ wallet'.sy - wallet.sy >= min /\ InMarket

AddLiquidity(p, s, min) ==
    /\ DepositLiquidity(p, s)
    /\ lp' - lp >= min
    /\ InMarket

RemoveLiquidity(n, minPt, minSy) ==
    /\ WithdrawLiquidity(n)
    /\ wallet'.pt - wallet.pt >= minPt
    /\ wallet'.sy - wallet.sy >= minSy
    /\ InMarket

-----------------------------------------------------------------------------
(* The wrappers: the first call and what is to follow.                     *)

Enter == AtRest /\ ~Running
Then(legs, floor) == call' = [todo |-> legs, floor |-> floor, undo |-> Undo]

StripLegs(s) == <<Leg("strip", s, 0, 0)>>
RedeemLegs == <<Leg("redeem", 0, 0, 0)>>

(* The SY to strip is what mint_sy returned.                               *)
WrapperStrip(b) ==
    Enter /\ MintSy(b) /\ Then(StripLegs(Minted(b)), 0)

WrapperMerge(n) ==
    Enter /\ Merge(n) /\ Then(RedeemLegs, Merged(n))

WrapperBuyPt(n, b, max) ==
    Enter /\ MintSy(b) /\ Then(<<Leg("buy_pt", n, 0, max)>>, 0)

WrapperSellPt(n, min) ==
    Enter /\ SellPt(n, min) /\ Then(RedeemLegs, min)

WrapperBuyYt(b, s, y) ==
    Enter /\ MintSy(b) /\ Then(<<Leg("buy_yt", s, y, 0)>>, 0)

WrapperSellYt(y, min) ==
    /\ Enter
    /\ SellYt(y)
    /\ wallet'.sy - wallet.sy >= min
    /\ InMarket
    /\ Then(RedeemLegs, min)

WrapperCollectInterest(s) ==
    Enter /\ CollectInterest(s) /\ Then(RedeemLegs, s - InterestFee(s))

WrapperProvideLiquidity(b, p, s, min) ==
    Enter /\ MintSy(b) /\ Then(<<Leg("deposit", p, s, min)>>, 0)

WrapperProvideLiquidityClassic(p, s, min) ==
    Enter /\ AddLiquidity(p, s, min) /\ UNCHANGED call

WrapperProvideLiquidityBase(b, p, max, s, min) ==
    /\ Enter
    /\ MintSy(b)
    /\ Then(<<Leg("buy_pt", p, 0, max), Leg("deposit", p, s, min)>>, 0)

WrapperWithdrawLiquidity(n, minPt, minSy) ==
    Enter /\ RemoveLiquidity(n, minPt, minSy) /\ Then(RedeemLegs, minSy)

WrapperWithdrawLiquidityClassic(n, minPt, minSy) ==
    Enter /\ RemoveLiquidity(n, minPt, minSy) /\ UNCHANGED call

(* The flash wrappers hand their arguments on and do nothing else.         *)
WrapperFlashSwapPt(n) == Enter /\ FlashSwapPt(n) /\ UNCHANGED routerVars
WrapperFlashSwapSy(n) == Enter /\ FlashSwapSy(n) /\ UNCHANGED routerVars
WrapperFlashSellYt(n, a) == Enter /\ FlashSellYt(n, a) /\ UNCHANGED routerVars

-----------------------------------------------------------------------------
(* The calls that follow.                                                  *)

Upcoming == call.todo[1]
Continues(op) == Running /\ Upcoming.op = op
Returns == call' = IF Len(call.todo) = 1 THEN NoCall
                   ELSE [call EXCEPT !.todo = Tail(@)]

(* The user's SY account as it is after the core's call, or before it.     *)
BalanceNotReloaded == call.undo.wallet.sy
SyBalance == wallet.sy

StripsMinted == Continues("strip") /\ Strip(Upcoming.n) /\ Returns
RedeemsAll == Continues("redeem") /\ RedeemSy(SyBalance) /\ Returns
BuysPt == Continues("buy_pt") /\ BuyPt(Upcoming.n, Upcoming.bound) /\ Returns
BuysYt == Continues("buy_yt") /\ BuyYt(Upcoming.n, Upcoming.m) /\ InMarket /\ Returns
Deposits ==
    Continues("deposit") /\ AddLiquidity(Upcoming.n, Upcoming.m, Upcoming.bound) /\ Returns

(* The next call fails, and the transaction with it.                       *)
WrapperFails ==
    /\ Running
    /\ base' = call.undo.base
    /\ pooled' = call.undo.pooled
    /\ supply' = call.undo.supply
    /\ market' = call.undo.market
    /\ lp' = call.undo.lp
    /\ held' = call.undo.held
    /\ wallet' = call.undo.wallet
    /\ treasury' = call.undo.treasury
    /\ limits' = call.undo.limits
    /\ vaultAth' = call.undo.vaultAth
    /\ call' = NoCall
    /\ UNCHANGED <<now, rate, settings, flash>>

(* Between wrappers: the clock, the adapter's authority, who never lowers  *)
(* the rate, and, inside a flash window, whatever its callback does.       *)
Meanwhile ==
    /\ ~Running
    /\ IF AtRest THEN Tick \/ SyRateMoves ELSE Next
    /\ rate' >= rate
    /\ UNCHANGED routerVars

-----------------------------------------------------------------------------

RouterInit ==
    /\ Init
    /\ base = Funds
    /\ pooled = InitialPooled
    /\ supply = InitialSupply
    /\ call = NoCall

RouterNext ==
    \/ \E b \in BaseAmounts : WrapperStrip(b)
    \/ \E n \in Amounts : WrapperMerge(n)
    \/ \E n \in Amounts, b \in BaseAmounts, x \in Maxima : WrapperBuyPt(n, b, x)
    \/ \E n \in Amounts, x \in Minima : WrapperSellPt(n, x)
    \/ \E b \in BaseAmounts, s, y \in Amounts : WrapperBuyYt(b, s, y)
    \/ \E y \in Amounts, x \in Minima : WrapperSellYt(y, x)
    \/ \E s \in Amounts : WrapperCollectInterest(s)
    \/ \E b \in BaseAmounts, p, s \in Intents, x \in Minima :
         WrapperProvideLiquidity(b, p, s, x)
    \/ \E p, s \in Intents, x \in Minima :
         WrapperProvideLiquidityClassic(p, s, x)
    \/ \E b \in BaseAmounts, p, s \in Intents, max \in Maxima, min \in Minima :
         WrapperProvideLiquidityBase(b, p, max, s, min)
    \/ \E n \in Amounts, x, y \in Minima : WrapperWithdrawLiquidity(n, x, y)
    \/ \E n \in Amounts, x, y \in Minima :
         WrapperWithdrawLiquidityClassic(n, x, y)
    \/ \E n \in Amounts : WrapperFlashSwapPt(n)
    \/ \E n \in Amounts : WrapperFlashSwapSy(n)
    \/ \E n, a \in Amounts : WrapperFlashSellYt(n, a)
    \/ StripsMinted
    \/ RedeemsAll
    \/ BuysPt
    \/ BuysYt
    \/ Deposits
    \/ WrapperFails
    \/ Meanwhile

RouterSpec == RouterInit /\ [][RouterNext]_allVars

-----------------------------------------------------------------------------

(* mint_sy and redeem_sy over any mix of wrappers and flash callbacks:     *)
(* while the rate has not been raised, all SY in existence, wherever it    *)
(* lies, can be redeemed from the adapter at once.                         *)
SyRedeemable ==
    (\A r \in Rates \ {0} : rate <= r) => Adapter!RedeemedFor(supply) <= pooled

(* strip, merge, collect_interest and the YT trades in wrappers and flash   *)
(* callbacks: the SY left in the vault redeems every PT, the market's too. *)
PtRedeemable == VaultSy >= PtValue

Undone == base' = call.undo.base /\ wallet' = call.undo.wallet

(* redeem_sy_cpi: a wrapper that sells for at least `floor` SY pays the    *)
(* user base for that and for the SY held before, or changes nothing.      *)
SaleReachesBase ==
    [][Running /\ ~Running' /\ Upcoming.op = "redeem" =>
         \/ Undone
         \/ base' >= call.undo.base
                 + Adapter!RedeemedFor(call.undo.wallet.sy + call.floor)]_allVars
=============================================================================
