------------------------------- MODULE MarketTwo -------------------------------
(***************************************************************************)
(* The PT/SY market of clearstone_core: an automated market maker whose    *)
(* reserves are tracked in the MarketTwo account while the tokens lie in   *)
(* two escrows and in the market's position with the SY program.           *)
(*                                                                         *)
(* One action is one instruction, except that the three flash instructions *)
(* hand control to a callback program in their middle: they are an opening *)
(* step, whatever happens meanwhile, and a closing step, or the failure of *)
(* the whole transaction.  An open flash is a frame of the call stack      *)
(* `flash`; the frame keeps the handler's in-memory copy of the account,   *)
(* which the closing step writes back without reading the account again.   *)
(* The handlers do not rely on the runtime to keep a callback from calling *)
(* them again, and neither does the model: only their flash_pt_debt gate   *)
(* stands in the way.                                                      *)
(*                                                                         *)
(* The curve (libraries/time_curve, f64) prices a trade.  What it answers  *)
(* is left open here: a quote is any SY amount and any fee of the given    *)
(* sets.  SY, PT, YT and LP tokens of all holders are one pool.            *)
(***************************************************************************)
EXTENDS FixedPoint, Sequences

CONSTANTS
    Rates,              \* exchange rates the SY program may report (scaled)
    ExpirationTs,       \* MarketFinancials::expiration_ts
    Horizon,            \* bound on the clock
    Amounts,            \* amounts an instruction may be given
    CurveSy, CurveFees, \* SY amounts and SY fees the curve may quote
    VirtualPt, VirtualSy, VirtualLp,
    FlashCapBps,        \* FLASH_MAX_PT_BPS
    MaxLpSupply,        \* MarketTwo::max_lp_supply
    MaxPct,             \* u32::MAX, also the initial limit of an increase
    MaxDepth,           \* bound on nested flash windows (CPI depth)
    InitialPools,       \* <<pt_init, sy_init>> of market_two_init
    InitialWallet,      \* tokens in circulation then
    Settings,           \* settings the curator may install
    InitialSettings,
    LimitChoices        \* limits the curator may install

VARIABLES
    now,                \* clock, seconds
    rate,               \* exchange rate of the SY program
    vaultAth,           \* highest rate the vault has taken over
    market,             \* reserves and flash fields of the MarketTwo account
    lp,                 \* supply of the LP mint
    held,               \* PT escrow, SY escrow, position with the SY program
    wallet,             \* circulating PT, YT and SY
    treasury,           \* SY paid to token_fee_treasury_sy
    settings,           \* MarketTwo::status_flags, fee_treasury_sy_bps
    limits,             \* MarketTwo::liquidity_net_balance_limits
    flash               \* stack of open flash windows

accounts == <<market, lp, held, wallet, treasury>>
vars == <<now, rate, vaultAth, accounts, settings, limits, flash>>

Flags == {"deposit_liquidity", "withdraw_liquidity", "buy_pt", "sell_pt",
          "buy_yt", "sell_yt"}

MarketRecord == [pt : Nat, sy : Nat, debt : Nat, isFlash : BOOLEAN]
SettingsRecord == [status : SUBSET Flags, feeBps : BasisPoints]
HeldRecord == [pt : Nat, sy : Nat, adapter : Nat]
WalletRecord == [pt : Nat, yt : Nat, sy : Nat]
LimitRecord == [maxNeg : Nat, maxPos : Nat, duration : Nat]

ASSUME MarketAssumptions ==
    /\ Rates \subseteq Nat /\ ExpirationTs \in Nat /\ Horizon \in Nat
    /\ Amounts \subseteq Nat /\ CurveSy \subseteq Nat /\ CurveFees \subseteq Nat
    /\ VirtualPt \in Nat \ {0} /\ VirtualSy \in Nat \ {0}
    /\ VirtualLp \in Nat \ {0}
    /\ FlashCapBps \in BasisPoints
    /\ MaxLpSupply \in Nat /\ MaxDepth \in Nat
    /\ MaxPct \in Nat /\ MaxPct >= 10000
    /\ InitialPools \subseteq Nat \X Nat
    /\ InitialWallet \in WalletRecord
    /\ Settings \subseteq SettingsRecord /\ InitialSettings \in SettingsRecord
    /\ LimitChoices \subseteq LimitRecord

-----------------------------------------------------------------------------

IsActive == now <= ExpirationTs

(* Without seconds left the curve's exchange rate is 1, which it refuses.  *)
IsPriced == now < ExpirationTs

(* The gate of every handler that changes the market.                      *)
GateMissing == market.debt >= 0
FlashClosed == market.debt = 0

AtRest == flash = <<>>

-----------------------------------------------------------------------------
(* Trades: quote_trade_pt and apply_trade_pt.                              *)

(* net_trader_sy, by magnitude, and the treasury's part of the fee.  The   *)
(* handlers reject a trade whose SY leg is zero.                           *)
Quotes == [sy : CurveSy \ {0},
           fee : {(f * settings.feeBps) \div 10000 : f \in CurveFees}]

Bought(m, n, q) == [m EXCEPT !.pt = @ - n, !.sy = @ + q.sy - q.fee]
PtNotCredited(m, n, q) == [m EXCEPT !.sy = @ - q.sy - q.fee]
FeeStaysTracked(m, n, q) == [m EXCEPT !.pt = @ + n, !.sy = @ - q.sy]
Sold(m, n, q) == [m EXCEPT !.pt = @ + n, !.sy = @ - q.sy - q.fee]

(* The tokens of a trade: the SY leg passes through the SY escrow into or  *)
(* out of the SY program.                                                  *)
HeldBought(h, n, q) == [h EXCEPT !.pt = @ - n, !.adapter = @ + q.sy - q.fee]
HeldSold(h, n, q) == [h EXCEPT !.pt = @ + n, !.adapter = @ - q.sy - q.fee]

CanBuyUnchecked(n, q) ==
    /\ "buy_pt" \in settings.status
    /\ IsPriced
    /\ rate > 0
    /\ n > 0
    /\ q.fee <= q.sy
CanBuy(n, q) ==
    /\ "buy_pt" \in settings.status
    /\ IsPriced
    /\ rate > 0
    /\ n > 0
    /\ q.fee <= q.sy
    /\ market.pt >= n

CanSell(n, q) ==
    /\ "sell_pt" \in settings.status
    /\ IsPriced
    /\ rate > 0
    /\ n > 0
    /\ market.sy >= q.sy + q.fee

-----------------------------------------------------------------------------
(* Liquidity: the share arithmetic of time_curve on virtualised reserves.  *)

LpVirtual == lp + VirtualLp

(* LP tokens for an intended amount of one reserve, and what the other     *)
(* reserve must be given with them, rounded up.                            *)
SharesFor(intent, reserve) == (LpVirtual * intent) \div reserve
MatchFloor(intent, reserve, other) == (other * intent) \div reserve
Match(intent, reserve, other) ==
    (other * LpVirtual * intent + (LpVirtual - 1) * reserve)
        \div (reserve * LpVirtual)

(* The side that yields fewer LP tokens decides.                           *)
Added(ptIntent, syIntent) ==
    LET p == market.pt + VirtualPt
        s == market.sy + VirtualSy
    IN IF ptIntent * s < syIntent * p
       THEN [pt |-> ptIntent, sy |-> Match(ptIntent, p, s),
             lp |-> SharesFor(ptIntent, p)]
       ELSE [pt |-> Match(syIntent, s, p), sy |-> syIntent,
             lp |-> SharesFor(syIntent, s)]

(* Never more than the real reserve.                                       *)
Removed(lpIn) ==
    [pt |-> Smaller(((market.pt + VirtualPt) * lpIn) \div LpVirtual, market.pt),
     sy |-> Smaller(((market.sy + VirtualSy) * lpIn) \div LpVirtual, market.sy)]

(* LiquidityNetBalanceLimits::verify_limits.  A change against an empty    *)
(* start balance is infinite (an f64 division by zero).                    *)
WindowElapsed == now > limits.start + limits.duration
WindowBalance == IF WindowElapsed THEN lp ELSE limits.balance

PctChange(change, start) ==
    IF start = 0 THEN IF change = 0 THEN 0 ELSE MaxPct
    ELSE Smaller(MaxPct, (change * 10000) \div start)

MeasuredPerStep(newLp) ==
    /\ newLp >= lp \/ PctChange(lp - newLp, lp) <= limits.maxNeg
    /\ limits' = [limits EXCEPT !.start = IF WindowElapsed THEN now ELSE @,
                                !.balance = WindowBalance]
VerifyLimits(newLp) ==
    /\ IF newLp >= WindowBalance
       THEN PctChange(newLp - WindowBalance, WindowBalance) <= limits.maxPos
       ELSE PctChange(WindowBalance - newLp, WindowBalance) <= limits.maxNeg
    /\ limits' = [limits EXCEPT !.start = IF WindowElapsed THEN now ELSE @,
                                !.balance = WindowBalance]

-----------------------------------------------------------------------------
(* The initial state: market_two_init.                                     *)

IsIntegerSqrt(r, n) == r * r <= n /\ n < (r + 1) * (r + 1)

InitialLp(root) == Larger(0, root - VirtualLp)

(* The SY of the pool is deposited with the SY program at once.            *)
Seeded(pool) ==
    /\ market = [pt |-> pool[1], sy |-> pool[2], debt |-> 0, isFlash |-> FALSE]
    /\ LET product == (pool[1] + VirtualPt) * (pool[2] + VirtualSy)
       IN \E root \in 0..product :
            /\ IsIntegerSqrt(root, product)
            /\ lp = InitialLp(root)
    /\ held = [pt |-> pool[1], sy |-> 0, adapter |-> pool[2]]

Init ==
    /\ now = 0
    /\ rate \in Rates \ {0}
    /\ vaultAth = 0
    /\ \E pool \in InitialPools : Seeded(pool)
    /\ wallet = InitialWallet
    /\ treasury = 0
    /\ settings = InitialSettings
    /\ limits = [start |-> 0, balance |-> 0, maxNeg |-> 10000,
                 maxPos |-> MaxPct, duration |-> 0]
    /\ flash = <<>>

-----------------------------------------------------------------------------
(* The environment.                                                        *)

(* The clock stands still while a transaction runs.                        *)
Tick ==
    /\ AtRest
    /\ now < Horizon
    /\ now' = now + 1
    /\ UNCHANGED <<rate, vaultAth, accounts, settings, limits, flash>>

SyRateMoves ==
    /\ \E r \in Rates \ {rate} : rate' = r
    /\ UNCHANGED <<now, vaultAth, accounts, settings, limits, flash>>

(* Anybody may send tokens to an escrow: a callback that repays, or a      *)
(* donation.                                                               *)
TransferPtIn(n) ==
    /\ wallet.pt >= n
    /\ wallet' = [wallet EXCEPT !.pt = @ - n]
    /\ held' = [held EXCEPT !.pt = @ + n]
    /\ UNCHANGED <<now, rate, vaultAth, market, lp, treasury, settings, limits, flash>>

TransferSyIn(n) ==
    /\ wallet.sy >= n
    /\ wallet' = [wallet EXCEPT !.sy = @ - n]
    /\ held' = [held EXCEPT !.sy = @ + n]
    /\ UNCHANGED <<now, rate, vaultAth, market, lp, treasury, settings, limits, flash>>

-----------------------------------------------------------------------------
(* Spot trades and liquidity.                                              *)

TradePtBuy(n) ==
    /\ FlashClosed
    /\ \E q \in Quotes :
        /\ CanBuy(n, q)
        /\ wallet.sy >= q.sy
        /\ held.pt >= n
        /\ market' = Bought(market, n, q)
        /\ held' = HeldBought(held, n, q)
        /\ wallet' = [wallet EXCEPT !.pt = @ + n, !.sy = @ - q.sy]
        /\ treasury' = treasury + q.fee
    /\ UNCHANGED <<now, rate, vaultAth, lp, settings, limits, flash>>

TradePtSell(n) ==
    /\ FlashClosed
    /\ wallet.pt >= n
    /\ \E q \in Quotes :
        /\ CanSell(n, q)
        /\ held.adapter >= q.sy + q.fee
        /\ market' = Sold(market, n, q)
        /\ held' = HeldSold(held, n, q)
        /\ wallet' = [wallet EXCEPT !.pt = @ - n, !.sy = @ + q.sy]
        /\ treasury' = treasury + q.fee
    /\ UNCHANGED <<now, rate, vaultAth, lp, settings, limits, flash>>

DepositLiquidity(ptIntent, syIntent) ==
    LET r == Added(ptIntent, syIntent)
    IN /\ FlashClosed
       /\ IsActive
       /\ "deposit_liquidity" \in settings.status
       /\ VerifyLimits(lp + r.lp)
       /\ wallet.pt >= r.pt
       /\ wallet.sy >= r.sy
       /\ lp + r.lp <= MaxLpSupply
       /\ lp' = lp + r.lp
       /\ market' = [market EXCEPT !.pt = @ + r.pt, !.sy = @ + r.sy]
       /\ held' = [held EXCEPT !.pt = @ + r.pt, !.adapter = @ + r.sy]
       /\ wallet' = [wallet EXCEPT !.pt = @ - r.pt, !.sy = @ - r.sy]
       /\ UNCHANGED <<now, rate, vaultAth, treasury, settings, flash>>

WithdrawLiquidity(lpIn) ==
    LET r == Removed(lpIn)
    IN /\ FlashClosed
       /\ "withdraw_liquidity" \in settings.status
       /\ lpIn <= lp
       /\ VerifyLimits(lp - lpIn)
       /\ held.adapter >= r.sy
       /\ held.pt >= r.pt
       /\ lp' = lp - lpIn
       /\ market' = [market EXCEPT !.pt = @ - r.pt, !.sy = @ - r.sy]
       /\ held' = [held EXCEPT !.pt = @ - r.pt, !.adapter = @ - r.sy]
       /\ wallet' = [wallet EXCEPT !.pt = @ + r.pt, !.sy = @ + r.sy]
       /\ UNCHANGED <<now, rate, vaultAth, treasury, settings, flash>>

-----------------------------------------------------------------------------
(* YT trades: a spot trade between a loan from the market and a strip or a *)
(* merge of the vault.  The vault strips and merges at par, and not at all *)
(* while the rate is below the highest one it has taken over.              *)

VaultConverts == rate >= vaultAth /\ vaultAth' = rate

(* Sells the PT of a strip, so that syIn buys all of the strip's YT.  What *)
(* the sale brings beyond the loan is left to the market, untracked.       *)
BuyYt(syIn, ytOut) ==
    /\ FlashClosed
    /\ "buy_yt" \in settings.status
    /\ VaultConverts
    /\ rate > 0
    /\ LET strip == PyToSyCeil(rate, ytOut)
           loan == strip - syIn
           py == SyToPy(rate, strip)
       IN /\ syIn > 0 /\ loan > 0
          /\ wallet.sy >= syIn
          /\ \E q \in Quotes :
              /\ CanSell(py, q)
              /\ q.sy >= loan
              /\ held.adapter >= loan + q.sy + q.fee
              /\ market' = [Sold(market, py, q) EXCEPT !.isFlash = TRUE]
              /\ held' = [HeldSold(held, py, q) EXCEPT !.adapter = @ + q.sy - loan]
              /\ treasury' = treasury + q.fee
          /\ wallet' = [wallet EXCEPT !.sy = @ - syIn, !.yt = @ + py]
    /\ UNCHANGED <<now, rate, lp, settings, limits, flash>>

(* Merges n YT with n borrowed PT and buys back the PT to return it.       *)
SellYt(n) ==
    /\ FlashClosed
    /\ "sell_yt" \in settings.status
    /\ VaultConverts
    /\ market.pt >= 2 * n
    /\ wallet.yt >= n
    /\ \E q \in Quotes :
        /\ CanBuy(n, q)
        /\ q.sy <= PyToSy(rate, n)
        /\ held.pt >= 2 * n
        /\ market' = [Bought(market, n, q) EXCEPT !.isFlash = FALSE]
        /\ held' = HeldBought(held, n, q)
        /\ wallet' = [wallet EXCEPT !.yt = @ - n,
                                    !.sy = @ + PyToSy(rate, n) - q.sy]
        /\ treasury' = treasury + q.fee
    /\ UNCHANGED <<now, rate, lp, settings, limits, flash>>

-----------------------------------------------------------------------------
(* Flash windows.                                                          *)

Top == flash[Len(flash)]
Pop == SubSeq(flash, 1, Len(flash) - 1)

(* Opening writes the debt to the account; `undo` is what the runtime      *)
(* restores if the transaction fails.                                      *)
Open(kind, n, q, advance, before) ==
    /\ Len(flash) < MaxDepth
    /\ market' = [market EXCEPT !.debt = n]
    /\ flash' = Append(flash,
          [kind |-> kind, pt |-> n, quote |-> q, advance |-> advance,
           before |-> before, mem |-> market,
           undo |-> [market |-> market, lp |-> lp, held |-> held,
                     wallet |-> wallet, treasury |-> treasury]])

(* The in-memory copy m of a handler at its end.                           *)
DebtKept(m) == [m EXCEPT !.debt = Top.pt]
DebtCleared(m) == [m EXCEPT !.debt = 0]

WithinCap(n) == n > 0 /\ n <= (market.pt * FlashCapBps) \div 10000

FlashSwapPt(n) ==
    /\ FlashClosed
    /\ WithinCap(n)
    /\ \E q \in Quotes :
        /\ CanBuy(n, q)
        /\ held.pt >= n
        /\ Open("pt", n, q, 0, held.sy)
    /\ held' = [held EXCEPT !.pt = @ - n]
    /\ wallet' = [wallet EXCEPT !.pt = @ + n]
    /\ UNCHANGED <<now, rate, vaultAth, lp, treasury, settings, limits>>

(* The repayment stays in the SY escrow, less the treasury's fee.          *)
FlashSwapPtRepaid ==
    /\ ~AtRest
    /\ Top.kind = "pt"
    /\ LET q == Top.quote
       IN /\ held.sy >= Top.before + q.sy + q.fee
          /\ held' = [held EXCEPT !.sy = @ - q.fee]
          /\ treasury' = treasury + q.fee
          /\ market' = DebtCleared(Bought(Top.mem, Top.pt, q))
    /\ flash' = Pop
    /\ UNCHANGED <<now, rate, vaultAth, lp, wallet, settings, limits>>

(* Only the SY program checks here that the SY is there; the tracked       *)
(* reserve is checked when it is reduced, at the end.                      *)
FlashSwapSy(n) ==
    /\ FlashClosed
    /\ "sell_pt" \in settings.status
    /\ WithinCap(n)
    /\ IsPriced
    /\ rate > 0
    /\ \E q \in Quotes :
        /\ held.adapter >= q.sy + q.fee
        /\ Open("sy", n, q, 0, held.pt)
        /\ held' = [held EXCEPT !.adapter = @ - q.sy - q.fee,
                                !.sy = @ + q.fee]
        /\ wallet' = [wallet EXCEPT !.sy = @ + q.sy]
    /\ UNCHANGED <<now, rate, vaultAth, lp, treasury, settings, limits>>

FlashSwapSyRepaid ==
    /\ ~AtRest
    /\ Top.kind = "sy"
    /\ LET q == Top.quote
       IN /\ held.pt >= Top.before + Top.pt
          /\ held.sy >= q.fee
          /\ Top.mem.sy >= q.sy + q.fee
          /\ held' = [held EXCEPT !.sy = @ - q.fee]
          /\ treasury' = treasury + q.fee
          /\ market' = DebtCleared(Sold(Top.mem, Top.pt, q))
    /\ flash' = Pop
    /\ UNCHANGED <<now, rate, vaultAth, lp, wallet, settings, limits>>

FlashSellYt(n, advance) ==
    /\ FlashClosed
    /\ "sell_yt" \in settings.status
    /\ WithinCap(n)
    /\ market.pt >= 2 * n
    /\ IsActive
    /\ rate > 0
    /\ held.adapter >= advance
    /\ Open("yt", n, [sy |-> 0, fee |-> 0], advance, 0)
    /\ held' = [held EXCEPT !.adapter = @ - advance]
    /\ wallet' = [wallet EXCEPT !.sy = @ + advance]
    /\ UNCHANGED <<now, rate, vaultAth, lp, treasury, settings, limits>>

(* The callback has brought the YT: the handler clears the debt, sells the *)
(* YT as SellYt does, at the rate of that moment, and takes back the       *)
(* advance.                                                                *)
FlashSellYtDelivered ==
    /\ ~AtRest
    /\ Top.kind = "yt"
    /\ VaultConverts
    /\ wallet.yt >= Top.pt
    /\ held.pt >= 2 * Top.pt
    /\ \E q \in Quotes :
        /\ "buy_pt" \in settings.status
        /\ IsPriced
        /\ rate > 0
        /\ q.fee <= q.sy
        /\ PyToSy(rate, Top.pt) >= q.sy + Top.advance
        /\ market' = [DebtCleared(Bought(Top.mem, Top.pt, q)) EXCEPT !.isFlash = TRUE]
        /\ held' = [HeldBought(held, Top.pt, q) EXCEPT !.adapter = @ + Top.advance]
        /\ wallet' = [wallet EXCEPT !.yt = @ - Top.pt,
                                    !.sy = @ + PyToSy(rate, Top.pt) - q.sy - Top.advance]
        /\ treasury' = treasury + q.fee
    /\ flash' = Pop
    /\ UNCHANGED <<now, rate, lp, settings, limits>>

(* The callback, a check after it or an inner instruction fails: a failed  *)
(* CPI fails the transaction, from its outermost window on.                *)
TransactionFails ==
    /\ ~AtRest
    /\ market' = flash[1].undo.market
    /\ lp' = flash[1].undo.lp
    /\ held' = flash[1].undo.held
    /\ wallet' = flash[1].undo.wallet
    /\ treasury' = flash[1].undo.treasury
    /\ flash' = <<>>
    /\ UNCHANGED <<now, rate, vaultAth, settings, limits>>

-----------------------------------------------------------------------------
(* The curator, between transactions.  These handlers have no flash_pt_debt *)
(* gate: the runtime's rule against re-entering a program keeps a callback *)
(* from calling them.                                                      *)

(* SetStatus and LowerTreasuryTradeSyBpsFee.                               *)
ModifyMarketSetting ==
    /\ AtRest
    /\ \E s \in Settings \ {settings} :
        /\ s.feeBps <= settings.feeBps
        /\ settings' = s
    /\ UNCHANGED <<now, rate, vaultAth, accounts, limits, flash>>

(* The window starts now, but keeps the balance of the window before.      *)
ChangeLiquidityNetBalanceLimits ==
    /\ AtRest
    /\ \E c \in LimitChoices :
        limits' = [start |-> now, balance |-> limits.balance,
                   maxNeg |-> c.maxNeg, maxPos |-> c.maxPos,
                   duration |-> c.duration]
    /\ UNCHANGED <<now, rate, vaultAth, accounts, settings, flash>>

-----------------------------------------------------------------------------

Next ==
    \/ Tick
    \/ SyRateMoves
    \/ \E n \in Amounts : TransferPtIn(n)
    \/ \E n \in Amounts : TransferSyIn(n)
    \/ \E n \in Amounts : TradePtBuy(n)
    \/ \E n \in Amounts : TradePtSell(n)
    \/ \E p, s \in Amounts : DepositLiquidity(p, s)
    \/ \E n \in Amounts : WithdrawLiquidity(n)
    \/ \E s, y \in Amounts : BuyYt(s, y)
    \/ \E n \in Amounts : SellYt(n)
    \/ \E n \in Amounts : FlashSwapPt(n)
    \/ FlashSwapPtRepaid
    \/ \E n \in Amounts : FlashSwapSy(n)
    \/ FlashSwapSyRepaid
    \/ \E n, a \in Amounts : FlashSellYt(n, a)
    \/ FlashSellYtDelivered
    \/ TransactionFails
    \/ ModifyMarketSetting
    \/ ChangeLiquidityNetBalanceLimits

Spec == Init /\ [][Next]_vars

-----------------------------------------------------------------------------
(* Properties.                                                             *)

(* Every balance, tracked or real, is a natural number: no handler reaches *)
(* an underflow that it does not check.                                    *)
TypeOK ==
    /\ now \in Nat /\ rate \in Nat /\ vaultAth \in Nat /\ lp \in Nat /\ treasury \in Nat
    /\ market \in MarketRecord
    /\ held \in HeldRecord
    /\ wallet \in WalletRecord
    /\ settings \in SettingsRecord
    /\ limits \in [start : Nat, balance : Nat, maxNeg : Nat, maxPos : Nat,
                   duration : Nat]

(* What an open window has lent out of the escrows.                        *)
LentPt == IF ~AtRest /\ Top.kind = "pt" THEN Top.pt ELSE 0
LentSy == IF AtRest THEN 0 ELSE
          CASE Top.kind = "pt" -> 0
            [] Top.kind = "sy" -> Top.quote.sy
            [] Top.kind = "yt" -> Top.advance

(* I-M1 and I-F4, up to donations: the market holds the reserves it        *)
(* tracks, less what an open flash window has lent, so a trade is never    *)
(* priced against a phantom reserve.                                       *)
ReservesHeld ==
    /\ held.pt + LentPt >= market.pt
    /\ held.sy + held.adapter + LentSy >= market.sy

(* I-F1: the debt is on the account exactly while a window is open, and    *)
(* there is one window.  A debt left behind would lock the market.         *)
DebtMarksWindow ==
    /\ AtRest <=> market.debt = 0
    /\ Len(flash) <= 1

(* I-F1: while a window stays open no instruction moves the market, so the *)
(* copy that the handler writes back at its end loses no update.           *)
WindowIsolated ==
    [][~AtRest /\ flash' = flash => market' = market /\ lp' = lp]_vars

(* The market keeps what an atomic pool promises: a flash is one trade,    *)
(* no LP token is minted or burned outside liquidity operations, and no    *)
(* liquidity operation dilutes the other providers (I-M2, I-M3).           *)
Pool == INSTANCE AtomicPool WITH pt <- market.pt, sy <- market.sy
ImplementsPool == Pool!PoolSpec

(* The liquidity withdrawn within one window never exceeds the window's    *)
(* share of the LP supply at its start.                                    *)
WithdrawalBounded ==
    [][lp' < lp /\ lp' < limits'.balance =>
          (limits'.balance - lp') * 10000 < (limits.maxNeg + 1) * limits'.balance]_vars

(* "at rest [token_sy_escrow] sits at zero because all liquidity lives     *)
(* inside the SY adapter's pool" (flash_swap_sy.rs): between transactions  *)
(* the position with the SY program covers the tracked reserve.            *)
AdapterHoldsReserve == AtRest => held.adapter >= market.sy

(* "If the market is currently performing a flash swap, the fee is         *)
(* relative to the borrowed amount" (time_curve): the flag that selects    *)
(* this fee is not set between transactions.                               *)
FlashFeeOnlyInFlash == AtRest => ~market.isFlash

(* "changes from window start" (verify_limits): a window that starts now   *)
(* is measured against the LP supply of now.                               *)
WindowMeasuredFromStart ==
    [][limits'.start # limits.start => limits'.balance = lp]_vars
=============================================================================
