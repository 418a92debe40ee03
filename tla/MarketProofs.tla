----------------------------- MODULE MarketProofs -----------------------------
(***************************************************************************)
(* The safety of MarketTwo, for every pool, curve, callback and setting:   *)
(* types, reserves, flash windows, and the refinement of AtomicPool.       *)
(***************************************************************************)
EXTENDS MarketTwo, ArithmeticTheorems

QuoteRecord == [sy : Nat, fee : Nat]

LimitsRecord == [start : Nat, balance : Nat, maxNeg : Nat, maxPos : Nat,
                 duration : Nat]
UndoRecord == [market : MarketRecord, lp : Nat, held : HeldRecord,
               wallet : WalletRecord, treasury : Nat]
FrameRecord == [kind : {"pt", "sy", "yt"}, pt : Nat \ {0}, quote : QuoteRecord,
                advance : Nat, before : Nat, mem : MarketRecord,
                undo : UndoRecord]

(* The tokens x of PT and y of SY cover the reserves of m.                 *)
Covers(x, y, m) == x >= m.pt /\ y >= m.sy

(* No window is open.                                                      *)
RestOK ==
    /\ flash = <<>>
    /\ market.debt = 0
    /\ Covers(held.pt, held.sy + held.adapter, market)

(* The window f is open, and the market is as its handler left it.         *)
WindowOK(f) ==
    /\ flash = <<f>>
    /\ f \in FrameRecord
    /\ market.debt = f.pt /\ market.pt = f.mem.pt /\ market.sy = f.mem.sy
    /\ f.mem.debt = 0
    /\ f.undo.market = f.mem /\ f.undo.lp = lp
    /\ Covers(f.undo.held.pt, f.undo.held.sy + f.undo.held.adapter, f.mem)
    /\ f.kind = "pt" =>
        /\ f.pt <= f.mem.pt /\ f.quote.fee <= f.quote.sy
        /\ Covers(held.pt + f.pt, held.sy + held.adapter, f.mem)
        /\ f.before + held.adapter >= f.mem.sy
    /\ f.kind = "sy" =>
        /\ f.quote.sy > 0
        /\ Covers(held.pt, held.sy + held.adapter + f.quote.sy, f.mem)
        /\ f.before >= f.mem.pt
    /\ f.kind = "yt" =>
        /\ 2 * f.pt <= f.mem.pt
        /\ Covers(held.pt, held.sy + held.adapter + f.advance, f.mem)

(* The inductive invariant.                                                *)
IInv ==
    /\ TypeOK
    /\ RestOK \/ \E f \in FrameRecord : WindowOK(f)

(* A step of the atomic pool, or a stutter.                                *)
PoolStep == Pool!PoolNext \/ UNCHANGED <<market.pt, market.sy, lp>>

-----------------------------------------------------------------------------
(* The operators of a trade.                                               *)

(* A purchase of PT within the reserve: the account after it.              *)
LEMMA BoughtFields ==
    ASSUME NEW m \in MarketRecord, NEW n \in Nat, NEW q \in QuoteRecord,
           n <= m.pt, q.fee <= q.sy
    PROVE  /\ Bought(m, n, q) \in MarketRecord
           /\ Bought(m, n, q).pt = m.pt - n
           /\ Bought(m, n, q).sy = m.sy + q.sy - q.fee
           /\ Bought(m, n, q).debt = m.debt
<1>1. PICK x \in Nat, y \in Nat : x = m.pt - n /\ y = m.sy + q.sy - q.fee
    BY DEF MarketRecord, QuoteRecord
<1>2. Bought(m, n, q) = [m EXCEPT !.pt = x, !.sy = y]
    BY <1>1 DEF Bought
<1>3. /\ [m EXCEPT !.pt = x, !.sy = y] \in MarketRecord
      /\ [m EXCEPT !.pt = x, !.sy = y].pt = x
      /\ [m EXCEPT !.pt = x, !.sy = y].sy = y
      /\ [m EXCEPT !.pt = x, !.sy = y].debt = m.debt
    BY ONLY m \in MarketRecord, x \in Nat, y \in Nat DEF MarketRecord
<1> QED BY ONLY <1>1, <1>2, <1>3

(* A sale of PT within the SY reserve: the account after it.               *)
LEMMA SoldFields ==
    ASSUME NEW m \in MarketRecord, NEW n \in Nat, NEW q \in QuoteRecord,
           q.sy + q.fee <= m.sy
    PROVE  /\ Sold(m, n, q) \in MarketRecord
           /\ Sold(m, n, q).pt = m.pt + n
           /\ Sold(m, n, q).sy = m.sy - q.sy - q.fee
           /\ Sold(m, n, q).debt = m.debt
<1>1. PICK x \in Nat, y \in Nat :
        x = m.pt + n /\ y = m.sy - q.sy - q.fee
    BY DEF MarketRecord, QuoteRecord
<1>2. Sold(m, n, q) = [m EXCEPT !.pt = x, !.sy = y]
    BY <1>1 DEF Sold
<1>3. /\ [m EXCEPT !.pt = x, !.sy = y] \in MarketRecord
      /\ [m EXCEPT !.pt = x, !.sy = y].pt = x
      /\ [m EXCEPT !.pt = x, !.sy = y].sy = y
      /\ [m EXCEPT !.pt = x, !.sy = y].debt = m.debt
    BY ONLY m \in MarketRecord, x \in Nat, y \in Nat DEF MarketRecord
<1> QED BY ONLY <1>1, <1>2, <1>3

(* A purchase of PT within the escrow: the escrows after it.               *)
LEMMA HeldBoughtFields ==
    ASSUME NEW h \in HeldRecord, NEW n \in Nat, NEW q \in QuoteRecord,
           n <= h.pt, q.fee <= q.sy
    PROVE  /\ HeldBought(h, n, q) \in HeldRecord
           /\ HeldBought(h, n, q).pt = h.pt - n
           /\ HeldBought(h, n, q).sy = h.sy
           /\ HeldBought(h, n, q).adapter = h.adapter + q.sy - q.fee
<1>1. PICK x \in Nat, y \in Nat :
        x = h.pt - n /\ y = h.adapter + q.sy - q.fee
    BY DEF HeldRecord, QuoteRecord
<1>2. HeldBought(h, n, q) = [h EXCEPT !.pt = x, !.adapter = y]
    BY <1>1 DEF HeldBought
<1>3. /\ [h EXCEPT !.pt = x, !.adapter = y] \in HeldRecord
      /\ [h EXCEPT !.pt = x, !.adapter = y].pt = x
      /\ [h EXCEPT !.pt = x, !.adapter = y].adapter = y
      /\ [h EXCEPT !.pt = x, !.adapter = y].sy = h.sy
    BY ONLY h \in HeldRecord, x \in Nat, y \in Nat DEF HeldRecord
<1> QED BY ONLY <1>1, <1>2, <1>3

(* A sale of PT within the SY position: the escrows after it.              *)
LEMMA HeldSoldFields ==
    ASSUME NEW h \in HeldRecord, NEW n \in Nat, NEW q \in QuoteRecord,
           q.sy + q.fee <= h.adapter
    PROVE  /\ HeldSold(h, n, q) \in HeldRecord
           /\ HeldSold(h, n, q).pt = h.pt + n
           /\ HeldSold(h, n, q).sy = h.sy
           /\ HeldSold(h, n, q).adapter = h.adapter - q.sy - q.fee
<1>1. PICK x \in Nat, y \in Nat :
        x = h.pt + n /\ y = h.adapter - q.sy - q.fee
    BY DEF HeldRecord, QuoteRecord
<1>2. HeldSold(h, n, q) = [h EXCEPT !.pt = x, !.adapter = y]
    BY <1>1 DEF HeldSold
<1>3. /\ [h EXCEPT !.pt = x, !.adapter = y] \in HeldRecord
      /\ [h EXCEPT !.pt = x, !.adapter = y].pt = x
      /\ [h EXCEPT !.pt = x, !.adapter = y].adapter = y
      /\ [h EXCEPT !.pt = x, !.adapter = y].sy = h.sy
    BY ONLY h \in HeldRecord, x \in Nat, y \in Nat DEF HeldRecord
<1> QED BY ONLY <1>1, <1>2, <1>3

(* Every quote is a pair of natural numbers with a positive SY leg.        *)
LEMMA QuoteType ==
    ASSUME TypeOK, NEW q \in Quotes
    PROVE  q \in QuoteRecord /\ q.sy > 0
<1>1. settings.feeBps \in Nat
    <2>1. settings \in SettingsRecord
        BY DEF TypeOK
    <2>2. settings.feeBps \in BasisPoints
        BY ONLY <2>1 DEF SettingsRecord
    <2> QED BY ONLY <2>2, BasisPointsNat
<1>2. \A f \in CurveFees : (f * settings.feeBps) \div 10000 \in Nat
    <2> TAKE f \in CurveFees
    <2>1. f \in Nat
        BY MarketAssumptions
    <2>2. f * settings.feeBps \in Nat
        BY ONLY <1>1, <2>1, ProductNat
    <2> QED BY ONLY <2>2, DivNat
<1>3. /\ q = [sy |-> q.sy, fee |-> q.fee]
      /\ q.sy \in CurveSy \ {0}
      /\ \E f \in CurveFees : q.fee = (f * settings.feeBps) \div 10000
    BY DEF Quotes
<1>4. q.sy \in Nat \ {0} /\ q.fee \in Nat
    BY <1>2, <1>3, MarketAssumptions
<1> QED BY ONLY <1>3, <1>4 DEF QuoteRecord

-----------------------------------------------------------------------------
(* Steps of the pool.                                                      *)

(* PT leaves the reserve, SY does not: a purchase from the pool.           *)
LEMMA PoolBuys ==
    ASSUME market \in MarketRecord, market' \in MarketRecord, lp \in Nat, lp' = lp,
           market'.pt < market.pt, market'.sy >= market.sy
    PROVE  PoolStep
    BY DEF PoolStep, Pool!PoolNext, Pool!BuyPt, MarketRecord

(* PT enters the reserve and SY leaves it: a sale to the pool.             *)
LEMMA PoolSells ==
    ASSUME market \in MarketRecord, market' \in MarketRecord, lp \in Nat, lp' = lp,
           market'.pt > market.pt, market'.sy < market.sy
    PROVE  PoolStep
    BY DEF PoolStep, Pool!PoolNext, Pool!SellPt, MarketRecord

(* The fields that arithmetic needs are natural numbers.                   *)
LEMMA Ranges ==
    ASSUME NEW m \in MarketRecord, NEW h \in HeldRecord, NEW q \in QuoteRecord
    PROVE  /\ m.pt \in Nat /\ m.sy \in Nat /\ m.debt \in Nat
           /\ h.pt \in Nat /\ h.sy \in Nat /\ h.adapter \in Nat
           /\ q.sy \in Nat /\ q.fee \in Nat
    BY DEF MarketRecord, HeldRecord, QuoteRecord

(* A closed gate means that no window is open.                             *)
LEMMA GateShut ==
    ASSUME IInv, FlashClosed
    PROVE  TypeOK /\ RestOK
<1>1. ASSUME NEW f \in FrameRecord, WindowOK(f)
      PROVE  FALSE
    <2>1. f.pt \in Nat \ {0} /\ market.debt = f.pt /\ market.debt = 0
        BY <1>1 DEF FrameRecord, WindowOK, FlashClosed
    <2> QED BY ONLY <2>1
<1> QED BY <1>1 DEF IInv

(* No window is open once the gate is; while one is, no handler gets in.   *)
LEMMA OpenShutsGate ==
    ASSUME IInv, ~AtRest
    PROVE  ~FlashClosed
<1>1. ~RestOK
    BY DEF RestOK, AtRest
<1> QED BY <1>1, GateShut, Zenon

LEMMA GateHolds ==
    ASSUME ~FlashClosed, NEW n, NEW m
    PROVE  /\ ~TradePtBuy(n) /\ ~TradePtSell(n) /\ ~DepositLiquidity(n, m)
           /\ ~WithdrawLiquidity(n) /\ ~BuyYt(n, m) /\ ~SellYt(n)
           /\ ~FlashSwapPt(n) /\ ~FlashSwapSy(n) /\ ~FlashSellYt(n, m)
<1>1. ~TradePtBuy(n) /\ ~TradePtSell(n)
    BY DEF TradePtBuy, TradePtSell
<1>2. ~DepositLiquidity(n, m) /\ ~WithdrawLiquidity(n)
    BY DEF DepositLiquidity, WithdrawLiquidity
<1>3. ~BuyYt(n, m)
    BY DEF BuyYt
<1>4. ~SellYt(n)
    BY DEF SellYt
<1>5. ~FlashSwapPt(n) /\ ~FlashSwapSy(n) /\ ~FlashSellYt(n, m)
    BY DEF FlashSwapPt, FlashSwapSy, FlashSellYt
<1> QED BY <1>1, <1>2, <1>3, <1>4, <1>5

-----------------------------------------------------------------------------
(* The handlers that need a closed gate.                                   *)

(* A step that keeps the fields typed keeps the type invariant.            *)
LEMMA TypeStep ==
    ASSUME TypeOK, UNCHANGED <<now, settings>>,
           rate' \in Nat, vaultAth' \in {vaultAth, rate},
           market' \in MarketRecord, held' \in HeldRecord,
           wallet' \in WalletRecord, treasury' \in Nat, lp' \in Nat,
           limits' \in LimitsRecord
    PROVE  TypeOK'
    BY DEF TypeOK, LimitsRecord

(* A step outside a window that leaves none open.                          *)
LEMMA RestStep ==
    ASSUME TypeOK, RestOK, flash' = flash,
           UNCHANGED <<now, rate, settings>>, vaultAth' \in {vaultAth, rate},
           market' \in MarketRecord, held' \in HeldRecord,
           wallet' \in WalletRecord, treasury' \in Nat, lp' \in Nat,
           limits' \in LimitsRecord,
           market'.debt = market.debt,
           Covers(held'.pt, held'.sy + held'.adapter, market')
    PROVE  IInv'
<1>1. TypeOK'
    BY TypeStep DEF TypeOK
<1>2. RestOK'
    BY DEF RestOK, Covers
<1> QED BY ONLY <1>1, <1>2 DEF IInv

(* trade_pt, buying.                                                       *)
LEMMA TradePtBuyInv ==
    ASSUME IInv, NEW n \in Nat, TradePtBuy(n)
    PROVE  IInv' /\ PoolStep
<1>1. TypeOK /\ RestOK
    BY GateShut DEF TradePtBuy
<1>2. PICK q \in Quotes :
        /\ CanBuy(n, q)
        /\ wallet.sy >= q.sy
        /\ held.pt >= n
        /\ market' = Bought(market, n, q)
        /\ held' = HeldBought(held, n, q)
        /\ wallet' = [wallet EXCEPT !.pt = @ + n, !.sy = @ - q.sy]
        /\ treasury' = treasury + q.fee
    BY DEF TradePtBuy
<1>3. UNCHANGED <<now, rate, vaultAth, lp, settings, limits, flash>>
    BY DEF TradePtBuy
<1>4. /\ q \in QuoteRecord /\ q.sy > 0
      /\ n \in Nat \ {0} /\ n <= market.pt /\ q.fee <= q.sy
    BY <1>1, <1>2, QuoteType, MarketAssumptions DEF CanBuy, TypeOK, MarketRecord
<1>5. /\ market \in MarketRecord /\ held \in HeldRecord
      /\ wallet \in WalletRecord /\ treasury \in Nat /\ lp \in Nat
      /\ limits \in LimitsRecord
    BY <1>1 DEF TypeOK, LimitsRecord
<1>6. /\ market' \in MarketRecord
      /\ market'.pt = market.pt - n
      /\ market'.sy = market.sy + q.sy - q.fee
      /\ market'.debt = market.debt
    BY <1>2, <1>4, <1>5, BoughtFields
<1>7. /\ held' \in HeldRecord
      /\ held'.pt = held.pt - n
      /\ held'.sy = held.sy
      /\ held'.adapter = held.adapter + q.sy - q.fee
    BY <1>2, <1>4, <1>5, HeldBoughtFields
<1>8. wallet' \in WalletRecord
    <2>1. PICK x \in Nat, y \in Nat : x = wallet.pt + n /\ y = wallet.sy - q.sy
        BY <1>2, <1>4, <1>5 DEF WalletRecord, QuoteRecord
    <2>2. wallet' = [wallet EXCEPT !.pt = x, !.sy = y]
        BY ONLY <1>2, <2>1
    <2>3. x \in Nat /\ y \in Nat
        OBVIOUS
    <2> QED BY ONLY <1>5, <2>2, <2>3 DEF WalletRecord
<1>9. treasury' \in Nat
    <2>1. treasury' = treasury + q.fee
        BY ONLY <1>2
    <2>2. treasury \in Nat /\ q.fee \in Nat
        BY ONLY <1>4, <1>5 DEF QuoteRecord
    <2> QED BY ONLY <2>1, <2>2
<1>10. Covers(held'.pt, held'.sy + held'.adapter, market')
    <2>1. Covers(held.pt, held.sy + held.adapter, market)
        BY <1>1 DEF RestOK
    <2>2. /\ market.pt \in Nat /\ market.sy \in Nat /\ q.sy \in Nat /\ q.fee \in Nat
          /\ held.pt \in Nat /\ held.sy \in Nat /\ held.adapter \in Nat
        BY ONLY <1>4, <1>5, Ranges
    <2> QED BY ONLY <1>4, <1>6, <1>7, <2>1, <2>2 DEF Covers
<1>11. IInv'
    BY <1>1, <1>3, <1>5, <1>6, <1>7, <1>8, <1>9, <1>10, RestStep
<1>12. PoolStep
    <2>1. market'.pt < market.pt /\ market'.sy >= market.sy
        BY <1>4, <1>5, <1>6 DEF MarketRecord, QuoteRecord
    <2> QED BY <1>3, <1>5, <1>6, <2>1, PoolBuys
<1> QED BY <1>11, <1>12

(* trade_pt, selling.                                                      *)
LEMMA TradePtSellInv ==
    ASSUME IInv, NEW n \in Nat, TradePtSell(n)
    PROVE  IInv' /\ PoolStep
<1>1. TypeOK /\ RestOK
    BY GateShut DEF TradePtSell
<1>2. PICK q \in Quotes :
        /\ CanSell(n, q)
        /\ held.adapter >= q.sy + q.fee
        /\ market' = Sold(market, n, q)
        /\ held' = HeldSold(held, n, q)
        /\ wallet' = [wallet EXCEPT !.pt = @ - n, !.sy = @ + q.sy]
        /\ treasury' = treasury + q.fee
    BY DEF TradePtSell
<1>3. /\ UNCHANGED <<now, rate, vaultAth, lp, settings, limits, flash>>
      /\ wallet.pt >= n
    BY DEF TradePtSell
<1>4. /\ q \in QuoteRecord /\ q.sy > 0
      /\ n \in Nat \ {0} /\ q.sy + q.fee <= market.sy
    BY <1>1, <1>2, QuoteType, MarketAssumptions
    DEF CanSell, TypeOK, MarketRecord, QuoteRecord
<1>5. /\ market \in MarketRecord /\ held \in HeldRecord
      /\ wallet \in WalletRecord /\ treasury \in Nat /\ lp \in Nat
      /\ limits \in LimitsRecord
    BY <1>1 DEF TypeOK, LimitsRecord
<1>6. /\ market' \in MarketRecord
      /\ market'.pt = market.pt + n
      /\ market'.sy = market.sy - q.sy - q.fee
      /\ market'.debt = market.debt
    BY <1>2, <1>4, <1>5, SoldFields
<1>7. /\ held' \in HeldRecord
      /\ held'.pt = held.pt + n
      /\ held'.sy = held.sy
      /\ held'.adapter = held.adapter - q.sy - q.fee
    <2>1. q.sy + q.fee <= held.adapter
        BY <1>2, <1>4, <1>5 DEF QuoteRecord, HeldRecord
    <2> QED BY <1>2, <1>4, <1>5, <2>1, HeldSoldFields
<1>8. wallet' \in WalletRecord
    <2>1. PICK x \in Nat, y \in Nat : x = wallet.pt - n /\ y = wallet.sy + q.sy
        BY <1>3, <1>4, <1>5 DEF WalletRecord, QuoteRecord
    <2>2. wallet' = [wallet EXCEPT !.pt = x, !.sy = y]
        BY ONLY <1>2, <2>1
    <2>3. x \in Nat /\ y \in Nat
        OBVIOUS
    <2> QED BY ONLY <1>5, <2>2, <2>3 DEF WalletRecord
<1>9. treasury' \in Nat
    <2>1. treasury' = treasury + q.fee
        BY ONLY <1>2
    <2>2. treasury \in Nat /\ q.fee \in Nat
        BY ONLY <1>4, <1>5 DEF QuoteRecord
    <2> QED BY ONLY <2>1, <2>2
<1>10. Covers(held'.pt, held'.sy + held'.adapter, market')
    <2>1. Covers(held.pt, held.sy + held.adapter, market)
        BY <1>1 DEF RestOK
    <2>2. /\ market.pt \in Nat /\ market.sy \in Nat /\ q.sy \in Nat /\ q.fee \in Nat
          /\ held.pt \in Nat /\ held.sy \in Nat /\ held.adapter \in Nat
        BY ONLY <1>4, <1>5, Ranges
    <2> QED BY ONLY <1>4, <1>6, <1>7, <2>1, <2>2 DEF Covers
<1>11. IInv'
    BY <1>1, <1>3, <1>5, <1>6, <1>7, <1>8, <1>9, <1>10, RestStep
<1>12. PoolStep
    <2>1. market'.pt > market.pt /\ market'.sy < market.sy
        BY <1>4, <1>5, <1>6 DEF MarketRecord, QuoteRecord
    <2> QED BY <1>3, <1>5, <1>6, <2>1, PoolSells
<1> QED BY <1>11, <1>12

(* buy_yt: the sale of the strip's PT covers the loan for the strip.       *)
LEMMA BuyYtInv ==
    ASSUME IInv, NEW syIn \in Nat, NEW ytOut \in Nat, BuyYt(syIn, ytOut)
    PROVE  IInv' /\ PoolStep
<1> DEFINE strip == PyToSyCeil(rate, ytOut)
           loan == strip - syIn
           py == SyToPy(rate, strip)
<1>1. TypeOK /\ RestOK
    BY GateShut DEF BuyYt
<1>2. PICK q \in Quotes :
        /\ CanSell(py, q)
        /\ q.sy >= loan
        /\ held.adapter >= loan + q.sy + q.fee
        /\ market' = [Sold(market, py, q) EXCEPT !.isFlash = TRUE]
        /\ held' = [HeldSold(held, py, q) EXCEPT !.adapter = @ + q.sy - loan]
        /\ treasury' = treasury + q.fee
    BY DEF BuyYt
<1>3. /\ UNCHANGED <<now, rate, lp, settings, limits, flash>>
      /\ vaultAth' = rate /\ rate > 0
      /\ syIn > 0 /\ loan > 0 /\ wallet.sy >= syIn
      /\ wallet' = [wallet EXCEPT !.sy = @ - syIn, !.yt = @ + py]
    BY DEF BuyYt, VaultConverts
<1>4. syIn \in Nat /\ strip \in Nat /\ py \in Nat
    <2>1. rate \in Nat \ {0} /\ ytOut \in Nat /\ syIn \in Nat
        BY <1>1, <1>3, MarketAssumptions DEF TypeOK
    <2>2. strip \in Nat
        BY ONLY <2>1, ConversionNat
    <2>3. py \in Nat
        BY ONLY <2>1, <2>2, ConversionNat
    <2> QED BY <2>1, <2>2, <2>3
<1>5. PICK l \in Nat : l = loan
    BY <1>3, <1>4
<1> HIDE DEF strip, loan, py
<1>6. /\ q \in QuoteRecord /\ q.sy > 0
      /\ py \in Nat \ {0} /\ q.sy + q.fee <= market.sy
    BY <1>1, <1>2, <1>4, QuoteType DEF CanSell, TypeOK, MarketRecord, QuoteRecord
<1>7. /\ market \in MarketRecord /\ held \in HeldRecord
      /\ wallet \in WalletRecord /\ treasury \in Nat /\ lp \in Nat
      /\ limits \in LimitsRecord /\ rate \in Nat
    BY <1>1 DEF TypeOK, LimitsRecord
<1>8. /\ market' \in MarketRecord
      /\ market'.pt = market.pt + py
      /\ market'.sy = market.sy - q.sy - q.fee
      /\ market'.debt = market.debt
    <2>1. PICK m \in MarketRecord :
            /\ m = Sold(market, py, q)
            /\ m.pt = market.pt + py
            /\ m.sy = market.sy - q.sy - q.fee
            /\ m.debt = market.debt
        BY <1>6, <1>7, SoldFields
    <2>2. market' = [m EXCEPT !.isFlash = TRUE] /\ m \in MarketRecord
        BY <1>2, <2>1
    <2>3. /\ market' \in MarketRecord /\ market'.pt = m.pt
          /\ market'.sy = m.sy /\ market'.debt = m.debt
        BY ONLY <2>2 DEF MarketRecord
    <2> QED BY ONLY <2>1, <2>3
<1>9. /\ held' \in HeldRecord
      /\ held'.pt = held.pt + py
      /\ held'.sy = held.sy
      /\ held'.adapter = held.adapter - l - q.fee
    <2>1. q.sy + q.fee <= held.adapter
        BY <1>2, <1>5, <1>6, <1>7 DEF QuoteRecord, HeldRecord
    <2>2. PICK h \in HeldRecord :
            /\ h = HeldSold(held, py, q)
            /\ h.pt = held.pt + py
            /\ h.sy = held.sy
            /\ h.adapter = held.adapter - q.sy - q.fee
        BY <1>6, <1>7, <2>1, HeldSoldFields
    <2>3. PICK x \in Nat : x = held.adapter - l - q.fee /\ x = h.adapter + q.sy - l
        BY <1>2, <1>5, <1>6, <1>7, <2>2 DEF QuoteRecord, HeldRecord
    <2>4. held' = [h EXCEPT !.adapter = x] /\ h \in HeldRecord /\ x \in Nat
        BY <1>2, <1>5, <2>2, <2>3
    <2>5. /\ held' \in HeldRecord /\ held'.pt = h.pt
          /\ held'.sy = h.sy /\ held'.adapter = x
        BY ONLY <2>4 DEF HeldRecord
    <2> QED BY ONLY <2>2, <2>3, <2>5
<1>10. wallet' \in WalletRecord
    <2>1. PICK x \in Nat, y \in Nat : x = wallet.sy - syIn /\ y = wallet.yt + py
        BY <1>3, <1>4, <1>7 DEF WalletRecord
    <2>2. wallet' = [wallet EXCEPT !.sy = x, !.yt = y]
        BY ONLY <1>3, <2>1
    <2>3. x \in Nat /\ y \in Nat
        OBVIOUS
    <2> QED BY ONLY <1>7, <2>2, <2>3 DEF WalletRecord
<1>11. treasury' \in Nat
    <2>1. treasury' = treasury + q.fee
        BY ONLY <1>2
    <2>2. treasury \in Nat /\ q.fee \in Nat
        BY ONLY <1>6, <1>7 DEF QuoteRecord
    <2> QED BY ONLY <2>1, <2>2
<1>12. Covers(held'.pt, held'.sy + held'.adapter, market')
    <2>1. Covers(held.pt, held.sy + held.adapter, market)
        BY <1>1 DEF RestOK
    <2>2. /\ market.pt \in Nat /\ market.sy \in Nat /\ q.sy \in Nat /\ q.fee \in Nat
          /\ held.pt \in Nat /\ held.sy \in Nat /\ held.adapter \in Nat
        BY ONLY <1>6, <1>7, Ranges
    <2>3. l \in Nat /\ l <= q.sy
        BY <1>2, <1>5
    <2> QED BY ONLY <1>6, <1>8, <1>9, <2>1, <2>2, <2>3 DEF Covers
<1>13. IInv'
    BY <1>1, <1>3, <1>7, <1>8, <1>9, <1>10, <1>11, <1>12, RestStep
<1>14. PoolStep
    <2>1. market'.pt > market.pt /\ market'.sy < market.sy
        BY <1>6, <1>7, <1>8 DEF MarketRecord, QuoteRecord
    <2> QED BY <1>3, <1>7, <1>8, <2>1, PoolSells
<1> QED BY <1>13, <1>14

(* sell_yt: the PT borrowed for the merge is bought back.                  *)
LEMMA SellYtInv ==
    ASSUME IInv, NEW n \in Nat, SellYt(n)
    PROVE  IInv' /\ PoolStep
<1>1. TypeOK /\ RestOK
    BY GateShut DEF SellYt
<1>2. PICK q \in Quotes :
        /\ CanBuy(n, q)
        /\ q.sy <= PyToSy(rate, n)
        /\ held.pt >= 2 * n
        /\ market' = [Bought(market, n, q) EXCEPT !.isFlash = FALSE]
        /\ held' = HeldBought(held, n, q)
        /\ wallet' = [wallet EXCEPT !.yt = @ - n,
                                    !.sy = @ + PyToSy(rate, n) - q.sy]
        /\ treasury' = treasury + q.fee
    BY DEF SellYt
<1>3. /\ UNCHANGED <<now, rate, lp, settings, limits, flash>>
      /\ vaultAth' = rate /\ wallet.yt >= n
    BY DEF SellYt, VaultConverts
<1>4. /\ q \in QuoteRecord /\ q.sy > 0
      /\ n \in Nat \ {0} /\ n <= market.pt /\ q.fee <= q.sy
    BY <1>1, <1>2, QuoteType, MarketAssumptions DEF CanBuy, TypeOK, MarketRecord
<1>5. /\ market \in MarketRecord /\ held \in HeldRecord
      /\ wallet \in WalletRecord /\ treasury \in Nat /\ lp \in Nat
      /\ limits \in LimitsRecord
    BY <1>1 DEF TypeOK, LimitsRecord
<1>6. PICK c \in Nat : c = PyToSy(rate, n)
    <2>1. rate \in Nat \ {0}
        BY <1>1, <1>2 DEF CanBuy, TypeOK
    <2> QED BY ONLY <1>4, <2>1, ConversionNat
<1>7. /\ market' \in MarketRecord
      /\ market'.pt = market.pt - n
      /\ market'.sy = market.sy + q.sy - q.fee
      /\ market'.debt = market.debt
    <2>1. PICK m \in MarketRecord :
            /\ m = Bought(market, n, q)
            /\ m.pt = market.pt - n
            /\ m.sy = market.sy + q.sy - q.fee
            /\ m.debt = market.debt
        BY <1>4, <1>5, BoughtFields
    <2>2. market' = [m EXCEPT !.isFlash = FALSE] /\ m \in MarketRecord
        BY <1>2, <2>1
    <2>3. /\ market' \in MarketRecord /\ market'.pt = m.pt
          /\ market'.sy = m.sy /\ market'.debt = m.debt
        BY ONLY <2>2 DEF MarketRecord
    <2> QED BY ONLY <2>1, <2>3
<1>8. /\ held' \in HeldRecord
      /\ held'.pt = held.pt - n
      /\ held'.sy = held.sy
      /\ held'.adapter = held.adapter + q.sy - q.fee
    <2>1. n <= held.pt
        BY <1>2, <1>4, <1>5 DEF HeldRecord
    <2> QED BY <1>2, <1>4, <1>5, <2>1, HeldBoughtFields
<1>9. wallet' \in WalletRecord
    <2>1. PICK x \in Nat, y \in Nat : x = wallet.yt - n /\ y = wallet.sy + c - q.sy
        BY <1>2, <1>3, <1>4, <1>5, <1>6 DEF WalletRecord, QuoteRecord
    <2>2. wallet' = [wallet EXCEPT !.yt = x, !.sy = y]
        BY ONLY <1>2, <1>6, <2>1
    <2>3. x \in Nat /\ y \in Nat
        OBVIOUS
    <2> QED BY ONLY <1>5, <2>2, <2>3 DEF WalletRecord
<1>10. treasury' \in Nat
    <2>1. treasury' = treasury + q.fee
        BY ONLY <1>2
    <2>2. treasury \in Nat /\ q.fee \in Nat
        BY ONLY <1>4, <1>5 DEF QuoteRecord
    <2> QED BY ONLY <2>1, <2>2
<1>11. Covers(held'.pt, held'.sy + held'.adapter, market')
    <2>1. Covers(held.pt, held.sy + held.adapter, market)
        BY <1>1 DEF RestOK
    <2>2. /\ market.pt \in Nat /\ market.sy \in Nat /\ q.sy \in Nat /\ q.fee \in Nat
          /\ held.pt \in Nat /\ held.sy \in Nat /\ held.adapter \in Nat
        BY ONLY <1>4, <1>5, Ranges
    <2> QED BY ONLY <1>4, <1>7, <1>8, <2>1, <2>2 DEF Covers
<1>12. IInv'
    BY <1>1, <1>3, <1>5, <1>7, <1>8, <1>9, <1>10, <1>11, RestStep
<1>13. PoolStep
    <2>1. market'.pt < market.pt /\ market'.sy >= market.sy
        BY <1>4, <1>5, <1>7 DEF MarketRecord, QuoteRecord
    <2> QED BY <1>3, <1>5, <1>7, <2>1, PoolBuys
<1> QED BY <1>12, <1>13

-----------------------------------------------------------------------------
(* The share arithmetic.                                                   *)

(* What floor division leaves is less than the divisor.                    *)
LEMMA DivBounds ==
    ASSUME NEW a \in Nat, NEW b \in Nat \ {0}
    PROVE  /\ a \div b \in Nat
           /\ b * (a \div b) <= a
           /\ a < b * (a \div b) + b
    BY SMT

(* Shares rounded down keep the price of a share: a is added to a reserve  *)
(* of p, d shares to a supply of l.                                        *)
LEMMA AddedKeepsPrice ==
    ASSUME NEW p \in Nat, NEW l \in Nat, NEW a \in Nat, NEW d \in Nat,
           p * d <= a * l
    PROVE  (p + a) * l >= p * (l + d)
    BY SMT

(* Likewise when d shares leave and take a from the reserve.               *)
LEMMA RemovedKeepsPrice ==
    ASSUME NEW p \in Nat, NEW l \in Nat, NEW a \in Nat, NEW d \in Nat,
           a * l <= p * d
    PROVE  (p - a) * l >= p * (l - d)
    BY SMT

(* The amount matched with an intent i, rounded up, pays for the shares    *)
(* that the intent buys, rounded down.                                     *)
LEMMA MatchPays ==
    ASSUME NEW l \in Nat \ {0}, NEW p \in Nat \ {0}, NEW s \in Nat, NEW i \in Nat
    PROVE  LET d == (l * i) \div p
               m == (s * l * i + (l - 1) * p) \div (p * l)
           IN /\ d \in Nat /\ m \in Nat
              /\ p * d <= i * l
              /\ s * d <= m * l
<1> DEFINE d == (l * i) \div p
           n == s * l * i + (l - 1) * p
           m == n \div (p * l)
<1>1. l * i \in Nat /\ p * l \in Nat \ {0} /\ n \in Nat
    BY SMT
<1>2. d \in Nat /\ p * d <= l * i
    BY <1>1, DivBounds
<1>3. m \in Nat /\ n < (p * l) * m + p * l
    <2> HIDE DEF n
    <2> QED BY <1>1, DivBounds
<1> HIDE DEF d, m
<1>4. s * l * i - p < (p * l) * m
    BY <1>1, <1>3, SMT
<1>5. s * (p * d) <= s * (l * i)
    BY <1>1, <1>2, SMT
<1>6. p * (s * d) < p * (m * l + 1)
    BY <1>2, <1>3, <1>4, <1>5, SMT
<1>7. s * d < m * l + 1
    BY <1>2, <1>3, <1>6, SMT
<1>8. s * d <= m * l
    BY <1>2, <1>3, <1>7, SMT
<1> QED BY <1>1, <1>2, <1>3, <1>8 DEF d, m, n

(* What a deposit brings pays for its LP tokens, in both reserves.         *)
LEMMA AddedPays ==
    ASSUME TypeOK, NEW ptIntent \in Nat, NEW syIntent \in Nat
    PROVE  LET r == Added(ptIntent, syIntent)
           IN /\ r.pt \in Nat /\ r.sy \in Nat /\ r.lp \in Nat
              /\ (market.pt + VirtualPt) * r.lp <= r.pt * LpVirtual
              /\ (market.sy + VirtualSy) * r.lp <= r.sy * LpVirtual
<1> DEFINE p == market.pt + VirtualPt
           s == market.sy + VirtualSy
           r == Added(ptIntent, syIntent)
<1>1. p \in Nat \ {0} /\ s \in Nat \ {0} /\ LpVirtual \in Nat \ {0}
    BY MarketAssumptions DEF TypeOK, MarketRecord, LpVirtual
<1>2. r = IF ptIntent * s < syIntent * p
          THEN [pt |-> ptIntent, sy |-> Match(ptIntent, p, s),
                lp |-> SharesFor(ptIntent, p)]
          ELSE [pt |-> Match(syIntent, s, p), sy |-> syIntent,
                lp |-> SharesFor(syIntent, s)]
    BY DEF Added
<1> HIDE DEF p, s, r
<1>3. CASE ptIntent * s < syIntent * p
    <2>1. /\ r.pt = ptIntent /\ r.sy = Match(ptIntent, p, s)
          /\ r.lp = SharesFor(ptIntent, p)
        BY ONLY <1>2, <1>3
    <2>2. /\ SharesFor(ptIntent, p) \in Nat /\ Match(ptIntent, p, s) \in Nat
          /\ p * SharesFor(ptIntent, p) <= ptIntent * LpVirtual
          /\ s * SharesFor(ptIntent, p) <= Match(ptIntent, p, s) * LpVirtual
        BY <1>1, MatchPays DEF SharesFor, Match
    <2>3. /\ r.pt \in Nat /\ r.sy \in Nat /\ r.lp \in Nat
          /\ p * r.lp <= r.pt * LpVirtual /\ s * r.lp <= r.sy * LpVirtual
        BY ONLY <2>1, <2>2, ptIntent \in Nat
    <2> QED BY ONLY <2>3 DEF p, s, r
<1>4. CASE ~(ptIntent * s < syIntent * p)
    <2>1. /\ r.pt = Match(syIntent, s, p) /\ r.sy = syIntent
          /\ r.lp = SharesFor(syIntent, s)
        BY ONLY <1>2, <1>4
    <2>2. /\ SharesFor(syIntent, s) \in Nat /\ Match(syIntent, s, p) \in Nat
          /\ s * SharesFor(syIntent, s) <= syIntent * LpVirtual
          /\ p * SharesFor(syIntent, s) <= Match(syIntent, s, p) * LpVirtual
        BY <1>1, MatchPays DEF SharesFor, Match
    <2>3. /\ r.pt \in Nat /\ r.sy \in Nat /\ r.lp \in Nat
          /\ p * r.lp <= r.pt * LpVirtual /\ s * r.lp <= r.sy * LpVirtual
        BY ONLY <2>1, <2>2, syIntent \in Nat
    <2> QED BY ONLY <2>3 DEF p, s, r
<1> QED BY <1>3, <1>4

(* What a withdrawal takes is within its share and within the reserves.    *)
LEMMA RemovedWithin ==
    ASSUME TypeOK, NEW n \in Nat
    PROVE  LET r == Removed(n)
           IN /\ r.pt \in Nat /\ r.sy \in Nat
              /\ r.pt <= market.pt /\ r.sy <= market.sy
              /\ r.pt * LpVirtual <= (market.pt + VirtualPt) * n
              /\ r.sy * LpVirtual <= (market.sy + VirtualSy) * n
<1>1. /\ market.pt \in Nat /\ market.sy \in Nat /\ LpVirtual \in Nat \ {0}
      /\ market.pt + VirtualPt \in Nat /\ market.sy + VirtualSy \in Nat
    BY MarketAssumptions DEF TypeOK, MarketRecord, LpVirtual
<1>2. ASSUME NEW x \in Nat, NEW v \in Nat
      PROVE  LET y == Smaller((v * n) \div LpVirtual, x)
             IN y \in Nat /\ y <= x /\ y * LpVirtual <= v * n
    <2> DEFINE w == (v * n) \div LpVirtual
    <2>1. v * n \in Nat
        BY SMT
    <2>2. w \in Nat /\ LpVirtual * w <= v * n
        BY <1>1, <2>1, DivBounds
    <2> HIDE DEF w
    <2>3. ASSUME NEW y \in Nat, y <= w PROVE y * LpVirtual <= v * n
        BY <1>1, <2>1, <2>2, <2>3, SMT
    <2>4. /\ Smaller(w, x) \in Nat /\ Smaller(w, x) <= x /\ Smaller(w, x) <= w
        BY <2>2 DEF Smaller
    <2> QED BY <2>3, <2>4 DEF w
<1>3. /\ Removed(n).pt = Smaller(((market.pt + VirtualPt) * n) \div LpVirtual, market.pt)
      /\ Removed(n).sy = Smaller(((market.sy + VirtualSy) * n) \div LpVirtual, market.sy)
    BY DEF Removed
<1> QED BY <1>1, <1>2, <1>3

(* An accepted change of the supply leaves the limits well typed.          *)
LEMMA LimitsType ==
    ASSUME TypeOK, NEW n, VerifyLimits(n)
    PROVE  limits' \in LimitsRecord
<1>1. limits \in LimitsRecord /\ now \in Nat /\ lp \in Nat
    BY DEF TypeOK, LimitsRecord
<1>2. PICK x \in Nat, y \in Nat :
        /\ x = IF WindowElapsed THEN now ELSE limits.start
        /\ y = WindowBalance
    BY <1>1 DEF WindowBalance, LimitsRecord
<1>3. limits' = [limits EXCEPT !.start = x, !.balance = y]
    BY <1>2 DEF VerifyLimits
<1>4. x \in Nat /\ y \in Nat
    OBVIOUS
<1> QED BY ONLY <1>1, <1>3, <1>4 DEF LimitsRecord

(* market_two_deposit_liquidity.                                           *)
LEMMA DepositLiquidityInv ==
    ASSUME IInv, NEW ptIntent \in Nat, NEW syIntent \in Nat,
           DepositLiquidity(ptIntent, syIntent)
    PROVE  IInv' /\ PoolStep
<1>1. TypeOK /\ RestOK
    BY GateShut DEF DepositLiquidity
<1>2. PICK r : r = Added(ptIntent, syIntent)
    OBVIOUS
<1>3. /\ UNCHANGED <<now, rate, vaultAth, treasury, settings, flash>>
      /\ VerifyLimits(lp + r.lp)
      /\ wallet.pt >= r.pt /\ wallet.sy >= r.sy
      /\ lp' = lp + r.lp
      /\ market' = [market EXCEPT !.pt = @ + r.pt, !.sy = @ + r.sy]
      /\ held' = [held EXCEPT !.pt = @ + r.pt, !.adapter = @ + r.sy]
      /\ wallet' = [wallet EXCEPT !.pt = @ - r.pt, !.sy = @ - r.sy]
    BY <1>2 DEF DepositLiquidity
<1>4. /\ r.pt \in Nat /\ r.sy \in Nat /\ r.lp \in Nat
      /\ (market.pt + VirtualPt) * r.lp <= r.pt * LpVirtual
      /\ (market.sy + VirtualSy) * r.lp <= r.sy * LpVirtual
    BY <1>1, <1>2, AddedPays, MarketAssumptions
<1>5. /\ market \in MarketRecord /\ held \in HeldRecord
      /\ wallet \in WalletRecord /\ treasury \in Nat /\ lp \in Nat
    BY <1>1 DEF TypeOK
<1>6. /\ market.pt \in Nat /\ market.sy \in Nat
      /\ held.pt \in Nat /\ held.sy \in Nat /\ held.adapter \in Nat
    BY ONLY <1>5 DEF MarketRecord, HeldRecord
<1>7. /\ market' \in MarketRecord
      /\ market'.pt = market.pt + r.pt
      /\ market'.sy = market.sy + r.sy
      /\ market'.debt = market.debt
    <2>1. PICK x \in Nat, y \in Nat : x = market.pt + r.pt /\ y = market.sy + r.sy
        BY <1>4, <1>6
    <2>2. market' = [market EXCEPT !.pt = x, !.sy = y]
        BY ONLY <1>3, <2>1
    <2>3. x \in Nat /\ y \in Nat
        OBVIOUS
    <2>4. /\ market' \in MarketRecord /\ market'.pt = x /\ market'.sy = y
          /\ market'.debt = market.debt
        BY ONLY <1>5, <2>2, <2>3 DEF MarketRecord
    <2> QED BY ONLY <2>1, <2>4
<1>8. /\ held' \in HeldRecord
      /\ held'.pt = held.pt + r.pt
      /\ held'.sy = held.sy
      /\ held'.adapter = held.adapter + r.sy
    <2>1. PICK x \in Nat, y \in Nat : x = held.pt + r.pt /\ y = held.adapter + r.sy
        BY <1>4, <1>6
    <2>2. held' = [held EXCEPT !.pt = x, !.adapter = y]
        BY ONLY <1>3, <2>1
    <2>3. x \in Nat /\ y \in Nat
        OBVIOUS
    <2>4. /\ held' \in HeldRecord /\ held'.pt = x /\ held'.adapter = y
          /\ held'.sy = held.sy
        BY ONLY <1>5, <2>2, <2>3 DEF HeldRecord
    <2> QED BY ONLY <2>1, <2>4
<1>9. wallet' \in WalletRecord
    <2>1. PICK x \in Nat, y \in Nat : x = wallet.pt - r.pt /\ y = wallet.sy - r.sy
        BY <1>3, <1>4, <1>5 DEF WalletRecord
    <2>2. wallet' = [wallet EXCEPT !.pt = x, !.sy = y]
        BY ONLY <1>3, <2>1
    <2>3. x \in Nat /\ y \in Nat
        OBVIOUS
    <2> QED BY ONLY <1>5, <2>2, <2>3 DEF WalletRecord
<1>10. limits' \in LimitsRecord
    BY <1>1, <1>3, LimitsType
<1>11. Covers(held'.pt, held'.sy + held'.adapter, market')
    <2>1. Covers(held.pt, held.sy + held.adapter, market)
        BY <1>1 DEF RestOK
    <2> QED BY ONLY <1>4, <1>6, <1>7, <1>8, <2>1 DEF Covers
<1>12. lp' \in Nat /\ treasury' \in Nat
    <2>1. lp' = lp + r.lp /\ treasury' = treasury
        BY ONLY <1>3
    <2>2. lp \in Nat /\ treasury \in Nat /\ r.lp \in Nat
        BY ONLY <1>4, <1>5
    <2> QED BY ONLY <2>1, <2>2
<1>13. IInv'
    BY <1>1, <1>3, <1>7, <1>8, <1>9, <1>10, <1>11, <1>12, RestStep
<1>14. PoolStep
    <2>1. VirtualPt \in Nat /\ VirtualSy \in Nat /\ VirtualLp \in Nat
        BY MarketAssumptions
    <2>2. PICK p \in Nat, s \in Nat, l \in Nat :
            /\ p = market.pt + VirtualPt /\ s = market.sy + VirtualSy
            /\ l = lp + VirtualLp
        BY <1>5, <1>6, <2>1
    <2>3. p * r.lp <= r.pt * l /\ s * r.lp <= r.sy * l
        BY ONLY <1>4, <2>2 DEF LpVirtual
    <2>4. (p + r.pt) * l >= p * (l + r.lp) /\ (s + r.sy) * l >= s * (l + r.lp)
        BY <1>4, <2>3, AddedKeepsPrice
    <2>5. /\ market'.pt + VirtualPt = p + r.pt /\ market'.sy + VirtualSy = s + r.sy
          /\ lp' + VirtualLp = l + r.lp
        BY ONLY <1>3, <1>4, <1>5, <1>6, <1>7, <2>1, <2>2
    <2>6. Pool!SharePriceKept
        BY ONLY <2>2, <2>4, <2>5 DEF Pool!SharePriceKept
    <2>7. market'.pt >= market.pt /\ market'.sy >= market.sy /\ lp' >= lp
        BY ONLY <1>3, <1>4, <1>5, <1>6, <1>7
    <2>8. market'.pt \in Nat /\ market'.sy \in Nat
        BY ONLY <1>7 DEF MarketRecord
    <2> QED BY <1>12, <2>6, <2>7, <2>8 DEF PoolStep, Pool!PoolNext, Pool!AddLiquidity
<1> QED BY <1>13, <1>14

(* market_two_withdraw_liquidity.                                          *)
LEMMA WithdrawLiquidityInv ==
    ASSUME IInv, NEW n \in Nat, WithdrawLiquidity(n)
    PROVE  IInv' /\ PoolStep
<1>1. TypeOK /\ RestOK
    BY GateShut DEF WithdrawLiquidity
<1>2. PICK r : r = Removed(n)
    OBVIOUS
<1>3. /\ UNCHANGED <<now, rate, vaultAth, treasury, settings, flash>>
      /\ VerifyLimits(lp - n)
      /\ n <= lp /\ held.adapter >= r.sy /\ held.pt >= r.pt
      /\ lp' = lp - n
      /\ market' = [market EXCEPT !.pt = @ - r.pt, !.sy = @ - r.sy]
      /\ held' = [held EXCEPT !.pt = @ - r.pt, !.adapter = @ - r.sy]
      /\ wallet' = [wallet EXCEPT !.pt = @ + r.pt, !.sy = @ + r.sy]
    BY <1>2 DEF WithdrawLiquidity
<1>4. /\ n \in Nat /\ r.pt \in Nat /\ r.sy \in Nat
      /\ r.pt <= market.pt /\ r.sy <= market.sy
      /\ r.pt * LpVirtual <= (market.pt + VirtualPt) * n
      /\ r.sy * LpVirtual <= (market.sy + VirtualSy) * n
    BY <1>1, <1>2, RemovedWithin, MarketAssumptions
<1>5. /\ market \in MarketRecord /\ held \in HeldRecord
      /\ wallet \in WalletRecord /\ treasury \in Nat /\ lp \in Nat
    BY <1>1 DEF TypeOK
<1>6. /\ market.pt \in Nat /\ market.sy \in Nat
      /\ held.pt \in Nat /\ held.sy \in Nat /\ held.adapter \in Nat
    BY ONLY <1>5 DEF MarketRecord, HeldRecord
<1>7. /\ market' \in MarketRecord
      /\ market'.pt = market.pt - r.pt
      /\ market'.sy = market.sy - r.sy
      /\ market'.debt = market.debt
    <2>1. PICK x \in Nat, y \in Nat : x = market.pt - r.pt /\ y = market.sy - r.sy
        BY <1>4, <1>6
    <2>2. market' = [market EXCEPT !.pt = x, !.sy = y]
        BY ONLY <1>3, <2>1
    <2>3. x \in Nat /\ y \in Nat
        OBVIOUS
    <2>4. /\ market' \in MarketRecord /\ market'.pt = x /\ market'.sy = y
          /\ market'.debt = market.debt
        BY ONLY <1>5, <2>2, <2>3 DEF MarketRecord
    <2> QED BY ONLY <2>1, <2>4
<1>8. /\ held' \in HeldRecord
      /\ held'.pt = held.pt - r.pt
      /\ held'.sy = held.sy
      /\ held'.adapter = held.adapter - r.sy
    <2>1. PICK x \in Nat, y \in Nat : x = held.pt - r.pt /\ y = held.adapter - r.sy
        BY <1>3, <1>4, <1>6
    <2>2. held' = [held EXCEPT !.pt = x, !.adapter = y]
        BY ONLY <1>3, <2>1
    <2>3. x \in Nat /\ y \in Nat
        OBVIOUS
    <2>4. /\ held' \in HeldRecord /\ held'.pt = x /\ held'.adapter = y
          /\ held'.sy = held.sy
        BY ONLY <1>5, <2>2, <2>3 DEF HeldRecord
    <2> QED BY ONLY <2>1, <2>4
<1>9. wallet' \in WalletRecord
    <2>1. PICK x \in Nat, y \in Nat : x = wallet.pt + r.pt /\ y = wallet.sy + r.sy
        BY <1>4, <1>5 DEF WalletRecord
    <2>2. wallet' = [wallet EXCEPT !.pt = x, !.sy = y]
        BY ONLY <1>3, <2>1
    <2>3. x \in Nat /\ y \in Nat
        OBVIOUS
    <2> QED BY ONLY <1>5, <2>2, <2>3 DEF WalletRecord
<1>10. limits' \in LimitsRecord
    BY <1>1, <1>3, LimitsType
<1>11. Covers(held'.pt, held'.sy + held'.adapter, market')
    <2>1. Covers(held.pt, held.sy + held.adapter, market)
        BY <1>1 DEF RestOK
    <2> QED BY ONLY <1>4, <1>6, <1>7, <1>8, <2>1 DEF Covers
<1>12. lp' \in Nat /\ treasury' \in Nat
    <2>1. lp' = lp - n /\ n <= lp /\ treasury' = treasury
        BY ONLY <1>3
    <2>2. lp \in Nat /\ treasury \in Nat /\ n \in Nat
        BY ONLY <1>4, <1>5
    <2> QED BY ONLY <2>1, <2>2
<1>13. IInv'
    BY <1>1, <1>3, <1>7, <1>8, <1>9, <1>10, <1>11, <1>12, RestStep
<1>14. PoolStep
    <2>1. VirtualPt \in Nat /\ VirtualSy \in Nat /\ VirtualLp \in Nat
        BY MarketAssumptions
    <2>2. PICK p \in Nat, s \in Nat, l \in Nat :
            /\ p = market.pt + VirtualPt /\ s = market.sy + VirtualSy
            /\ l = lp + VirtualLp
        BY <1>5, <1>6, <2>1
    <2>3. r.pt * l <= p * n /\ r.sy * l <= s * n
        BY ONLY <1>4, <2>2 DEF LpVirtual
    <2>4. (p - r.pt) * l >= p * (l - n) /\ (s - r.sy) * l >= s * (l - n)
        BY <1>4, <2>3, RemovedKeepsPrice
    <2>5. /\ market'.pt + VirtualPt = p - r.pt /\ market'.sy + VirtualSy = s - r.sy
          /\ lp' + VirtualLp = l - n
        <3>1. lp' = lp - n
            BY ONLY <1>3
        <3>2. lp' + VirtualLp = l - n
            BY ONLY <1>4, <1>5, <2>1, <2>2, <3>1
        <3>3. market'.pt + VirtualPt = p - r.pt
            BY ONLY <1>4, <1>6, <1>7, <2>1, <2>2
        <3>4. market'.sy + VirtualSy = s - r.sy
            BY ONLY <1>4, <1>6, <1>7, <2>1, <2>2
        <3> QED BY ONLY <3>2, <3>3, <3>4
    <2>6. Pool!SharePriceKept
        BY ONLY <2>2, <2>4, <2>5 DEF Pool!SharePriceKept
    <2>7. market'.pt <= market.pt /\ market'.sy <= market.sy /\ lp' <= lp
        BY ONLY <1>3, <1>4, <1>5, <1>6, <1>7
    <2>8. market'.pt \in Nat /\ market'.sy \in Nat
        BY ONLY <1>7 DEF MarketRecord
    <2> QED BY <1>12, <2>6, <2>7, <2>8 DEF PoolStep, Pool!PoolNext, Pool!RemoveLiquidity
<1> QED BY <1>13, <1>14

-----------------------------------------------------------------------------
(* Opening a flash window.                                                 *)

(* The cap on a flash is at most the tracked reserve.                      *)
LEMMA CapWithinReserve ==
    ASSUME TypeOK, NEW n \in Nat, WithinCap(n)
    PROVE  n > 0 /\ n <= market.pt
<1>1. market.pt \in Nat /\ FlashCapBps \in Nat /\ FlashCapBps <= 10000
    BY MarketAssumptions, BasisPointsNat DEF TypeOK, MarketRecord
<1>2. PICK x \in Nat, c \in Nat : x = market.pt /\ c = FlashCapBps
    BY <1>1
<1>3. x * c \in Nat /\ x * c <= x * 10000
    BY <1>1, <1>2, SMT
<1>4. 10000 * ((x * c) \div 10000) <= x * c /\ (x * c) \div 10000 \in Nat
    BY <1>3, DivBounds
<1>5. (x * c) \div 10000 <= x
    BY <1>3, <1>4, SMT
<1>6. n > 0 /\ n <= (x * c) \div 10000
    BY ONLY <1>2, WithinCap(n) DEF WithinCap
<1> QED BY <1>1, <1>2, <1>4, <1>5, <1>6

(* The frame that an opening pushes, and the debt it leaves on the account. *)
LEMMA OpenStep ==
    ASSUME TypeOK, RestOK, NEW kind \in {"pt", "sy", "yt"}, NEW n \in Nat \ {0},
           NEW q \in QuoteRecord, NEW advance \in Nat, NEW before \in Nat,
           Open(kind, n, q, advance, before)
    PROVE  /\ \E f \in FrameRecord :
                /\ flash' = <<f>>
                /\ f.kind = kind /\ f.pt = n /\ f.quote = q
                /\ f.advance = advance /\ f.before = before
                /\ f.mem = market /\ f.undo.market = market
                /\ f.undo.lp = lp /\ f.undo.held = held
           /\ market' \in MarketRecord
           /\ market'.pt = market.pt /\ market'.sy = market.sy
           /\ market'.debt = n
<1> DEFINE u == [market |-> market, lp |-> lp, held |-> held,
                 wallet |-> wallet, treasury |-> treasury]
           g == [kind |-> kind, pt |-> n, quote |-> q, advance |-> advance,
                 before |-> before, mem |-> market, undo |-> u]
<1>1. /\ market \in MarketRecord /\ held \in HeldRecord
      /\ wallet \in WalletRecord /\ treasury \in Nat /\ lp \in Nat
    BY DEF TypeOK
<1>2. u \in UndoRecord /\ u.market = market /\ u.lp = lp /\ u.held = held
    BY <1>1 DEF UndoRecord
<1>3. flash' = Append(flash, g) /\ flash = <<>>
    BY DEF Open, RestOK
<1> HIDE DEF u
<1>4. /\ g \in FrameRecord
      /\ g.kind = kind /\ g.pt = n /\ g.quote = q
      /\ g.advance = advance /\ g.before = before
      /\ g.mem = market /\ g.undo = u
    BY <1>1, <1>2 DEF FrameRecord
<1> HIDE DEF g
<1>5. flash' = <<g>>
    BY ONLY <1>3
<1>6. market' = [market EXCEPT !.debt = n]
    BY DEF Open
<1>7. /\ market' \in MarketRecord
      /\ market'.pt = market.pt /\ market'.sy = market.sy /\ market'.debt = n
    BY ONLY <1>1, <1>6, n \in Nat \ {0} DEF MarketRecord
<1>8. g.undo.market = market /\ g.undo.lp = lp /\ g.undo.held = held
    BY ONLY <1>2, <1>4
<1> QED BY ONLY <1>4, <1>5, <1>7, <1>8

(* A step within the window f that leaves it open.                         *)
LEMMA WindowStep ==
    ASSUME TypeOK', NEW f \in FrameRecord, WindowOK(f)'
    PROVE  IInv'
    BY DEF IInv

(* flash_swap_pt up to its callback: the PT lent is the debt.              *)
LEMMA FlashSwapPtInv ==
    ASSUME IInv, NEW n \in Nat, FlashSwapPt(n)
    PROVE  IInv' /\ PoolStep
<1>1. TypeOK /\ RestOK
    BY GateShut DEF FlashSwapPt
<1>2. PICK q \in Quotes :
        CanBuy(n, q) /\ held.pt >= n /\ Open("pt", n, q, 0, held.sy)
    BY DEF FlashSwapPt
<1>3. /\ UNCHANGED <<now, rate, vaultAth, lp, treasury, settings, limits>>
      /\ held' = [held EXCEPT !.pt = @ - n]
      /\ wallet' = [wallet EXCEPT !.pt = @ + n]
    BY DEF FlashSwapPt
<1>4. /\ q \in QuoteRecord /\ q.sy > 0 /\ q.fee <= q.sy
      /\ n \in Nat \ {0} /\ n <= market.pt
    BY <1>1, <1>2, QuoteType, MarketAssumptions DEF CanBuy, TypeOK, MarketRecord
<1>5. /\ market \in MarketRecord /\ held \in HeldRecord
      /\ wallet \in WalletRecord /\ treasury \in Nat /\ lp \in Nat
      /\ limits \in LimitsRecord /\ rate \in Nat
    BY <1>1 DEF TypeOK, LimitsRecord
<1>6. /\ market.pt \in Nat /\ market.sy \in Nat /\ q.sy \in Nat /\ q.fee \in Nat
      /\ held.pt \in Nat /\ held.sy \in Nat /\ held.adapter \in Nat
    BY ONLY <1>4, <1>5, Ranges
<1>7. /\ \E f \in FrameRecord :
            /\ flash' = <<f>>
            /\ f.kind = "pt" /\ f.pt = n /\ f.quote = q
            /\ f.advance = 0 /\ f.before = held.sy
            /\ f.mem = market /\ f.undo.market = market
            /\ f.undo.lp = lp /\ f.undo.held = held
      /\ market' \in MarketRecord
      /\ market'.pt = market.pt /\ market'.sy = market.sy
      /\ market'.debt = n
    BY <1>1, <1>2, <1>4, <1>6, OpenStep
<1>8. PICK f \in FrameRecord :
        /\ flash' = <<f>>
        /\ f.kind = "pt" /\ f.pt = n /\ f.quote = q
        /\ f.advance = 0 /\ f.before = held.sy
        /\ f.mem = market /\ f.undo.market = market
        /\ f.undo.lp = lp /\ f.undo.held = held
    BY ONLY <1>7
<1>9. /\ held' \in HeldRecord /\ held'.pt = held.pt - n
      /\ held'.sy = held.sy /\ held'.adapter = held.adapter
    <2>1. PICK x \in Nat : x = held.pt - n
        BY <1>2, <1>4, <1>6
    <2>2. held' = [held EXCEPT !.pt = x]
        BY ONLY <1>3, <2>1
    <2>3. x \in Nat
        OBVIOUS
    <2>4. /\ held' \in HeldRecord /\ held'.pt = x
          /\ held'.sy = held.sy /\ held'.adapter = held.adapter
        BY ONLY <1>5, <2>2, <2>3 DEF HeldRecord
    <2> QED BY ONLY <2>1, <2>4
<1>10. wallet' \in WalletRecord
    BY ONLY <1>3, <1>4, <1>5 DEF WalletRecord
<1>11. TypeOK'
    BY <1>1, <1>3, <1>5, <1>7, <1>9, <1>10, TypeStep
<1>12. WindowOK(f)'
    <2>1. Covers(held.pt, held.sy + held.adapter, market) /\ market.debt = 0
        BY <1>1 DEF RestOK
    <2>2. held.pt >= market.pt /\ held.sy + held.adapter >= market.sy
        BY ONLY <2>1 DEF Covers
    <2>3. f \in FrameRecord /\ lp' = lp
        BY <1>3
    <2>4. Covers(f.undo.held.pt, f.undo.held.sy + f.undo.held.adapter, f.mem)
        BY ONLY <1>8, <2>1
    <2>5. /\ Covers(held'.pt + f.pt, held'.sy + held'.adapter, f.mem)
          /\ f.before + held'.adapter >= f.mem.sy
        BY ONLY <1>4, <1>6, <1>8, <1>9, <2>2 DEF Covers
    <2> QED BY ONLY <1>4, <1>7, <1>8, <2>1, <2>3, <2>4, <2>5 DEF WindowOK
<1>13. IInv'
    BY ONLY <1>11, <1>12, f \in FrameRecord, WindowStep
<1>14. PoolStep
    BY <1>3, <1>7 DEF PoolStep
<1> QED BY <1>13, <1>14

(* flash_swap_sy up to its callback: the SY lent is the quote.             *)
LEMMA FlashSwapSyInv ==
    ASSUME IInv, NEW n \in Nat, FlashSwapSy(n)
    PROVE  IInv' /\ PoolStep
<1>1. TypeOK /\ RestOK
    BY GateShut DEF FlashSwapSy
<1>2. PICK q \in Quotes :
        /\ held.adapter >= q.sy + q.fee
        /\ Open("sy", n, q, 0, held.pt)
        /\ held' = [held EXCEPT !.adapter = @ - q.sy - q.fee, !.sy = @ + q.fee]
        /\ wallet' = [wallet EXCEPT !.sy = @ + q.sy]
    BY DEF FlashSwapSy
<1>3. /\ UNCHANGED <<now, rate, vaultAth, lp, treasury, settings, limits>>
      /\ WithinCap(n)
    BY DEF FlashSwapSy
<1>4. /\ q \in QuoteRecord /\ q.sy > 0
      /\ n \in Nat \ {0} /\ n <= market.pt
    BY <1>1, <1>2, <1>3, QuoteType, CapWithinReserve, MarketAssumptions
<1>5. /\ market \in MarketRecord /\ held \in HeldRecord
      /\ wallet \in WalletRecord /\ treasury \in Nat /\ lp \in Nat
      /\ limits \in LimitsRecord /\ rate \in Nat
    BY <1>1 DEF TypeOK, LimitsRecord
<1>6. /\ market.pt \in Nat /\ market.sy \in Nat /\ q.sy \in Nat /\ q.fee \in Nat
      /\ held.pt \in Nat /\ held.sy \in Nat /\ held.adapter \in Nat
    BY ONLY <1>4, <1>5, Ranges
<1>7. /\ \E f \in FrameRecord :
            /\ flash' = <<f>>
            /\ f.kind = "sy" /\ f.pt = n /\ f.quote = q
            /\ f.advance = 0 /\ f.before = held.pt
            /\ f.mem = market /\ f.undo.market = market
            /\ f.undo.lp = lp /\ f.undo.held = held
      /\ market' \in MarketRecord
      /\ market'.pt = market.pt /\ market'.sy = market.sy
      /\ market'.debt = n
    BY <1>1, <1>2, <1>4, <1>6, OpenStep
<1>8. PICK f \in FrameRecord :
        /\ flash' = <<f>>
        /\ f.kind = "sy" /\ f.pt = n /\ f.quote = q
        /\ f.advance = 0 /\ f.before = held.pt
        /\ f.mem = market /\ f.undo.market = market
        /\ f.undo.lp = lp /\ f.undo.held = held
    BY ONLY <1>7
<1>9. /\ held' \in HeldRecord /\ held'.pt = held.pt
      /\ held'.sy = held.sy + q.fee
      /\ held'.adapter = held.adapter - q.sy - q.fee
    <2>1. PICK x \in Nat, y \in Nat :
            x = held.adapter - q.sy - q.fee /\ y = held.sy + q.fee
        BY <1>2, <1>6
    <2>2. held' = [held EXCEPT !.adapter = x, !.sy = y]
        BY ONLY <1>2, <2>1
    <2>3. x \in Nat /\ y \in Nat
        OBVIOUS
    <2>4. /\ held' \in HeldRecord /\ held'.pt = held.pt
          /\ held'.sy = y /\ held'.adapter = x
        BY ONLY <1>5, <2>2, <2>3 DEF HeldRecord
    <2> QED BY ONLY <2>1, <2>4
<1>10. wallet' \in WalletRecord
    BY ONLY <1>2, <1>5, <1>6 DEF WalletRecord
<1>11. TypeOK'
    BY <1>1, <1>3, <1>5, <1>7, <1>9, <1>10, TypeStep
<1>12. WindowOK(f)'
    <2>1. Covers(held.pt, held.sy + held.adapter, market) /\ market.debt = 0
        BY <1>1 DEF RestOK
    <2>2. held.pt >= market.pt /\ held.sy + held.adapter >= market.sy
        BY ONLY <2>1 DEF Covers
    <2>3. f \in FrameRecord /\ lp' = lp
        BY <1>3
    <2>4. Covers(f.undo.held.pt, f.undo.held.sy + f.undo.held.adapter, f.mem)
        BY ONLY <1>8, <2>1
    <2>5. /\ Covers(held'.pt, held'.sy + held'.adapter + f.quote.sy, f.mem)
          /\ f.before >= f.mem.pt
        BY ONLY <1>4, <1>6, <1>8, <1>9, <2>2 DEF Covers
    <2> QED BY ONLY <1>4, <1>7, <1>8, <2>1, <2>3, <2>4, <2>5 DEF WindowOK
<1>13. IInv'
    BY ONLY <1>11, <1>12, f \in FrameRecord, WindowStep
<1>14. PoolStep
    BY <1>3, <1>7 DEF PoolStep
<1> QED BY <1>13, <1>14

(* flash_sell_yt up to its callback: the SY lent is the advance.           *)
LEMMA FlashSellYtInv ==
    ASSUME IInv, NEW n \in Nat, NEW advance \in Nat, FlashSellYt(n, advance)
    PROVE  IInv' /\ PoolStep
<1> DEFINE none == [sy |-> 0, fee |-> 0]
<1>1. TypeOK /\ RestOK
    BY GateShut DEF FlashSellYt
<1>2. /\ UNCHANGED <<now, rate, vaultAth, lp, treasury, settings, limits>>
      /\ WithinCap(n) /\ market.pt >= 2 * n /\ held.adapter >= advance
      /\ Open("yt", n, none, advance, 0)
      /\ held' = [held EXCEPT !.adapter = @ - advance]
      /\ wallet' = [wallet EXCEPT !.sy = @ + advance]
    BY DEF FlashSellYt
<1>3. none \in QuoteRecord /\ n \in Nat \ {0} /\ advance \in Nat
    BY <1>2, MarketAssumptions DEF QuoteRecord, WithinCap
<1> HIDE DEF none
<1>4. /\ market \in MarketRecord /\ held \in HeldRecord
      /\ wallet \in WalletRecord /\ treasury \in Nat /\ lp \in Nat
      /\ limits \in LimitsRecord /\ rate \in Nat
    BY <1>1 DEF TypeOK, LimitsRecord
<1>5. /\ market.pt \in Nat /\ market.sy \in Nat
      /\ held.pt \in Nat /\ held.sy \in Nat /\ held.adapter \in Nat
    BY ONLY <1>4 DEF MarketRecord, HeldRecord
<1>6. /\ \E f \in FrameRecord :
            /\ flash' = <<f>>
            /\ f.kind = "yt" /\ f.pt = n /\ f.quote = none
            /\ f.advance = advance /\ f.before = 0
            /\ f.mem = market /\ f.undo.market = market
            /\ f.undo.lp = lp /\ f.undo.held = held
      /\ market' \in MarketRecord
      /\ market'.pt = market.pt /\ market'.sy = market.sy
      /\ market'.debt = n
    BY <1>1, <1>2, <1>3, OpenStep
<1>7. PICK f \in FrameRecord :
        /\ flash' = <<f>>
        /\ f.kind = "yt" /\ f.pt = n /\ f.quote = none
        /\ f.advance = advance /\ f.before = 0
        /\ f.mem = market /\ f.undo.market = market
        /\ f.undo.lp = lp /\ f.undo.held = held
    BY ONLY <1>6
<1>8. /\ held' \in HeldRecord /\ held'.pt = held.pt
      /\ held'.sy = held.sy /\ held'.adapter = held.adapter - advance
    <2>1. PICK x \in Nat : x = held.adapter - advance
        BY <1>2, <1>3, <1>5
    <2>2. held' = [held EXCEPT !.adapter = x]
        BY ONLY <1>2, <2>1
    <2>3. x \in Nat
        OBVIOUS
    <2>4. /\ held' \in HeldRecord /\ held'.pt = held.pt
          /\ held'.sy = held.sy /\ held'.adapter = x
        BY ONLY <1>4, <2>2, <2>3 DEF HeldRecord
    <2> QED BY ONLY <2>1, <2>4
<1>9. wallet' \in WalletRecord
    BY ONLY <1>2, <1>3, <1>4 DEF WalletRecord
<1>10. TypeOK'
    BY <1>1, <1>2, <1>4, <1>6, <1>8, <1>9, TypeStep
<1>11. WindowOK(f)'
    <2>1. Covers(held.pt, held.sy + held.adapter, market) /\ market.debt = 0
        BY <1>1 DEF RestOK
    <2>2. held.pt >= market.pt /\ held.sy + held.adapter >= market.sy
        BY ONLY <2>1 DEF Covers
    <2>3. f \in FrameRecord /\ lp' = lp
        BY <1>2
    <2>4. Covers(f.undo.held.pt, f.undo.held.sy + f.undo.held.adapter, f.mem)
        BY ONLY <1>7, <2>1
    <2>5. Covers(held'.pt, held'.sy + held'.adapter + f.advance, f.mem)
        BY ONLY <1>3, <1>5, <1>7, <1>8, <2>2 DEF Covers
    <2>6. 2 * f.pt <= f.mem.pt
        BY <1>2, <1>3, <1>5, <1>7
    <2> QED BY ONLY <1>6, <1>7, <2>1, <2>3, <2>4, <2>5, <2>6 DEF WindowOK
<1>12. IInv'
    BY ONLY <1>10, <1>11, f \in FrameRecord, WindowStep
<1>13. PoolStep
    BY <1>2, <1>6 DEF PoolStep
<1> QED BY <1>12, <1>13

-----------------------------------------------------------------------------
(* Closing a flash window.                                                 *)

(* The stack of one open window.                                           *)
LEMMA OneWindow ==
    ASSUME NEW f, flash = <<f>>
    PROVE  /\ Top = f /\ Pop = <<>>
           /\ flash[1] = f /\ Len(flash) = 1 /\ ~AtRest
    BY DEF Top, Pop, AtRest

(* Outside a window nothing closes one.                                    *)
LEMMA WindowOpen ==
    ASSUME IInv, ~AtRest
    PROVE  TypeOK /\ \E f \in FrameRecord : WindowOK(f)
    BY DEF IInv, RestOK, AtRest

(* What the frame of a window holds.                                       *)
LEMMA FrameFields ==
    ASSUME NEW f \in FrameRecord
    PROVE  /\ f.pt \in Nat \ {0} /\ f.quote \in QuoteRecord
           /\ f.advance \in Nat /\ f.before \in Nat
           /\ f.mem \in MarketRecord /\ f.undo \in UndoRecord
           /\ f.kind \in {"pt", "sy", "yt"}
    BY DEF FrameRecord

(* A step that closes the window.                                          *)
LEMMA CloseStep ==
    ASSUME TypeOK, flash' = <<>>,
           UNCHANGED <<now, rate, settings>>, vaultAth' \in {vaultAth, rate},
           market' \in MarketRecord, held' \in HeldRecord,
           wallet' \in WalletRecord, treasury' \in Nat, lp' \in Nat,
           limits' \in LimitsRecord, market'.debt = 0,
           Covers(held'.pt, held'.sy + held'.adapter, market')
    PROVE  IInv'
<1>1. TypeOK'
    BY TypeStep DEF TypeOK
<1>2. RestOK'
    BY DEF RestOK, Covers
<1> QED BY ONLY <1>1, <1>2 DEF IInv

(* flash_swap_pt from its callback on: the SY escrow has grown by the      *)
(* quote.                                                                  *)
LEMMA FlashSwapPtRepaidInv ==
    ASSUME IInv, FlashSwapPtRepaid
    PROVE  IInv' /\ PoolStep
<1>1. TypeOK /\ \E f \in FrameRecord : WindowOK(f)
    BY WindowOpen DEF FlashSwapPtRepaid
<1>2. PICK f \in FrameRecord : WindowOK(f)
    BY <1>1
<1>3. flash = <<f>> /\ f \in FrameRecord
    BY <1>2 DEF WindowOK
<1>4. Top = f /\ Pop = <<>>
    BY <1>3, OneWindow
<1>5. PICK q \in QuoteRecord, n \in Nat \ {0}, m \in MarketRecord :
        q = f.quote /\ n = f.pt /\ m = f.mem
    BY <1>3, FrameFields
<1>6. /\ f.kind = "pt" /\ flash' = <<>>
      /\ UNCHANGED <<now, rate, vaultAth, lp, wallet, settings, limits>>
      /\ held.sy >= f.before + q.sy + q.fee
      /\ held' = [held EXCEPT !.sy = @ - q.fee]
      /\ treasury' = treasury + q.fee
      /\ market' = DebtCleared(Bought(m, n, q))
    BY <1>4, <1>5 DEF FlashSwapPtRepaid
<1>7. /\ market.pt = m.pt /\ market.sy = m.sy
      /\ n <= m.pt /\ q.fee <= q.sy
      /\ Covers(held.pt + n, held.sy + held.adapter, m)
      /\ f.before + held.adapter >= m.sy
    BY ONLY <1>2, <1>5, <1>6 DEF WindowOK
<1>8. /\ market \in MarketRecord /\ held \in HeldRecord
      /\ wallet \in WalletRecord /\ treasury \in Nat /\ lp \in Nat
      /\ limits \in LimitsRecord
    BY <1>1 DEF TypeOK, LimitsRecord
<1>9. /\ m.pt \in Nat /\ m.sy \in Nat /\ q.sy \in Nat /\ q.fee \in Nat
      /\ held.pt \in Nat /\ held.sy \in Nat /\ held.adapter \in Nat
      /\ f.before \in Nat /\ n \in Nat \ {0}
    BY <1>3, <1>8, Ranges, FrameFields
<1>10. /\ market' \in MarketRecord
       /\ market'.pt = m.pt - n
       /\ market'.sy = m.sy + q.sy - q.fee
       /\ market'.debt = 0
    <2>1. PICK b \in MarketRecord :
            b = Bought(m, n, q) /\ b.pt = m.pt - n /\ b.sy = m.sy + q.sy - q.fee
        BY <1>7, <1>9, BoughtFields
    <2>2. market' = [b EXCEPT !.debt = 0] /\ b \in MarketRecord
        BY <1>6, <2>1 DEF DebtCleared
    <2>3. /\ market' \in MarketRecord /\ market'.pt = b.pt
          /\ market'.sy = b.sy /\ market'.debt = 0
        BY ONLY <2>2 DEF MarketRecord
    <2> QED BY ONLY <2>1, <2>3
<1>11. /\ held' \in HeldRecord /\ held'.pt = held.pt
       /\ held'.sy = held.sy - q.fee /\ held'.adapter = held.adapter
    <2>1. PICK x \in Nat : x = held.sy - q.fee
        BY <1>6, <1>9
    <2>2. held' = [held EXCEPT !.sy = x]
        BY ONLY <1>6, <2>1
    <2>3. x \in Nat
        OBVIOUS
    <2>4. /\ held' \in HeldRecord /\ held'.pt = held.pt
          /\ held'.sy = x /\ held'.adapter = held.adapter
        BY ONLY <1>8, <2>2, <2>3 DEF HeldRecord
    <2> QED BY ONLY <2>1, <2>4
<1>12. treasury' \in Nat /\ wallet' \in WalletRecord /\ lp' \in Nat
    <2>1. treasury' = treasury + q.fee /\ UNCHANGED <<wallet, lp>>
        BY ONLY <1>6
    <2>2. treasury \in Nat /\ q.fee \in Nat /\ lp \in Nat /\ wallet \in WalletRecord
        BY ONLY <1>8, <1>9
    <2>3. treasury + q.fee \in Nat
        BY ONLY <2>2
    <2> QED BY ONLY <2>1, <2>2, <2>3
<1>13. Covers(held'.pt, held'.sy + held'.adapter, market')
    <2>1. held.sy >= f.before + q.sy + q.fee
        BY ONLY <1>6
    <2> QED BY ONLY <1>7, <1>9, <1>10, <1>11, <2>1 DEF Covers
<1>14. IInv'
    BY <1>1, <1>6, <1>8, <1>10, <1>11, <1>12, <1>13, CloseStep
<1>15. PoolStep
    <2>1. market'.pt < market.pt /\ market'.sy >= market.sy
        BY <1>7, <1>9, <1>10
    <2> QED BY <1>6, <1>8, <1>10, <2>1, PoolBuys
<1> QED BY <1>14, <1>15

(* flash_swap_sy from its callback on: the PT escrow has grown by the PT   *)
(* sold.                                                                   *)
LEMMA FlashSwapSyRepaidInv ==
    ASSUME IInv, FlashSwapSyRepaid
    PROVE  IInv' /\ PoolStep
<1>1. TypeOK /\ \E f \in FrameRecord : WindowOK(f)
    BY WindowOpen DEF FlashSwapSyRepaid
<1>2. PICK f \in FrameRecord : WindowOK(f)
    BY <1>1
<1>3. flash = <<f>> /\ f \in FrameRecord
    BY <1>2 DEF WindowOK
<1>4. Top = f /\ Pop = <<>>
    BY <1>3, OneWindow
<1>5. PICK q \in QuoteRecord, n \in Nat \ {0}, m \in MarketRecord :
        q = f.quote /\ n = f.pt /\ m = f.mem
    BY <1>3, FrameFields
<1>6. /\ f.kind = "sy" /\ flash' = <<>>
      /\ UNCHANGED <<now, rate, vaultAth, lp, wallet, settings, limits>>
      /\ held.pt >= f.before + n /\ held.sy >= q.fee
      /\ m.sy >= q.sy + q.fee
      /\ held' = [held EXCEPT !.sy = @ - q.fee]
      /\ treasury' = treasury + q.fee
      /\ market' = DebtCleared(Sold(m, n, q))
    BY <1>4, <1>5 DEF FlashSwapSyRepaid
<1>7. /\ market.pt = m.pt /\ market.sy = m.sy
      /\ q.sy > 0
      /\ Covers(held.pt, held.sy + held.adapter + q.sy, m)
      /\ f.before >= m.pt
    BY ONLY <1>2, <1>5, <1>6 DEF WindowOK
<1>8. /\ market \in MarketRecord /\ held \in HeldRecord
      /\ wallet \in WalletRecord /\ treasury \in Nat /\ lp \in Nat
      /\ limits \in LimitsRecord
    BY <1>1 DEF TypeOK, LimitsRecord
<1>9. /\ m.pt \in Nat /\ m.sy \in Nat /\ q.sy \in Nat /\ q.fee \in Nat
      /\ held.pt \in Nat /\ held.sy \in Nat /\ held.adapter \in Nat
      /\ f.before \in Nat /\ n \in Nat \ {0}
    BY <1>3, <1>8, Ranges, FrameFields
<1>10. /\ market' \in MarketRecord
       /\ market'.pt = m.pt + n
       /\ market'.sy = m.sy - q.sy - q.fee
       /\ market'.debt = 0
    <2>1. q.sy + q.fee <= m.sy
        BY <1>6, <1>9
    <2>2. PICK b \in MarketRecord :
            b = Sold(m, n, q) /\ b.pt = m.pt + n /\ b.sy = m.sy - q.sy - q.fee
        BY <1>9, <2>1, SoldFields
    <2>3. market' = [b EXCEPT !.debt = 0] /\ b \in MarketRecord
        BY <1>6, <2>2 DEF DebtCleared
    <2>4. /\ market' \in MarketRecord /\ market'.pt = b.pt
          /\ market'.sy = b.sy /\ market'.debt = 0
        BY ONLY <2>3 DEF MarketRecord
    <2> QED BY ONLY <2>2, <2>4
<1>11. /\ held' \in HeldRecord /\ held'.pt = held.pt
       /\ held'.sy = held.sy - q.fee /\ held'.adapter = held.adapter
    <2>1. PICK x \in Nat : x = held.sy - q.fee
        BY <1>6, <1>9
    <2>2. held' = [held EXCEPT !.sy = x]
        BY ONLY <1>6, <2>1
    <2>3. x \in Nat
        OBVIOUS
    <2>4. /\ held' \in HeldRecord /\ held'.pt = held.pt
          /\ held'.sy = x /\ held'.adapter = held.adapter
        BY ONLY <1>8, <2>2, <2>3 DEF HeldRecord
    <2> QED BY ONLY <2>1, <2>4
<1>12. treasury' \in Nat /\ wallet' \in WalletRecord /\ lp' \in Nat
    <2>1. treasury' = treasury + q.fee /\ UNCHANGED <<wallet, lp>>
        BY ONLY <1>6
    <2>2. treasury \in Nat /\ q.fee \in Nat /\ lp \in Nat /\ wallet \in WalletRecord
        BY ONLY <1>8, <1>9
    <2>3. treasury + q.fee \in Nat
        BY ONLY <2>2
    <2> QED BY ONLY <2>1, <2>2, <2>3
<1>13. Covers(held'.pt, held'.sy + held'.adapter, market')
    <2>1. held.pt >= f.before + n
        BY ONLY <1>6
    <2> QED BY ONLY <1>7, <1>9, <1>10, <1>11, <2>1 DEF Covers
<1>14. IInv'
    BY <1>1, <1>6, <1>8, <1>10, <1>11, <1>12, <1>13, CloseStep
<1>15. PoolStep
    <2>1. market'.pt > market.pt /\ market'.sy < market.sy
        BY <1>7, <1>9, <1>10
    <2> QED BY <1>6, <1>8, <1>10, <2>1, PoolSells
<1> QED BY <1>14, <1>15

(* flash_sell_yt from its callback on.                                     *)
LEMMA FlashSellYtDeliveredInv ==
    ASSUME IInv, FlashSellYtDelivered
    PROVE  IInv' /\ PoolStep
<1>1. TypeOK /\ \E f \in FrameRecord : WindowOK(f)
    BY WindowOpen DEF FlashSellYtDelivered
<1>2. PICK f \in FrameRecord : WindowOK(f)
    BY <1>1
<1>3. flash = <<f>> /\ f \in FrameRecord
    BY <1>2 DEF WindowOK
<1>4. Top = f /\ Pop = <<>>
    BY <1>3, OneWindow
<1>5. PICK n \in Nat \ {0}, a \in Nat, m \in MarketRecord :
        n = f.pt /\ a = f.advance /\ m = f.mem
    BY <1>3, FrameFields
<1>6. /\ f.kind = "yt" /\ flash' = <<>>
      /\ UNCHANGED <<now, rate, lp, settings, limits>>
      /\ vaultAth' = rate
      /\ wallet.yt >= n /\ held.pt >= 2 * n
    BY <1>4, <1>5 DEF FlashSellYtDelivered, VaultConverts
<1>7. PICK q \in Quotes :
        /\ rate > 0 /\ q.fee <= q.sy
        /\ PyToSy(rate, n) >= q.sy + a
        /\ market' = [DebtCleared(Bought(m, n, q)) EXCEPT !.isFlash = TRUE]
        /\ held' = [HeldBought(held, n, q) EXCEPT !.adapter = @ + a]
        /\ wallet' = [wallet EXCEPT !.yt = @ - n,
                                    !.sy = @ + PyToSy(rate, n) - q.sy - a]
        /\ treasury' = treasury + q.fee
    BY <1>4, <1>5 DEF FlashSellYtDelivered
<1>8. /\ market.pt = m.pt /\ market.sy = m.sy
      /\ 2 * n <= m.pt
      /\ Covers(held.pt, held.sy + held.adapter + a, m)
    BY ONLY <1>2, <1>5, <1>6 DEF WindowOK
<1>9. /\ market \in MarketRecord /\ held \in HeldRecord
      /\ wallet \in WalletRecord /\ treasury \in Nat /\ lp \in Nat
      /\ limits \in LimitsRecord /\ rate \in Nat
    BY <1>1 DEF TypeOK, LimitsRecord
<1>10. q \in QuoteRecord /\ q.sy > 0
    BY <1>1, QuoteType
<1>11. /\ m.pt \in Nat /\ m.sy \in Nat /\ q.sy \in Nat /\ q.fee \in Nat
       /\ held.pt \in Nat /\ held.sy \in Nat /\ held.adapter \in Nat
       /\ n \in Nat \ {0} /\ a \in Nat
    BY <1>9, <1>10, Ranges
<1>12. PICK c \in Nat : c = PyToSy(rate, n)
    <2>1. rate \in Nat \ {0} /\ n \in Nat
        BY <1>7, <1>9, <1>11
    <2> QED BY ONLY <2>1, ConversionNat
<1>13. /\ market' \in MarketRecord
       /\ market'.pt = m.pt - n
       /\ market'.sy = m.sy + q.sy - q.fee
       /\ market'.debt = 0
    <2>1. n <= m.pt
        BY <1>8, <1>11
    <2>2. PICK b \in MarketRecord :
            b = Bought(m, n, q) /\ b.pt = m.pt - n /\ b.sy = m.sy + q.sy - q.fee
        BY <1>7, <1>10, <1>11, <2>1, BoughtFields
    <2>3. PICK d : d = DebtCleared(b)
        OBVIOUS
    <2>4. d \in MarketRecord /\ d.pt = b.pt /\ d.sy = b.sy /\ d.debt = 0
        BY ONLY <2>2, <2>3, b \in MarketRecord DEF DebtCleared, MarketRecord
    <2>5. market' = [d EXCEPT !.isFlash = TRUE]
        BY ONLY <1>7, <2>2, <2>3
    <2>6. /\ market' \in MarketRecord /\ market'.pt = d.pt
          /\ market'.sy = d.sy /\ market'.debt = 0
        BY ONLY <2>4, <2>5 DEF MarketRecord
    <2> QED BY ONLY <2>2, <2>4, <2>6
<1>14. /\ held' \in HeldRecord /\ held'.pt = held.pt - n
       /\ held'.sy = held.sy
       /\ held'.adapter = held.adapter + q.sy - q.fee + a
    <2>1. n <= held.pt
        BY <1>6, <1>11
    <2>2. PICK h \in HeldRecord :
            /\ h = HeldBought(held, n, q)
            /\ h.pt = held.pt - n /\ h.sy = held.sy
            /\ h.adapter = held.adapter + q.sy - q.fee
        BY <1>7, <1>9, <1>10, <1>11, <2>1, HeldBoughtFields
    <2>3. PICK x \in Nat : x = h.adapter + a /\ x = held.adapter + q.sy - q.fee + a
        BY <1>7, <1>11, <2>2
    <2>4. held' = [h EXCEPT !.adapter = x] /\ h \in HeldRecord /\ x \in Nat
        BY <1>7, <2>2, <2>3
    <2>5. /\ held' \in HeldRecord /\ held'.pt = h.pt
          /\ held'.sy = h.sy /\ held'.adapter = x
        BY ONLY <2>4 DEF HeldRecord
    <2> QED BY ONLY <2>2, <2>3, <2>5
<1>15. wallet' \in WalletRecord
    <2>0. wallet.yt \in Nat /\ wallet.sy \in Nat
        BY ONLY <1>9 DEF WalletRecord
    <2>1. PICK x \in Nat, y \in Nat : x = wallet.yt - n /\ y = wallet.sy + c - q.sy - a
        <3>1. c >= q.sy + a /\ wallet.yt >= n
            BY ONLY <1>6, <1>7, <1>12
        <3>2. wallet.yt - n \in Nat
            BY ONLY <1>11, <2>0, <3>1
        <3>3. wallet.sy + c - q.sy - a \in Nat
            BY ONLY <1>11, <2>0, <3>1, c \in Nat
        <3> QED BY ONLY <3>2, <3>3
    <2>2. wallet' = [wallet EXCEPT !.yt = x, !.sy = y]
        BY ONLY <1>7, <1>12, <2>1
    <2>3. x \in Nat /\ y \in Nat
        OBVIOUS
    <2> QED BY ONLY <1>9, <2>2, <2>3 DEF WalletRecord
<1>16. treasury' \in Nat /\ lp' \in Nat
    <2>1. treasury' = treasury + q.fee /\ lp' = lp
        BY ONLY <1>6, <1>7
    <2>2. treasury \in Nat /\ q.fee \in Nat /\ lp \in Nat
        BY ONLY <1>9, <1>11
    <2> QED BY ONLY <2>1, <2>2
<1>17. Covers(held'.pt, held'.sy + held'.adapter, market')
    BY ONLY <1>8, <1>11, <1>13, <1>14 DEF Covers
<1>18. IInv'
    BY <1>1, <1>6, <1>9, <1>13, <1>14, <1>15, <1>16, <1>17, CloseStep
<1>19. PoolStep
    <2>1. q.fee <= q.sy
        BY <1>7
    <2>2. market'.pt < market.pt /\ market'.sy >= market.sy
        BY ONLY <1>8, <1>11, <1>13, <2>1
    <2> QED BY <1>6, <1>9, <1>13, <2>2, PoolBuys
<1> QED BY <1>18, <1>19

(* A failed transaction restores what its window found.                    *)
LEMMA TransactionFailsInv ==
    ASSUME IInv, TransactionFails
    PROVE  IInv' /\ PoolStep
<1>1. TypeOK /\ \E f \in FrameRecord : WindowOK(f)
    BY WindowOpen DEF TransactionFails
<1>2. PICK f \in FrameRecord : WindowOK(f)
    BY <1>1
<1>3. flash = <<f>> /\ f \in FrameRecord
    BY <1>2 DEF WindowOK
<1>4. flash[1] = f
    BY <1>3
<1>5. PICK u \in UndoRecord, m \in MarketRecord : u = f.undo /\ m = f.mem
    BY <1>3, FrameFields
<1>6. /\ market' = u.market /\ lp' = u.lp /\ held' = u.held
      /\ wallet' = u.wallet /\ treasury' = u.treasury
      /\ flash' = <<>>
      /\ UNCHANGED <<now, rate, vaultAth, settings, limits>>
    BY <1>4, <1>5 DEF TransactionFails
<1>7. /\ u.market = m /\ u.lp = lp /\ m.debt = 0
      /\ market.pt = m.pt /\ market.sy = m.sy
      /\ Covers(u.held.pt, u.held.sy + u.held.adapter, m)
    BY ONLY <1>2, <1>5 DEF WindowOK
<1>8. /\ u.market \in MarketRecord /\ u.lp \in Nat /\ u.held \in HeldRecord
      /\ u.wallet \in WalletRecord /\ u.treasury \in Nat
    BY ONLY u \in UndoRecord DEF UndoRecord
<1>9. limits' \in LimitsRecord
    BY <1>1, <1>6 DEF TypeOK, LimitsRecord
<1>10. Covers(held'.pt, held'.sy + held'.adapter, market') /\ market'.debt = 0
    BY ONLY <1>6, <1>7
<1>11. IInv'
    BY <1>1, <1>6, <1>8, <1>9, <1>10, CloseStep
<1>12. market'.pt = market.pt /\ market'.sy = market.sy /\ lp' = lp
    BY ONLY <1>6, <1>7
<1> QED BY <1>11, <1>12 DEF PoolStep

-----------------------------------------------------------------------------
(* The steps that may happen in a window as well as outside one.           *)

(* A step that leaves market, LP supply and window alone.                  *)
LEMMA BystanderStep ==
    ASSUME IInv, TypeOK', UNCHANGED <<market, lp, flash>>,
           held'.pt >= held.pt, held'.sy >= held.sy, held'.adapter = held.adapter
    PROVE  IInv' /\ PoolStep
<1>1. TypeOK /\ held' \in HeldRecord /\ market \in MarketRecord
    BY DEF IInv, TypeOK
<1>2. /\ held.pt \in Nat /\ held.sy \in Nat /\ held.adapter \in Nat
      /\ held'.pt \in Nat /\ held'.sy \in Nat
    BY <1>1 DEF TypeOK, HeldRecord
<1>3. ASSUME RestOK PROVE RestOK'
    <2>1. Covers(held.pt, held.sy + held.adapter, market) /\ market.debt = 0 /\ flash = <<>>
        BY <1>3 DEF RestOK
    <2>2. market.pt \in Nat /\ market.sy \in Nat
        BY <1>1 DEF MarketRecord
    <2>3. Covers(held'.pt, held'.sy + held'.adapter, market)
        BY <1>2, <2>1, <2>2 DEF Covers
    <2> QED BY <2>1, <2>3 DEF RestOK, Covers
<1>4. ASSUME NEW f \in FrameRecord, WindowOK(f) PROVE WindowOK(f)'
    <2>1. /\ f.mem \in MarketRecord /\ f.pt \in Nat /\ f.advance \in Nat
          /\ f.quote \in QuoteRecord /\ f.before \in Nat
        BY FrameFields
    <2>2. f.quote.sy \in Nat /\ f.mem.sy \in Nat /\ f.mem.pt \in Nat
        BY ONLY <2>1 DEF QuoteRecord, MarketRecord
    <2>3. /\ flash' = <<f>> /\ f \in FrameRecord
          /\ market'.debt = f.pt /\ market'.pt = f.mem.pt /\ market'.sy = f.mem.sy
          /\ f.mem.debt = 0
          /\ f.undo.market = f.mem /\ f.undo.lp = lp'
          /\ Covers(f.undo.held.pt, f.undo.held.sy + f.undo.held.adapter, f.mem)
        BY <1>4 DEF WindowOK
    <2>4. ASSUME f.kind = "pt"
          PROVE  /\ f.pt <= f.mem.pt /\ f.quote.fee <= f.quote.sy
                 /\ Covers(held'.pt + f.pt, held'.sy + held'.adapter, f.mem)
                 /\ f.before + held'.adapter >= f.mem.sy
        <3>1. /\ f.pt <= f.mem.pt /\ f.quote.fee <= f.quote.sy
              /\ Covers(held.pt + f.pt, held.sy + held.adapter, f.mem)
              /\ f.before + held.adapter >= f.mem.sy
            BY ONLY <1>4, <2>4 DEF WindowOK
        <3>2. Covers(held'.pt + f.pt, held'.sy + held'.adapter, f.mem)
            BY ONLY <1>2, <2>1, <2>2, <3>1, held'.pt >= held.pt,
                    held'.sy >= held.sy, held'.adapter = held.adapter DEF Covers
        <3> QED BY ONLY <3>1, <3>2, held'.adapter = held.adapter
    <2>5. ASSUME f.kind = "sy"
          PROVE  /\ f.quote.sy > 0
                 /\ Covers(held'.pt, held'.sy + held'.adapter + f.quote.sy, f.mem)
                 /\ f.before >= f.mem.pt
        <3>1. /\ f.quote.sy > 0
              /\ Covers(held.pt, held.sy + held.adapter + f.quote.sy, f.mem)
              /\ f.before >= f.mem.pt
            BY ONLY <1>4, <2>5 DEF WindowOK
        <3>2. Covers(held'.pt, held'.sy + held'.adapter + f.quote.sy, f.mem)
            BY ONLY <1>2, <2>2, <3>1, held'.pt >= held.pt,
                    held'.sy >= held.sy, held'.adapter = held.adapter DEF Covers
        <3> QED BY ONLY <3>1, <3>2
    <2>6. ASSUME f.kind = "yt"
          PROVE  /\ 2 * f.pt <= f.mem.pt
                 /\ Covers(held'.pt, held'.sy + held'.adapter + f.advance, f.mem)
        <3>1. /\ 2 * f.pt <= f.mem.pt
              /\ Covers(held.pt, held.sy + held.adapter + f.advance, f.mem)
            BY ONLY <1>4, <2>6 DEF WindowOK
        <3>2. Covers(held'.pt, held'.sy + held'.adapter + f.advance, f.mem)
            BY ONLY <1>2, <2>1, <2>2, <3>1, held'.pt >= held.pt,
                    held'.sy >= held.sy, held'.adapter = held.adapter DEF Covers
        <3> QED BY ONLY <3>1, <3>2
    <2> QED BY ONLY <2>3, <2>4, <2>5, <2>6 DEF WindowOK
<1>5. IInv'
    BY <1>3, <1>4 DEF IInv
<1> QED BY <1>5 DEF PoolStep

(* Tokens sent to an escrow.                                               *)
LEMMA TransfersInv ==
    ASSUME IInv, NEW n \in Nat, TransferPtIn(n) \/ TransferSyIn(n)
    PROVE  IInv' /\ PoolStep
<1>1. TypeOK /\ n \in Nat
    BY MarketAssumptions DEF IInv
<1>2. /\ market \in MarketRecord /\ held \in HeldRecord
      /\ wallet \in WalletRecord /\ treasury \in Nat /\ lp \in Nat
      /\ limits \in LimitsRecord /\ rate \in Nat
    BY <1>1 DEF TypeOK, LimitsRecord
<1>3. /\ UNCHANGED <<now, rate, vaultAth, market, lp, treasury, settings, limits, flash>>
    BY DEF TransferPtIn, TransferSyIn
<1>4. /\ wallet' \in WalletRecord /\ held' \in HeldRecord
      /\ held'.pt >= held.pt /\ held'.sy >= held.sy /\ held'.adapter = held.adapter
    <2>1. CASE TransferPtIn(n)
        <3>1. /\ wallet.pt >= n
              /\ wallet' = [wallet EXCEPT !.pt = @ - n]
              /\ held' = [held EXCEPT !.pt = @ + n]
            BY ONLY <2>1 DEF TransferPtIn
        <3>2. wallet' \in WalletRecord
            BY ONLY <1>1, <1>2, <3>1 DEF WalletRecord
        <3>3. /\ held' \in HeldRecord
              /\ held'.pt >= held.pt /\ held'.sy >= held.sy
              /\ held'.adapter = held.adapter
            BY ONLY <1>1, <1>2, <3>1 DEF HeldRecord
        <3> QED BY ONLY <3>2, <3>3
    <2>2. CASE TransferSyIn(n)
        <3>1. /\ wallet.sy >= n
              /\ wallet' = [wallet EXCEPT !.sy = @ - n]
              /\ held' = [held EXCEPT !.sy = @ + n]
            BY ONLY <2>2 DEF TransferSyIn
        <3>2. wallet' \in WalletRecord
            BY ONLY <1>1, <1>2, <3>1 DEF WalletRecord
        <3>3. /\ held' \in HeldRecord
              /\ held'.pt >= held.pt /\ held'.sy >= held.sy
              /\ held'.adapter = held.adapter
            BY ONLY <1>1, <1>2, <3>1 DEF HeldRecord
        <3> QED BY ONLY <3>2, <3>3
    <2> QED BY <2>1, <2>2
<1>5. TypeOK'
    BY <1>1, <1>2, <1>3, <1>4, TypeStep
<1> QED BY <1>3, <1>4, <1>5, BystanderStep

(* The clock, the SY program, the curator, and no step at all.             *)
LEMMA EnvironmentInv ==
    ASSUME IInv,
           \/ Tick \/ SyRateMoves \/ ModifyMarketSetting
           \/ ChangeLiquidityNetBalanceLimits \/ UNCHANGED vars
    PROVE  IInv' /\ PoolStep
<1>1. TypeOK
    BY DEF IInv
<1>2. UNCHANGED <<vaultAth, market, lp, held, wallet, treasury, flash>>
    BY DEF Tick, SyRateMoves, ModifyMarketSetting,
           ChangeLiquidityNetBalanceLimits, accounts, vars
<1>3. now' \in Nat /\ rate' \in Nat /\ settings' \in SettingsRecord
    BY <1>1, MarketAssumptions
    DEF Tick, SyRateMoves, ModifyMarketSetting, ChangeLiquidityNetBalanceLimits,
        accounts, vars, TypeOK
<1>4. limits' \in LimitsRecord
    <2>1. CASE ChangeLiquidityNetBalanceLimits
        <3>1. PICK c \in LimitChoices :
                limits' = [start |-> now, balance |-> limits.balance,
                           maxNeg |-> c.maxNeg, maxPos |-> c.maxPos,
                           duration |-> c.duration]
            BY <2>1 DEF ChangeLiquidityNetBalanceLimits
        <3>2. c \in LimitRecord /\ now \in Nat /\ limits.balance \in Nat
            BY <1>1, MarketAssumptions DEF TypeOK
        <3> QED BY ONLY <3>1, <3>2 DEF LimitRecord, LimitsRecord
    <2>2. CASE Tick \/ SyRateMoves \/ ModifyMarketSetting \/ UNCHANGED vars
        <3>1. limits' = limits
            BY <2>2 DEF Tick, SyRateMoves, ModifyMarketSetting, vars
        <3> QED BY <1>1, <3>1 DEF TypeOK, LimitsRecord
    <2> QED BY <2>1, <2>2
<1>5. TypeOK'
    BY <1>1, <1>2, <1>3, <1>4 DEF TypeOK, LimitsRecord
<1>6. held'.pt >= held.pt /\ held'.sy >= held.sy /\ held'.adapter = held.adapter
    BY <1>1, <1>2 DEF TypeOK, HeldRecord
<1> QED BY <1>2, <1>5, <1>6, BystanderStep

-----------------------------------------------------------------------------
(* The inductive invariant of the specification.                           *)

(* market_two_init establishes the invariant.                              *)
LEMMA InitInv == Init => IInv
<1> SUFFICES ASSUME Init PROVE IInv
    OBVIOUS
<1>1. PICK pool \in InitialPools : Seeded(pool)
    BY DEF Init
<1>2. PICK p \in Nat, s \in Nat : p = pool[1] /\ s = pool[2]
    <2>1. pool \in Nat \X Nat
        BY MarketAssumptions
    <2> QED BY <2>1
<1>3. market \in MarketRecord /\ market.pt = p /\ market.sy = s /\ market.debt = 0
    <2>1. market = [pt |-> p, sy |-> s, debt |-> 0, isFlash |-> FALSE]
        BY ONLY <1>1, <1>2 DEF Seeded
    <2> QED BY ONLY <2>1, p \in Nat, s \in Nat DEF MarketRecord
<1>4. held \in HeldRecord /\ held.pt = p /\ held.sy + held.adapter = s
    <2>1. held = [pt |-> p, sy |-> 0, adapter |-> s]
        BY ONLY <1>1, <1>2 DEF Seeded
    <2> QED BY ONLY <2>1, p \in Nat, s \in Nat DEF HeldRecord
<1>5. lp \in Nat
    <2>1. PICK root \in 0..((pool[1] + VirtualPt) * (pool[2] + VirtualSy)) :
            lp = InitialLp(root)
        BY ONLY <1>1 DEF Seeded
    <2>2. root \in Int
        OBVIOUS
    <2>3. VirtualLp \in Int
        BY MarketAssumptions
    <2>4. root - VirtualLp \in Int
        BY ONLY <2>2, <2>3
    <2>5. lp = IF 0 >= root - VirtualLp THEN 0 ELSE root - VirtualLp
        BY ONLY <2>1 DEF InitialLp, Larger
    <2> QED BY ONLY <2>4, <2>5
<1>6. /\ now \in Nat /\ rate \in Nat /\ vaultAth \in Nat /\ treasury \in Nat
      /\ wallet \in WalletRecord /\ settings \in SettingsRecord
    BY MarketAssumptions DEF Init
<1>7. limits \in LimitsRecord
    BY MarketAssumptions DEF Init, LimitsRecord
<1>8. TypeOK
    BY ONLY <1>3, <1>4, <1>5, <1>6, <1>7 DEF TypeOK, LimitsRecord
<1>9. RestOK
    <2>1. flash = <<>>
        BY DEF Init
    <2>2. Covers(held.pt, held.sy + held.adapter, market)
        BY ONLY <1>3, <1>4, p \in Nat, s \in Nat DEF Covers
    <2> QED BY ONLY <1>3, <2>1, <2>2 DEF RestOK
<1> QED BY ONLY <1>8, <1>9 DEF IInv

(* Every step keeps the invariant, and is a step of the pool or none.      *)
LEMMA NextInv == IInv /\ [Next]_vars => IInv' /\ PoolStep
<1> SUFFICES ASSUME IInv, [Next]_vars PROVE IInv' /\ PoolStep
    OBVIOUS
<1>1. CASE \/ Tick \/ SyRateMoves \/ ModifyMarketSetting
           \/ ChangeLiquidityNetBalanceLimits \/ UNCHANGED vars
    BY <1>1, EnvironmentInv
<1>2. CASE \E n \in Amounts : TransferPtIn(n) \/ TransferSyIn(n)
    BY <1>2, MarketAssumptions, TransfersInv
<1>3. CASE \E n \in Amounts : TradePtBuy(n)
    BY <1>3, MarketAssumptions, TradePtBuyInv
<1>4. CASE \E n \in Amounts : TradePtSell(n)
    BY <1>4, MarketAssumptions, TradePtSellInv
<1>5. CASE \E p, s \in Amounts : DepositLiquidity(p, s)
    BY <1>5, MarketAssumptions, DepositLiquidityInv
<1>6. CASE \E n \in Amounts : WithdrawLiquidity(n)
    BY <1>6, MarketAssumptions, WithdrawLiquidityInv
<1>7. CASE \E s, y \in Amounts : BuyYt(s, y)
    BY <1>7, MarketAssumptions, BuyYtInv
<1>8. CASE \E n \in Amounts : SellYt(n)
    BY <1>8, MarketAssumptions, SellYtInv
<1>9. CASE \E n \in Amounts : FlashSwapPt(n)
    BY <1>9, MarketAssumptions, FlashSwapPtInv
<1>10. CASE FlashSwapPtRepaid
    BY <1>10, FlashSwapPtRepaidInv
<1>11. CASE \E n \in Amounts : FlashSwapSy(n)
    BY <1>11, MarketAssumptions, FlashSwapSyInv
<1>12. CASE FlashSwapSyRepaid
    BY <1>12, FlashSwapSyRepaidInv
<1>13. CASE \E n, a \in Amounts : FlashSellYt(n, a)
    BY <1>13, MarketAssumptions, FlashSellYtInv
<1>14. CASE FlashSellYtDelivered
    BY <1>14, FlashSellYtDeliveredInv
<1>15. CASE TransactionFails
    BY <1>15, TransactionFailsInv
<1> QED BY <1>1, <1>2, <1>3, <1>4, <1>5, <1>6, <1>7, <1>8, <1>9, <1>10, <1>11,
           <1>12, <1>13, <1>14, <1>15 DEF Next

(* The inductive invariant holds of every reachable state.                 *)
THEOREM InvariantHolds == Spec => []IInv
<1>1. IInv /\ [Next]_vars => IInv'
    BY NextInv
<1> QED BY InitInv, <1>1, PTL DEF Spec

-----------------------------------------------------------------------------
(* Consequences.                                                           *)

(* No handler of the market, whatever the callback of a flash instruction  *)
(* does, takes a balance below zero.                                       *)
THEOREM TypeCorrect == Spec => []TypeOK
<1>1. IInv => TypeOK
    BY DEF IInv
<1> QED BY InvariantHolds, <1>1, PTL

(* The invariant has the tokens held cover the reserves and the loan.      *)
LEMMA InvariantReserves == IInv => ReservesHeld
<1> SUFFICES ASSUME IInv PROVE ReservesHeld
    OBVIOUS
<1>1. /\ held.pt \in Nat /\ held.sy \in Nat /\ held.adapter \in Nat
      /\ market.pt \in Nat /\ market.sy \in Nat
    BY DEF IInv, TypeOK, HeldRecord, MarketRecord
<1>2. CASE RestOK
    <2>1. LentPt = 0 /\ LentSy = 0
        BY <1>2 DEF RestOK, LentPt, LentSy, AtRest
    <2>2. held.pt >= market.pt /\ held.sy + held.adapter >= market.sy
        BY ONLY <1>2 DEF RestOK, Covers
    <2> QED BY ONLY <1>1, <2>1, <2>2 DEF ReservesHeld
<1>3. CASE \E f \in FrameRecord : WindowOK(f)
    <2>1. PICK f \in FrameRecord : WindowOK(f)
        BY <1>3
    <2>2. Top = f /\ ~AtRest
        BY <2>1, OneWindow DEF WindowOK
    <2>3. /\ f.kind \in {"pt", "sy", "yt"}
          /\ f.pt \in Nat /\ f.advance \in Nat /\ f.quote.sy \in Nat
        BY FrameFields DEF QuoteRecord
    <2>4. market.pt = f.mem.pt /\ market.sy = f.mem.sy
        BY ONLY <2>1 DEF WindowOK
    <2>5. CASE f.kind = "pt"
        <3>1. Covers(held.pt + f.pt, held.sy + held.adapter, f.mem)
            BY ONLY <2>1, <2>5 DEF WindowOK
        <3>2. LentPt = f.pt /\ LentSy = 0
            BY ONLY <2>2, <2>5 DEF LentPt, LentSy
        <3> QED BY ONLY <1>1, <2>3, <2>4, <3>1, <3>2 DEF ReservesHeld, Covers
    <2>6. CASE f.kind = "sy"
        <3>1. Covers(held.pt, held.sy + held.adapter + f.quote.sy, f.mem)
            BY ONLY <2>1, <2>6 DEF WindowOK
        <3>2. LentPt = 0 /\ LentSy = f.quote.sy
            BY ONLY <2>2, <2>6 DEF LentPt, LentSy
        <3> QED BY ONLY <1>1, <2>3, <2>4, <3>1, <3>2 DEF ReservesHeld, Covers
    <2>7. CASE f.kind = "yt"
        <3>1. Covers(held.pt, held.sy + held.adapter + f.advance, f.mem)
            BY ONLY <2>1, <2>7 DEF WindowOK
        <3>2. LentPt = 0 /\ LentSy = f.advance
            BY ONLY <2>2, <2>7 DEF LentPt, LentSy
        <3> QED BY ONLY <1>1, <2>3, <2>4, <3>1, <3>2 DEF ReservesHeld, Covers
    <2> QED BY ONLY <2>3, <2>5, <2>6, <2>7
<1> QED BY <1>2, <1>3 DEF IInv

(* I-M1 and I-F4: the tokens held cover the reserves tracked, less what an *)
(* open flash window has lent.                                             *)
THEOREM ReservesCovered == Spec => []ReservesHeld
<1> QED BY InvariantHolds, InvariantReserves, PTL

(* The invariant has the debt mark the one open window.                    *)
LEMMA InvariantMarks == IInv => DebtMarksWindow
<1> SUFFICES ASSUME IInv PROVE DebtMarksWindow
    OBVIOUS
<1>1. CASE RestOK
    <2>1. flash = <<>> /\ market.debt = 0
        BY ONLY <1>1 DEF RestOK
    <2> QED BY ONLY <2>1 DEF DebtMarksWindow, AtRest
<1>2. CASE \E f \in FrameRecord : WindowOK(f)
    <2>1. PICK f \in FrameRecord : WindowOK(f)
        BY <1>2
    <2>2. flash = <<f>> /\ market.debt = f.pt
        BY ONLY <2>1 DEF WindowOK
    <2>3. Len(flash) = 1 /\ ~AtRest
        BY <2>2, OneWindow
    <2>4. f.pt \in Nat \ {0}
        BY FrameFields
    <2> QED BY ONLY <2>2, <2>3, <2>4 DEF DebtMarksWindow
<1> QED BY <1>1, <1>2 DEF IInv

(* I-F1: the debt on the account marks exactly the open window, and there  *)
(* is at most one, for any depth of nested calls.                          *)
THEOREM OneDebtOneWindow == Spec => []DebtMarksWindow
<1> QED BY InvariantHolds, InvariantMarks, PTL

(* The market refines the atomic pool: every flash is one trade or nothing, *)
(* and no liquidity operation dilutes the other providers (I-M2, I-M3).    *)
THEOREM Refinement == Spec => ImplementsPool
<1>1. Init => Pool!PoolInit
    BY InitInv DEF IInv, TypeOK, MarketRecord, Pool!PoolInit
<1>2. IInv /\ [Next]_vars => [Pool!PoolNext]_(Pool!poolVars)
    BY NextInv DEF PoolStep, Pool!poolVars
<1> QED BY InvariantHolds, <1>1, <1>2, PTL DEF Spec, ImplementsPool, Pool!PoolSpec

(* I-F1: while a window stays open nothing moves the market, so the copy   *)
(* that its handler writes back at the end loses no update.                *)
THEOREM Isolation == Spec => WindowIsolated
<1>1. IInv /\ [Next]_vars
        => (~AtRest /\ flash' = flash => market' = market /\ lp' = lp)
    <2> SUFFICES ASSUME IInv, [Next]_vars, ~AtRest, flash' = flash
                 PROVE  market' = market /\ lp' = lp
        OBVIOUS
    <2>1. ~FlashClosed
        BY OpenShutsGate
    <2>2. PICK f \in FrameRecord : flash = <<f>>
        BY WindowOpen DEF WindowOK
    <2>3. Pop = <<>> /\ flash # <<>>
        BY ONLY <2>2, OneWindow
    <2>4. CASE \/ Tick \/ SyRateMoves \/ ModifyMarketSetting
               \/ ChangeLiquidityNetBalanceLimits \/ UNCHANGED vars
        BY <2>4 DEF Tick, SyRateMoves, ModifyMarketSetting,
                    ChangeLiquidityNetBalanceLimits, vars, accounts
    <2>5. CASE \E n \in Amounts : TransferPtIn(n) \/ TransferSyIn(n)
        BY <2>5 DEF TransferPtIn, TransferSyIn
    <2>6. ~\E n, m \in Amounts :
              \/ TradePtBuy(n) \/ TradePtSell(n) \/ DepositLiquidity(n, m)
              \/ WithdrawLiquidity(n) \/ BuyYt(n, m) \/ SellYt(n)
              \/ FlashSwapPt(n) \/ FlashSwapSy(n) \/ FlashSellYt(n, m)
        BY <2>1, GateHolds, Zenon
    <2>7. CASE FlashSwapPtRepaid \/ FlashSwapSyRepaid
        BY <2>3, <2>7 DEF FlashSwapPtRepaid, FlashSwapSyRepaid
    <2>8. CASE FlashSellYtDelivered \/ TransactionFails
        BY <2>3, <2>8 DEF FlashSellYtDelivered, TransactionFails
    <2> QED BY <2>4, <2>5, <2>6, <2>7, <2>8 DEF Next
<1> QED BY InvariantHolds, <1>1, PTL DEF Spec, WindowIsolated

(* Only a withdrawal lowers the supply of LP tokens.                       *)
LEMMA SupplyFalls ==
    ASSUME IInv, [Next]_vars, lp' < lp
    PROVE  \E n \in Amounts : WithdrawLiquidity(n)
<1>1. TypeOK /\ lp \in Nat
    BY DEF IInv, TypeOK
<1>2. lp' # lp
    BY <1>1
<1>3. ~(\/ Tick \/ SyRateMoves \/ ModifyMarketSetting
        \/ ChangeLiquidityNetBalanceLimits \/ UNCHANGED vars)
    BY <1>2 DEF Tick, SyRateMoves, ModifyMarketSetting,
                ChangeLiquidityNetBalanceLimits, vars, accounts
<1>4. ~\E n \in Amounts : \/ TransferPtIn(n) \/ TransferSyIn(n)
                          \/ TradePtBuy(n) \/ TradePtSell(n) \/ SellYt(n)
    BY <1>2 DEF TransferPtIn, TransferSyIn, TradePtBuy, TradePtSell, SellYt
<1>5. ~\E s, y \in Amounts : BuyYt(s, y)
    BY <1>2 DEF BuyYt
<1>6. ~\/ \E n \in Amounts : FlashSwapPt(n) \/ FlashSwapSy(n)
       \/ \E n, a \in Amounts : FlashSellYt(n, a)
    BY <1>2 DEF FlashSwapPt, FlashSwapSy, FlashSellYt
<1>7. ~(FlashSwapPtRepaid \/ FlashSwapSyRepaid \/ FlashSellYtDelivered)
    BY <1>2 DEF FlashSwapPtRepaid, FlashSwapSyRepaid, FlashSellYtDelivered
<1>8. ~TransactionFails
    <2> SUFFICES ASSUME TransactionFails PROVE FALSE
        OBVIOUS
    <2>1. PICK f \in FrameRecord : WindowOK(f)
        BY WindowOpen DEF TransactionFails
    <2>2. flash = <<f>> /\ f.undo.lp = lp
        BY ONLY <2>1 DEF WindowOK
    <2>3. lp' = flash[1].undo.lp
        BY DEF TransactionFails
    <2> QED BY ONLY <1>2, <2>2, <2>3
<1>9. ~\E p, s \in Amounts : DepositLiquidity(p, s)
    <2> SUFFICES ASSUME NEW p \in Amounts, NEW s \in Amounts, DepositLiquidity(p, s)
                 PROVE  FALSE
        OBVIOUS
    <2>1. Added(p, s).lp \in Nat
        BY <1>1, AddedPays, MarketAssumptions
    <2>2. lp' = lp + Added(p, s).lp
        BY DEF DepositLiquidity
    <2> QED BY <1>1, <2>1, <2>2
<1> QED BY <1>3, <1>4, <1>5, <1>6, <1>7, <1>8, <1>9 DEF Next

(* A loss of c out of b that the limit m accepts is less than m + 1 basis  *)
(* points of b.                                                            *)
LEMMA LossWithinLimit ==
    ASSUME NEW b \in Nat \ {0}, NEW c \in Nat, NEW m \in Nat,
           c <= b, PctChange(c, b) <= m
    PROVE  c * 10000 < (m + 1) * b
<1> DEFINE d == (c * 10000) \div b
<1>1. d \in Nat /\ c * 10000 < b * d + b
    BY DivBounds
<1>2. PctChange(c, b) = Smaller(MaxPct, d)
    BY DEF PctChange
<1> HIDE DEF d
<1>3. CASE MaxPct <= d
    <2>1. MaxPct \in Nat /\ MaxPct >= 10000
        BY MarketAssumptions
    <2>2. 10000 <= m
        BY ONLY <1>2, <1>3, <2>1, PctChange(c, b) <= m, m \in Nat DEF Smaller
    <2>3. c * 10000 <= b * 10000 /\ b * 10000 <= b * m
        BY <2>2, SMT
    <2>4. b * m < (m + 1) * b
        BY SMT
    <2> QED BY <2>3, <2>4, SMT
<1>4. CASE ~(MaxPct <= d)
    <2>1. d <= m
        BY ONLY <1>2, <1>4, PctChange(c, b) <= m DEF Smaller
    <2>2. b * d <= b * m
        BY <1>1, <2>1, SMT
    <2> QED BY <1>1, <2>2, SMT
<1> QED BY <1>3, <1>4

(* The liquidity withdrawn in one window of the limits stays within the    *)
(* window's share, over any number of withdrawals and deposits.            *)
THEOREM Withdrawals == Spec => WithdrawalBounded
<1>1. IInv /\ [Next]_vars
        => (lp' < lp /\ lp' < limits'.balance =>
              (limits'.balance - lp') * 10000 < (limits.maxNeg + 1) * limits'.balance)
    <2> SUFFICES ASSUME IInv, [Next]_vars, lp' < lp, lp' < limits'.balance
                 PROVE  (limits'.balance - lp') * 10000
                            < (limits.maxNeg + 1) * limits'.balance
        OBVIOUS
    <2>1. PICK n \in Amounts : WithdrawLiquidity(n)
        BY SupplyFalls
    <2>2. lp' = lp - n /\ n <= lp /\ VerifyLimits(lp')
        BY <2>1 DEF WithdrawLiquidity
    <2>3. TypeOK /\ n \in Nat /\ lp \in Nat /\ limits \in LimitsRecord
        BY MarketAssumptions DEF IInv, TypeOK, LimitsRecord
    <2>4. WindowBalance \in Nat /\ limits.maxNeg \in Nat /\ lp' \in Nat
        BY <2>2, <2>3 DEF WindowBalance, LimitsRecord
    <2>5. limits'.balance = WindowBalance
        BY <2>2, <2>3 DEF VerifyLimits, LimitsRecord
    <2>6. PctChange(WindowBalance - lp', WindowBalance) <= limits.maxNeg
        BY <2>2, <2>4, <2>5 DEF VerifyLimits
    <2>7. /\ WindowBalance \in Nat \ {0} /\ WindowBalance - lp' \in Nat
          /\ WindowBalance - lp' <= WindowBalance
        <3>1. lp' < WindowBalance
            BY <2>5
        <3>2. \A b, l \in Nat : l < b => b \in Nat \ {0} /\ b - l \in Nat /\ b - l <= b
            OBVIOUS
        <3> QED BY ONLY <2>4, <3>1, <3>2
    <2>8. (WindowBalance - lp') * 10000 < (limits.maxNeg + 1) * WindowBalance
        BY ONLY <2>4, <2>6, <2>7, LossWithinLimit
    <2> QED BY <2>5, <2>8
<1> QED BY InvariantHolds, <1>1, PTL DEF Spec, WithdrawalBounded
=============================================================================
