----------------------------- MODULE RouterProofs -----------------------------
(***************************************************************************)
(* The backing of SY and PT through the router's wrappers, for every rate, *)
(* curve, callback and sequence of wrappers, over the market's invariant.  *)
(***************************************************************************)
EXTENDS Router, MarketProofs

ReturnRecord == [base : Nat, pooled : Nat, supply : Nat, market : MarketRecord,
                 lp : Nat, held : HeldRecord, wallet : WalletRecord,
                 treasury : Nat, limits : LimitsRecord, vaultAth : Nat]
LegRecord == [op : {"strip", "redeem", "buy_pt", "buy_yt", "deposit"},
              n : Nat, m : Nat, bound : Nat]
CallRecord == [todo : Seq(LegRecord), floor : Nat, undo : ReturnRecord]

(* The PT and the SY that are not in the vault.                            *)
PtOf(w, h) == w.pt + h.pt
SyOf(w, h, t) == w.sy + h.sy + h.adapter + t

(* SyRedeemable and PtRedeemable of given balances at the rate r.          *)
Redeems(r, total, tokens) ==
    (\A x \in Rates \ {0} : r <= x) => SyToPy(r, total) <= tokens
Backs(r, total, pt, sy) == PyToSy(r, pt) + sy <= total

(* What holds of the balances between the calls of a transaction.          *)
Books ==
    /\ IInv
    /\ rate \in Rates \ {0}
    /\ base \in Nat /\ pooled \in Nat /\ supply \in Nat
    /\ Redeems(rate, supply, pooled)
    /\ Backs(rate, supply, PtOf(wallet, held), SyOf(wallet, held, treasury))

(* And of the balances u that a failure would restore.                     *)
UndoOK(r, u) ==
    /\ u \in ReturnRecord
    /\ u.market.debt = 0
    /\ Covers(u.held.pt, u.held.sy + u.held.adapter, u.market)
    /\ Redeems(r, u.supply, u.pooled)
    /\ Backs(r, u.supply, PtOf(u.wallet, u.held), SyOf(u.wallet, u.held, u.treasury))

(* A failed flash restores balances that are backed too.                   *)
WindowBacked ==
    \A f \in FrameRecord : flash = <<f>> =>
        Backs(rate, supply, PtOf(f.undo.wallet, f.undo.held),
              SyOf(f.undo.wallet, f.undo.held, f.undo.treasury))

(* A wrapper runs outside any flash window; the redemption of a sale is    *)
(* its last call, and what it is to redeem is in the wallet.               *)
CallOK ==
    call = NoCall \/
        /\ call \in CallRecord
        /\ call.todo # <<>>
        /\ AtRest
        /\ UndoOK(rate, call.undo)
        /\ \A i \in 2 .. Len(call.todo) : call.todo[i].op # "redeem"
        /\ Upcoming.op = "redeem" =>
             /\ Len(call.todo) = 1
             /\ base = call.undo.base
             /\ wallet.sy >= call.undo.wallet.sy + call.floor

(* The inductive invariant.                                                *)
RouterInv == Books /\ WindowBacked /\ CallOK

-----------------------------------------------------------------------------
(* Arithmetic of the backing.                                              *)

(* PT and SY outside the vault are natural numbers.                        *)
LEMMA SumsNat ==
    ASSUME NEW w \in WalletRecord, NEW h \in HeldRecord, NEW t \in Nat
    PROVE  PtOf(w, h) \in Nat /\ SyOf(w, h, t) \in Nat
<1>1. /\ w.pt \in Nat /\ w.sy \in Nat
      /\ h.pt \in Nat /\ h.sy \in Nat /\ h.adapter \in Nat
    BY DEF WalletRecord, HeldRecord
<1> QED BY ONLY <1>1, t \in Nat DEF PtOf, SyOf

(* Stripping s of the SY outside the vault keeps the PT backed.            *)
LEMMA StripBacks ==
    ASSUME NEW r \in Nat \ {0}, NEW total \in Nat, NEW pt \in Nat, NEW sy \in Nat,
           NEW s \in Nat, Backs(r, total, pt, sy)
    PROVE  Backs(r, total, pt + SyToPy(r, s), sy - s)
<1>1. r \in Nat
    OBVIOUS
<1>2. SyToPy(r, s) \in Nat
    BY ONLY <1>1, s \in Nat, ConversionNat
<1>3. PyToSy(r, pt) \in Nat
    BY ONLY <1>1, r \in Nat \ {0}, pt \in Nat, ConversionNat
<1>4. PyToSy(r, pt + SyToPy(r, s)) \in Nat
    <2>1. pt + SyToPy(r, s) \in Nat
        BY ONLY <1>2, pt \in Nat
    <2> QED BY ONLY <1>1, <2>1, r \in Nat \ {0}, ConversionNat
<1>5. PyToSy(r, pt + SyToPy(r, s)) <= PyToSy(r, pt) + s
    BY StrippedAtPar
<1>6. PyToSy(r, pt) + sy <= total
    BY DEF Backs
<1>7. PyToSy(r, pt + SyToPy(r, s)) + (sy - s) <= total
    BY ONLY <1>3, <1>4, <1>5, <1>6, sy \in Nat, s \in Nat, total \in Nat
<1> QED BY <1>7 DEF Backs

(* So does merging n of the PT outside the vault.                          *)
LEMMA MergeBacks ==
    ASSUME NEW r \in Nat \ {0}, NEW total \in Nat, NEW pt \in Nat, NEW sy \in Nat,
           NEW n \in Nat, n <= pt, Backs(r, total, pt, sy)
    PROVE  Backs(r, total, pt - n, sy + PyToSy(r, n))
<1>1. PICK p \in Nat : p = pt - n
    OBVIOUS
<1>2. PyToSy(r, p) + PyToSy(r, n) <= PyToSy(r, p + n)
    BY PyToSyParts
<1>3. p + n = pt
    BY <1>1
<1>4. PyToSy(r, p) \in Nat /\ PyToSy(r, n) \in Nat /\ PyToSy(r, pt) \in Nat
    BY ConversionNat
<1>5. PyToSy(r, pt) + sy <= total
    BY DEF Backs
<1>6. PyToSy(r, p) + (sy + PyToSy(r, n)) <= total
    BY ONLY <1>2, <1>3, <1>4, <1>5, sy \in Nat, total \in Nat
<1> QED BY <1>1, <1>6 DEF Backs

(* A higher rate keeps the PT backed.                                      *)
LEMMA RiseBacks ==
    ASSUME NEW low \in Nat \ {0}, NEW high \in Nat \ {0}, low <= high,
           NEW total \in Nat, NEW pt \in Nat, NEW sy \in Nat,
           Backs(low, total, pt, sy)
    PROVE  Backs(high, total, pt, sy)
<1>1. PyToSy(high, pt) <= PyToSy(low, pt)
    BY PyToSyAntitone
<1>2. PyToSy(high, pt) \in Nat /\ PyToSy(low, pt) \in Nat
    BY ConversionNat
<1>3. PyToSy(low, pt) + sy <= total
    BY DEF Backs
<1>4. PyToSy(high, pt) + sy <= total
    BY ONLY <1>1, <1>2, <1>3, sy \in Nat, total \in Nat
<1> QED BY <1>4 DEF Backs

(* At a higher rate nothing is asked of the SY.                            *)
LEMMA RiseRedeems ==
    ASSUME NEW low \in Rates \ {0}, NEW high \in Rates \ {0}, low <= high,
           NEW total, NEW tokens, Redeems(low, total, tokens)
    PROVE  Redeems(high, total, tokens)
<1> SUFFICES ASSUME \A x \in Rates \ {0} : high <= x
             PROVE  SyToPy(high, total) <= tokens
    BY DEF Redeems
<1>1. low \in Nat /\ high \in Nat /\ high <= low
    BY MarketAssumptions
<1>2. low = high
    BY ONLY <1>1, low <= high
<1> QED BY <1>2 DEF Redeems

(* A mint of b base brings at least what its SY redeem.                    *)
LEMMA MintRedeems ==
    ASSUME NEW r \in Nat \ {0}, NEW total \in Nat, NEW tokens \in Nat, NEW b \in Nat,
           Redeems(r, total, tokens)
    PROVE  Redeems(r, total + PyToSy(r, b), tokens + b)
<1> SUFFICES ASSUME SyToPy(r, total) <= tokens
             PROVE  SyToPy(r, total + PyToSy(r, b)) <= tokens + b
    BY DEF Redeems
<1>1. SyToPy(r, total + PyToSy(r, b)) <= SyToPy(r, total) + b
    BY MintedAtPar
<1>2. r \in Nat /\ r # 0
    OBVIOUS
<1>3. PyToSy(r, b) \in Nat
    BY <1>2, ConversionNat
<1>4. SyToPy(r, total) \in Nat /\ SyToPy(r, total + PyToSy(r, b)) \in Nat
    <2>1. total + PyToSy(r, b) \in Nat
        BY ONLY <1>3, total \in Nat
    <2> QED BY ONLY <1>2, <2>1, total \in Nat, ConversionNat
<1> QED BY ONLY <1>1, <1>4, SyToPy(r, total) <= tokens, tokens \in Nat, b \in Nat

(* A redemption of s SY takes no more than they are worth.                 *)
LEMMA RedeemRedeems ==
    ASSUME NEW r \in Nat \ {0}, NEW total \in Nat, NEW tokens \in Nat, NEW s \in Nat,
           s <= total, Redeems(r, total, tokens)
    PROVE  Redeems(r, total - s, tokens - SyToPy(r, s))
<1> SUFFICES ASSUME SyToPy(r, total) <= tokens
             PROVE  SyToPy(r, total - s) <= tokens - SyToPy(r, s)
    BY DEF Redeems
<1>1. PICK m \in Nat : m = total - s
    OBVIOUS
<1>2. m + s = total /\ r \in Nat
    BY <1>1
<1>3. SyToPy(r, m) + SyToPy(r, s) <= SyToPy(r, total)
    BY <1>2, SyToPyParts
<1>4. SyToPy(r, m) \in Nat /\ SyToPy(r, s) \in Nat /\ SyToPy(r, total) \in Nat
    BY <1>2, ConversionNat
<1>5. SyToPy(r, m) <= tokens - SyToPy(r, s)
    BY ONLY <1>3, <1>4, SyToPy(r, total) <= tokens, tokens \in Nat
<1> QED BY ONLY <1>1, <1>5

-----------------------------------------------------------------------------
(* What the market's instructions move in or out of the vault: only a      *)
(* strip or a merge, of YT trades, does; the rest passes between user,     *)
(* market and treasury.                                                    *)

(* The PT and SY outside the vault rise by pt and sy.                      *)
Moves(pt, sy) ==
    /\ PtOf(wallet', held') = PtOf(wallet, held) + pt
    /\ SyOf(wallet', held', treasury') = SyOf(wallet, held, treasury) + sy

(* The balances are natural numbers, and a quote is.                       *)
LEMMA Balances ==
    ASSUME TypeOK
    PROVE  /\ wallet \in WalletRecord /\ held \in HeldRecord /\ market \in MarketRecord
           /\ wallet.pt \in Nat /\ wallet.yt \in Nat /\ wallet.sy \in Nat
           /\ held.pt \in Nat /\ held.sy \in Nat /\ held.adapter \in Nat
           /\ treasury \in Nat /\ rate \in Nat /\ lp \in Nat
           /\ \A q \in Quotes : q.sy \in Nat /\ q.fee \in Nat
<1>1. \A q \in Quotes : q \in QuoteRecord
    BY QuoteType
<1> QED BY <1>1 DEF TypeOK, WalletRecord, HeldRecord, QuoteRecord

(* trade_pt, buying and selling.                                           *)
LEMMA TradePtTotals ==
    ASSUME TypeOK, NEW n \in Nat, TradePtBuy(n) \/ TradePtSell(n)
    PROVE  Moves(0, 0)
<1>1. /\ wallet \in WalletRecord /\ held \in HeldRecord
      /\ wallet.pt \in Nat /\ wallet.sy \in Nat
      /\ held.pt \in Nat /\ held.sy \in Nat /\ held.adapter \in Nat /\ treasury \in Nat
      /\ \A q \in Quotes : q.sy \in Nat /\ q.fee \in Nat
    BY Balances
<1>2. CASE TradePtBuy(n)
    <2>1. PICK q \in Quotes :
            /\ held' = HeldBought(held, n, q)
            /\ wallet' = [wallet EXCEPT !.pt = @ + n, !.sy = @ - q.sy]
            /\ treasury' = treasury + q.fee
        BY <1>2 DEF TradePtBuy
    <2>2. /\ wallet'.pt = wallet.pt + n /\ wallet'.sy = wallet.sy - q.sy
          /\ held'.pt = held.pt - n /\ held'.sy = held.sy
          /\ held'.adapter = held.adapter + q.sy - q.fee
        BY ONLY <1>1, <2>1 DEF HeldBought, WalletRecord, HeldRecord
    <2> QED BY ONLY <1>1, <2>1, <2>2, n \in Nat DEF Moves, PtOf, SyOf
<1>3. CASE TradePtSell(n)
    <2>1. PICK q \in Quotes :
            /\ held' = HeldSold(held, n, q)
            /\ wallet' = [wallet EXCEPT !.pt = @ - n, !.sy = @ + q.sy]
            /\ treasury' = treasury + q.fee
        BY <1>3 DEF TradePtSell
    <2>2. /\ wallet'.pt = wallet.pt - n /\ wallet'.sy = wallet.sy + q.sy
          /\ held'.pt = held.pt + n /\ held'.sy = held.sy
          /\ held'.adapter = held.adapter - q.sy - q.fee
        BY ONLY <1>1, <2>1 DEF HeldSold, WalletRecord, HeldRecord
    <2> QED BY ONLY <1>1, <2>1, <2>2, n \in Nat DEF Moves, PtOf, SyOf
<1> QED BY <1>2, <1>3

(* Liquidity, whatever is matched.                                         *)
LEMMA LiquidityTotals ==
    ASSUME TypeOK, NEW p \in Nat, NEW s \in Nat,
           DepositLiquidity(p, s) \/ WithdrawLiquidity(p)
    PROVE  Moves(0, 0)
<1>1. /\ wallet \in WalletRecord /\ held \in HeldRecord
      /\ wallet.pt \in Nat /\ wallet.sy \in Nat
      /\ held.pt \in Nat /\ held.sy \in Nat /\ held.adapter \in Nat /\ treasury \in Nat
    BY Balances
<1>2. CASE DepositLiquidity(p, s)
    <2>1. PICK r : r = Added(p, s)
        OBVIOUS
    <2>2. r.pt \in Int /\ r.sy \in Int
        <3>1. r.pt \in Nat /\ r.sy \in Nat
            BY <2>1, AddedPays
        <3> QED BY <3>1
    <2>3. /\ held' = [held EXCEPT !.pt = @ + r.pt, !.adapter = @ + r.sy]
          /\ wallet' = [wallet EXCEPT !.pt = @ - r.pt, !.sy = @ - r.sy]
          /\ treasury' = treasury
        BY <1>2, <2>1 DEF DepositLiquidity
    <2>4. /\ wallet'.pt = wallet.pt - r.pt /\ wallet'.sy = wallet.sy - r.sy
          /\ held'.pt = held.pt + r.pt /\ held'.sy = held.sy
          /\ held'.adapter = held.adapter + r.sy
        BY ONLY <1>1, <2>3 DEF WalletRecord, HeldRecord
    <2> QED BY ONLY <1>1, <2>2, <2>3, <2>4 DEF Moves, PtOf, SyOf
<1>3. CASE WithdrawLiquidity(p)
    <2>1. PICK r : r = Removed(p)
        OBVIOUS
    <2>2. r.pt \in Int /\ r.sy \in Int
        <3>1. r.pt \in Nat /\ r.sy \in Nat
            BY <1>3, <2>1, RemovedWithin DEF WithdrawLiquidity
        <3> QED BY <3>1
    <2>3. /\ held' = [held EXCEPT !.pt = @ - r.pt, !.adapter = @ - r.sy]
          /\ wallet' = [wallet EXCEPT !.pt = @ + r.pt, !.sy = @ + r.sy]
          /\ treasury' = treasury
        BY <1>3, <2>1 DEF WithdrawLiquidity
    <2>4. /\ wallet'.pt = wallet.pt + r.pt /\ wallet'.sy = wallet.sy + r.sy
          /\ held'.pt = held.pt - r.pt /\ held'.sy = held.sy
          /\ held'.adapter = held.adapter - r.sy
        BY ONLY <1>1, <2>3 DEF WalletRecord, HeldRecord
    <2> QED BY ONLY <1>1, <2>2, <2>3, <2>4 DEF Moves, PtOf, SyOf
<1> QED BY <1>2, <1>3

(* buy_yt strips: SY enter the vault, and their PT leave it.               *)
LEMMA BuyYtTotals ==
    ASSUME TypeOK, NEW s \in Nat, NEW y \in Nat, BuyYt(s, y)
    PROVE  \E x \in Nat : Moves(SyToPy(rate, x), 0 - x)
<1>1. /\ wallet \in WalletRecord /\ held \in HeldRecord
      /\ wallet.pt \in Nat /\ wallet.sy \in Nat
      /\ held.pt \in Nat /\ held.sy \in Nat /\ held.adapter \in Nat /\ treasury \in Nat
      /\ \A q \in Quotes : q.sy \in Nat /\ q.fee \in Nat
    BY Balances
<1>2. PICK x \in Nat : x = PyToSyCeil(rate, y)
    <2>1. rate \in Nat /\ rate # 0
        BY Balances DEF BuyYt
    <2> QED BY <2>1, ConversionNat
<1>3. PICK py \in Nat : py = SyToPy(rate, x)
    BY Balances, ConversionNat
<1>4. PICK q \in Quotes :
        /\ held' = [HeldSold(held, py, q) EXCEPT !.adapter = @ + q.sy - (x - s)]
        /\ treasury' = treasury + q.fee
        /\ wallet' = [wallet EXCEPT !.sy = @ - s, !.yt = @ + py]
    BY <1>2, <1>3 DEF BuyYt
<1>5. /\ wallet'.pt = wallet.pt /\ wallet'.sy = wallet.sy - s
      /\ held'.pt = held.pt + py /\ held'.sy = held.sy
      /\ held'.adapter = held.adapter - q.sy - q.fee + q.sy - (x - s)
    BY ONLY <1>1, <1>4 DEF HeldSold, WalletRecord, HeldRecord
<1>6. Moves(py, 0 - x)
    BY ONLY <1>1, <1>4, <1>5, x \in Nat, s \in Nat, py \in Nat DEF Moves, PtOf, SyOf
<1> QED BY <1>3, <1>6

(* sell_yt merges: PT enter the vault, and their SY leave it.              *)
LEMMA SellYtTotals ==
    ASSUME TypeOK, NEW n \in Nat, SellYt(n)
    PROVE  Moves(0 - n, PyToSy(rate, n)) /\ n <= PtOf(wallet, held)
<1>1. /\ wallet \in WalletRecord /\ held \in HeldRecord
      /\ wallet.pt \in Nat /\ wallet.sy \in Nat
      /\ held.pt \in Nat /\ held.sy \in Nat /\ held.adapter \in Nat /\ treasury \in Nat
      /\ \A q \in Quotes : q.sy \in Nat /\ q.fee \in Nat
    BY Balances
<1>2. PICK q \in Quotes :
        /\ rate > 0
        /\ held.pt >= 2 * n
        /\ held' = HeldBought(held, n, q)
        /\ wallet' = [wallet EXCEPT !.yt = @ - n, !.sy = @ + PyToSy(rate, n) - q.sy]
        /\ treasury' = treasury + q.fee
    BY DEF SellYt, CanBuy
<1>3. PICK c \in Nat : c = PyToSy(rate, n)
    <2>1. rate \in Nat /\ rate # 0
        BY <1>2, Balances
    <2> QED BY <2>1, ConversionNat
<1>4. /\ wallet'.pt = wallet.pt /\ wallet'.sy = wallet.sy + c - q.sy
      /\ held'.pt = held.pt - n /\ held'.sy = held.sy
      /\ held'.adapter = held.adapter + q.sy - q.fee
    BY ONLY <1>1, <1>2, <1>3 DEF HeldBought, WalletRecord, HeldRecord
<1>5. Moves(0 - n, c) /\ n <= PtOf(wallet, held)
    BY ONLY <1>1, <1>2, <1>4, n \in Nat, c \in Nat DEF Moves, PtOf, SyOf
<1> QED BY <1>3, <1>5

(* Tokens sent to an escrow stay outside the vault.                        *)
LEMMA TransferTotals ==
    ASSUME TypeOK, NEW n \in Nat, TransferPtIn(n) \/ TransferSyIn(n)
    PROVE  Moves(0, 0)
<1>1. /\ wallet \in WalletRecord /\ held \in HeldRecord
      /\ wallet.pt \in Nat /\ wallet.sy \in Nat
      /\ held.pt \in Nat /\ held.sy \in Nat /\ held.adapter \in Nat /\ treasury \in Nat
    BY Balances
<1>2. CASE TransferPtIn(n)
    <2>1. /\ wallet'.pt = wallet.pt - n /\ wallet'.sy = wallet.sy
          /\ held'.pt = held.pt + n /\ held'.sy = held.sy
          /\ held'.adapter = held.adapter /\ treasury' = treasury
        BY <1>1, <1>2 DEF TransferPtIn, WalletRecord, HeldRecord
    <2> QED BY ONLY <1>1, <2>1, n \in Nat DEF Moves, PtOf, SyOf
<1>3. CASE TransferSyIn(n)
    <2>1. /\ wallet'.pt = wallet.pt /\ wallet'.sy = wallet.sy - n
          /\ held'.pt = held.pt /\ held'.sy = held.sy + n
          /\ held'.adapter = held.adapter /\ treasury' = treasury
        BY <1>1, <1>3 DEF TransferSyIn, WalletRecord, HeldRecord
    <2> QED BY ONLY <1>1, <2>1, n \in Nat DEF Moves, PtOf, SyOf
<1> QED BY <1>2, <1>3

(* What a flash lends is in the wallet, and what repays it in an escrow.   *)
LEMMA OpeningTotals ==
    ASSUME TypeOK, NEW n \in Nat, NEW a \in Nat,
           FlashSwapPt(n) \/ FlashSwapSy(n) \/ FlashSellYt(n, a)
    PROVE  Moves(0, 0)
<1>1. /\ wallet \in WalletRecord /\ held \in HeldRecord
      /\ wallet.pt \in Nat /\ wallet.sy \in Nat
      /\ held.pt \in Nat /\ held.sy \in Nat /\ held.adapter \in Nat /\ treasury \in Nat
      /\ \A q \in Quotes : q.sy \in Nat /\ q.fee \in Nat
    BY Balances
<1>2. CASE FlashSwapPt(n)
    <2>1. /\ wallet'.pt = wallet.pt + n /\ wallet'.sy = wallet.sy
          /\ held'.pt = held.pt - n /\ held'.sy = held.sy
          /\ held'.adapter = held.adapter /\ treasury' = treasury
        BY <1>1, <1>2 DEF FlashSwapPt, WalletRecord, HeldRecord
    <2> QED BY ONLY <1>1, <2>1, n \in Nat DEF Moves, PtOf, SyOf
<1>3. CASE FlashSwapSy(n)
    <2>1. PICK q \in Quotes :
            /\ held' = [held EXCEPT !.adapter = @ - q.sy - q.fee, !.sy = @ + q.fee]
            /\ wallet' = [wallet EXCEPT !.sy = @ + q.sy]
            /\ treasury' = treasury
        BY <1>3 DEF FlashSwapSy
    <2>2. /\ wallet'.pt = wallet.pt /\ wallet'.sy = wallet.sy + q.sy
          /\ held'.pt = held.pt /\ held'.sy = held.sy + q.fee
          /\ held'.adapter = held.adapter - q.sy - q.fee
        BY ONLY <1>1, <2>1 DEF WalletRecord, HeldRecord
    <2> QED BY ONLY <1>1, <2>1, <2>2 DEF Moves, PtOf, SyOf
<1>4. CASE FlashSellYt(n, a)
    <2>1. /\ wallet'.pt = wallet.pt /\ wallet'.sy = wallet.sy + a
          /\ held'.pt = held.pt /\ held'.sy = held.sy
          /\ held'.adapter = held.adapter - a /\ treasury' = treasury
        BY <1>1, <1>4 DEF FlashSellYt, WalletRecord, HeldRecord
    <2> QED BY ONLY <1>1, <2>1, a \in Nat DEF Moves, PtOf, SyOf
<1> QED BY <1>2, <1>3, <1>4

(* A swap that is repaid pays the treasury out of the escrow.              *)
LEMMA RepaidTotals ==
    ASSUME IInv, FlashSwapPtRepaid \/ FlashSwapSyRepaid
    PROVE  Moves(0, 0)
<1>1. TypeOK /\ \E f \in FrameRecord : WindowOK(f)
    BY WindowOpen DEF FlashSwapPtRepaid, FlashSwapSyRepaid
<1>2. /\ wallet \in WalletRecord /\ held \in HeldRecord
      /\ wallet.pt \in Nat /\ wallet.sy \in Nat
      /\ held.pt \in Nat /\ held.sy \in Nat /\ held.adapter \in Nat /\ treasury \in Nat
    BY <1>1, Balances
<1>3. PICK f \in FrameRecord : flash = <<f>>
    BY <1>1 DEF WindowOK
<1>4. Top = f /\ f.quote \in QuoteRecord
    BY <1>3, OneWindow, FrameFields
<1>5. PICK k \in Nat : k = f.quote.fee
    BY <1>4 DEF QuoteRecord
<1>6. held' = [held EXCEPT !.sy = @ - k] /\ treasury' = treasury + k /\ wallet' = wallet
    BY <1>4, <1>5 DEF FlashSwapPtRepaid, FlashSwapSyRepaid
<1>7. held'.pt = held.pt /\ held'.sy = held.sy - k /\ held'.adapter = held.adapter
    BY ONLY <1>2, <1>6 DEF HeldRecord
<1> QED BY ONLY <1>2, <1>6, <1>7, k \in Nat DEF Moves, PtOf, SyOf

(* The YT that a callback delivers are merged.                             *)
LEMMA DeliveredTotals ==
    ASSUME IInv, FlashSellYtDelivered
    PROVE  \E n \in Nat : Moves(0 - n, PyToSy(rate, n)) /\ n <= PtOf(wallet, held)
<1>1. TypeOK /\ \E f \in FrameRecord : WindowOK(f)
    BY WindowOpen DEF FlashSellYtDelivered
<1>2. /\ wallet \in WalletRecord /\ held \in HeldRecord
      /\ wallet.pt \in Nat /\ wallet.sy \in Nat
      /\ held.pt \in Nat /\ held.sy \in Nat /\ held.adapter \in Nat /\ treasury \in Nat
      /\ \A q \in Quotes : q.sy \in Nat /\ q.fee \in Nat
    BY <1>1, Balances
<1>3. PICK f \in FrameRecord : flash = <<f>>
    BY <1>1 DEF WindowOK
<1>4. PICK n \in Nat, a \in Nat : n = f.pt /\ a = f.advance
    BY FrameFields
<1>5. Top = f
    BY <1>3, OneWindow
<1>6. PICK q \in Quotes :
        /\ rate > 0
        /\ held' = [HeldBought(held, n, q) EXCEPT !.adapter = @ + a]
        /\ wallet' = [wallet EXCEPT !.yt = @ - n,
                                    !.sy = @ + PyToSy(rate, n) - q.sy - a]
        /\ treasury' = treasury + q.fee
    BY <1>4, <1>5 DEF FlashSellYtDelivered
<1>7. held.pt >= 2 * n
    BY <1>4, <1>5 DEF FlashSellYtDelivered
<1>8. PICK c \in Nat : c = PyToSy(rate, n)
    <2>1. rate \in Nat /\ rate # 0
        BY <1>1, <1>6, Balances
    <2> QED BY <2>1, ConversionNat
<1>9. /\ wallet'.pt = wallet.pt /\ wallet'.sy = wallet.sy + c - q.sy - a
      /\ held'.pt = held.pt - n /\ held'.sy = held.sy
      /\ held'.adapter = held.adapter + q.sy - q.fee + a
    BY ONLY <1>2, <1>6, <1>8 DEF HeldBought, WalletRecord, HeldRecord
<1>10. Moves(0 - n, c) /\ n <= PtOf(wallet, held)
    BY ONLY <1>2, <1>6, <1>7, <1>9, n \in Nat, a \in Nat, c \in Nat DEF Moves, PtOf, SyOf
<1> QED BY <1>8, <1>10

-----------------------------------------------------------------------------
(* The inner calls keep the books.                                         *)

(* PT and SY outside the vault change by nothing, a strip or a merge.      *)
Converts ==
    \/ Moves(0, 0)
    \/ \E x \in Nat : Moves(SyToPy(rate, x), 0 - x)
    \/ \E n \in Nat : Moves(0 - n, PyToSy(rate, n)) /\ n <= PtOf(wallet, held)

LEMMA ConversionBacks ==
    ASSUME TypeOK, rate # 0, supply \in Nat, Converts,
           Backs(rate, supply, PtOf(wallet, held), SyOf(wallet, held, treasury))
    PROVE  Backs(rate, supply, PtOf(wallet', held'), SyOf(wallet', held', treasury'))
<1>1. PICK pt \in Nat, sy \in Nat, r \in Nat \ {0} :
        pt = PtOf(wallet, held) /\ sy = SyOf(wallet, held, treasury) /\ r = rate
    <2>1. rate \in Nat \ {0}
        BY Balances
    <2> QED BY <2>1, Balances, SumsNat
<1>2. CASE Moves(0, 0)
    <2>1. PtOf(wallet', held') = pt /\ SyOf(wallet', held', treasury') = sy
        BY ONLY <1>1, <1>2, pt \in Nat, sy \in Nat DEF Moves
    <2> QED BY <1>1, <2>1
<1>3. CASE \E x \in Nat : Moves(SyToPy(rate, x), 0 - x)
    <2>1. PICK x \in Nat : Moves(SyToPy(r, x), 0 - x)
        BY <1>1, <1>3
    <2>2. /\ PtOf(wallet', held') = pt + SyToPy(r, x)
          /\ SyOf(wallet', held', treasury') = sy - x
        BY ONLY <1>1, <2>1, sy \in Nat, x \in Nat DEF Moves
    <2>3. Backs(r, supply, pt + SyToPy(r, x), sy - x)
        BY <1>1, StripBacks
    <2> QED BY ONLY <1>1, <2>2, <2>3
<1>4. CASE \E n \in Nat : Moves(0 - n, PyToSy(rate, n)) /\ n <= PtOf(wallet, held)
    <2>1. PICK n \in Nat : Moves(0 - n, PyToSy(r, n)) /\ n <= pt
        BY <1>1, <1>4
    <2>2. /\ PtOf(wallet', held') = pt - n
          /\ SyOf(wallet', held', treasury') = sy + PyToSy(r, n)
        BY ONLY <1>1, <2>1, pt \in Nat, n \in Nat DEF Moves
    <2>3. Backs(r, supply, pt - n, sy + PyToSy(r, n))
        BY <1>1, <2>1, MergeBacks
    <2> QED BY ONLY <1>1, <2>2, <2>3
<1> QED BY <1>2, <1>3, <1>4 DEF Converts

(* What the books say of types.                                            *)
LEMMA BooksTypes ==
    ASSUME Books
    PROVE  /\ TypeOK /\ rate \in Nat \ {0} /\ rate \in Rates
           /\ base \in Nat /\ pooled \in Nat /\ supply \in Nat
           /\ wallet \in WalletRecord /\ held \in HeldRecord /\ treasury \in Nat
           /\ wallet.pt \in Nat /\ wallet.yt \in Nat /\ wallet.sy \in Nat
           /\ PtOf(wallet, held) \in Nat /\ SyOf(wallet, held, treasury) \in Nat
           /\ limits \in LimitsRecord /\ vaultAth \in Nat
<1>1. TypeOK /\ rate \in Nat \ {0}
    BY MarketAssumptions DEF Books, IInv
<1> QED BY <1>1, Balances, SumsNat DEF Books, TypeOK, LimitsRecord

(* A step of the market at the same rate.                                  *)
LEMMA MarketBooks ==
    ASSUME Books, IInv', Converts, UNCHANGED <<rate, base, pooled, supply>>
    PROVE  Books'
<1>1. Backs(rate, supply, PtOf(wallet', held'), SyOf(wallet', held', treasury'))
    BY BooksTypes, ConversionBacks DEF Books
<1> QED BY <1>1 DEF Books

(* A step of the user's wallet, outside the market.                        *)
LEMMA WalletStep ==
    ASSUME Books, AtRest, UNCHANGED <<now, rate, market, lp, held, settings, limits, flash>>,
           vaultAth' \in {vaultAth, rate}, wallet' \in WalletRecord, treasury' \in Nat
    PROVE  IInv' /\ AtRest'
<1>1. IInv /\ TypeOK /\ limits \in LimitsRecord
    BY BooksTypes DEF Books
<1>2. rate \in Nat /\ market \in MarketRecord /\ held \in HeldRecord /\ lp \in Nat
    BY <1>1 DEF TypeOK
<1>3. TypeOK'
    BY <1>1, <1>2, TypeStep
<1>4. held'.pt >= held.pt /\ held'.sy >= held.sy /\ held'.adapter = held.adapter
    BY <1>2 DEF HeldRecord
<1>5. IInv'
    BY <1>1, <1>3, <1>4, BystanderStep
<1> QED BY <1>5 DEF AtRest

(* The adapter's conversions are those of sy_cpi.                          *)
LEMMA AdapterConverts ==
    /\ \A b : Minted(b) = PyToSy(rate, b)
    /\ \A s : Adapter!RedeemedFor(s) = SyToPy(rate, s)
    BY DEF Minted, Adapter!MintedFor, Adapter!RedeemedFor, PyToSy, SyToPy,
           Adapter!FloorU64, Adapter!NumDiv, Adapter!NumMul, Adapter!Natural,
           Adapter!Correction, FloorU64, NumDiv, NumMul, Natural, Correction

(* mint_sy.                                                                *)
LEMMA MintSyBooks ==
    ASSUME Books, AtRest, NEW b \in Nat, MintSy(b)
    PROVE  Books' /\ AtRest' /\ rate' = rate /\ Minted(b) \in Nat
<1>1. /\ b <= base /\ base' = base - b /\ pooled' = pooled + b
      /\ supply' = supply + Minted(b)
      /\ wallet' = [wallet EXCEPT !.sy = @ + Minted(b)]
      /\ UNCHANGED <<now, rate, vaultAth, market, lp, held, treasury, settings,
                     limits, flash>>
    BY DEF MintSy, InAdapter
<1>2. PICK r \in Nat \ {0} : r = rate
    BY BooksTypes
<1>3. PICK m \in Nat : m = Minted(b) /\ m = PyToSy(r, b)
    <2>1. r \in Nat /\ r # 0
        OBVIOUS
    <2> QED BY <1>2, <2>1, AdapterConverts, ConversionNat
<1>4. /\ wallet' \in WalletRecord
      /\ wallet'.pt = wallet.pt /\ wallet'.sy = wallet.sy + m
    <2>1. wallet \in WalletRecord /\ wallet.sy \in Nat
        BY BooksTypes
    <2> QED BY ONLY <1>1, <1>3, <2>1, m \in Nat DEF WalletRecord
<1>5. IInv' /\ AtRest'
    BY <1>1, <1>4, BooksTypes, WalletStep
<1>6. PICK t \in Nat, k \in Nat : t = supply /\ k = pooled
    BY BooksTypes
<1>7. Redeems(rate', supply', pooled')
    <2>1. Redeems(r, t + m, k + b)
        BY <1>2, <1>3, <1>6, MintRedeems DEF Books
    <2> QED BY ONLY <1>1, <1>2, <1>3, <1>6, <2>1
<1>8. PICK pt \in Nat, sy \in Nat :
        pt = PtOf(wallet, held) /\ sy = SyOf(wallet, held, treasury)
    BY BooksTypes
<1>9. PtOf(wallet', held') = pt /\ SyOf(wallet', held', treasury') = sy + m
    <2>1. /\ wallet.pt \in Nat /\ wallet.sy \in Nat /\ held.pt \in Nat
          /\ held.sy \in Nat /\ held.adapter \in Nat /\ treasury \in Nat
        BY BooksTypes, Balances
    <2> QED BY ONLY <1>1, <1>4, <1>8, <2>1, m \in Nat DEF PtOf, SyOf
<1>10. Backs(rate', supply', PtOf(wallet', held'), SyOf(wallet', held', treasury'))
    <2>1. PyToSy(r, pt) + sy <= t
        BY <1>2, <1>6, <1>8 DEF Books, Backs
    <2>2. PyToSy(r, pt) \in Nat
        BY <1>2, ConversionNat
    <2>3. PyToSy(r, pt) + (sy + m) <= t + m
        BY ONLY <2>1, <2>2, sy \in Nat, m \in Nat, t \in Nat
    <2> QED BY ONLY <1>1, <1>2, <1>3, <1>6, <1>9, <2>3 DEF Backs
<1>11. base' \in Nat /\ pooled' \in Nat /\ supply' \in Nat
    <2>1. base \in Nat
        BY BooksTypes
    <2> QED BY ONLY <1>1, <1>3, <1>6, <2>1, b \in Nat
<1>12. rate' \in Rates \ {0}
    BY <1>1 DEF Books
<1> QED BY ONLY <1>1, <1>3, <1>5, <1>7, <1>10, <1>11, <1>12 DEF Books

(* redeem_sy.                                                              *)
LEMMA RedeemSyBooks ==
    ASSUME Books, AtRest, NEW s \in Nat, s <= wallet.sy, RedeemSy(s)
    PROVE  Books' /\ AtRest' /\ rate' = rate
<1>1. PICK r \in Nat \ {0} : r = rate
    BY BooksTypes
<1>2. PICK d \in Nat : d = Adapter!RedeemedFor(s) /\ d = SyToPy(r, s)
    <2>1. r \in Nat
        OBVIOUS
    <2> QED BY <1>1, <2>1, AdapterConverts, ConversionNat
<1>3. d <= pooled
    BY <1>2 DEF RedeemSy, Adapter!CanRedeem
<1>4. /\ base' = base + d /\ pooled' = pooled - d /\ supply' = supply - s
      /\ wallet' = [wallet EXCEPT !.sy = @ - s]
      /\ UNCHANGED <<now, rate, vaultAth, market, lp, held, treasury, settings,
                     limits, flash>>
    BY <1>2 DEF RedeemSy, InAdapter
<1>5. /\ wallet' \in WalletRecord
      /\ wallet'.pt = wallet.pt /\ wallet'.sy = wallet.sy - s
    <2>1. wallet \in WalletRecord /\ wallet.sy \in Nat
        BY BooksTypes
    <2>2. PICK x \in Nat : x = wallet.sy - s
        BY <2>1
    <2>3. wallet' = [wallet EXCEPT !.sy = x]
        BY ONLY <1>4, <2>2
    <2> QED BY ONLY <2>1, <2>2, <2>3, x \in Nat DEF WalletRecord
<1>6. IInv' /\ AtRest'
    BY <1>4, <1>5, BooksTypes, WalletStep
<1>7. PICK t \in Nat, k \in Nat, pt \in Nat, sy \in Nat :
        /\ t = supply /\ k = pooled
        /\ pt = PtOf(wallet, held) /\ sy = SyOf(wallet, held, treasury)
    BY BooksTypes
<1>8. /\ wallet.pt \in Nat /\ wallet.sy \in Nat /\ held.pt \in Nat
      /\ held.sy \in Nat /\ held.adapter \in Nat /\ treasury \in Nat
    BY BooksTypes, Balances
<1>9. /\ PtOf(wallet', held') = pt /\ SyOf(wallet', held', treasury') = sy - s
      /\ s <= sy
    BY ONLY <1>4, <1>5, <1>7, <1>8, s <= wallet.sy, s \in Nat DEF PtOf, SyOf
<1>10. PyToSy(r, pt) \in Nat /\ PyToSy(r, pt) + sy <= t
    BY <1>1, <1>7, ConversionNat DEF Books, Backs
<1>11. s <= t
    BY ONLY <1>9, <1>10, sy \in Nat, t \in Nat, s \in Nat
<1>12. Redeems(rate', supply', pooled')
    <2>1. Redeems(r, t - s, k - SyToPy(r, s))
        BY <1>1, <1>7, <1>11, RedeemRedeems DEF Books
    <2> QED BY ONLY <1>1, <1>2, <1>4, <1>7, <2>1
<1>13. Backs(rate', supply', PtOf(wallet', held'), SyOf(wallet', held', treasury'))
    <2>1. PyToSy(r, pt) + (sy - s) <= t - s
        BY ONLY <1>10, sy \in Nat, s \in Nat, t \in Nat
    <2> QED BY ONLY <1>1, <1>4, <1>7, <1>9, <2>1 DEF Backs
<1>14. base' \in Nat /\ pooled' \in Nat /\ supply' \in Nat
    <2>1. base \in Nat
        BY BooksTypes
    <2> QED BY ONLY <1>3, <1>4, <1>7, <1>11, <2>1, d \in Nat, s \in Nat, k \in Nat, t \in Nat
<1>15. rate' \in Rates \ {0}
    BY <1>4 DEF Books
<1> QED BY ONLY <1>4, <1>6, <1>12, <1>13, <1>14, <1>15 DEF Books

(* strip.                                                                  *)
LEMMA StripBooks ==
    ASSUME Books, AtRest, NEW s \in Nat, Strip(s)
    PROVE  Books' /\ AtRest' /\ rate' = rate
<1>1. /\ s <= wallet.sy
      /\ wallet' = [pt |-> wallet.pt + SyToPy(rate, s),
                    yt |-> wallet.yt + SyToPy(rate, s), sy |-> wallet.sy - s]
      /\ UNCHANGED <<now, rate, market, lp, held, settings, limits, flash>>
      /\ UNCHANGED <<treasury, base, pooled, supply>>
      /\ vaultAth' = rate
    BY DEF Strip, InVault, VaultConverts
<1>2. /\ TypeOK /\ rate \in Nat
      /\ wallet.pt \in Nat /\ wallet.yt \in Nat /\ wallet.sy \in Nat
      /\ held.pt \in Nat /\ held.sy \in Nat /\ held.adapter \in Nat /\ treasury \in Nat
    BY BooksTypes, Balances
<1>3. PICK p \in Nat : p = SyToPy(rate, s)
    BY <1>2, ConversionNat
<1>4. PICK x \in Nat, y \in Nat, z \in Nat :
        x = wallet.pt + p /\ y = wallet.yt + p /\ z = wallet.sy - s
    BY ONLY <1>1, <1>2, p \in Nat, s \in Nat
<1>5. wallet' \in WalletRecord /\ wallet'.pt = x /\ wallet'.sy = z
    BY ONLY <1>1, <1>3, <1>4, x \in Nat, y \in Nat, z \in Nat DEF WalletRecord
<1>6. IInv' /\ AtRest'
    BY <1>1, <1>2, <1>5, WalletStep
<1>7. Moves(p, 0 - s)
    BY ONLY <1>1, <1>2, <1>4, <1>5, p \in Nat, s \in Nat DEF Moves, PtOf, SyOf
<1>8. Converts
    BY <1>3, <1>7 DEF Converts
<1> QED BY <1>1, <1>6, <1>8, MarketBooks

(* merge, before and after maturity.                                       *)
LEMMA MergeBooks ==
    ASSUME Books, AtRest, NEW n \in Nat, Merge(n)
    PROVE  /\ Books' /\ AtRest' /\ rate' = rate /\ base' = base
           /\ Merged(n) \in Nat /\ wallet'.sy = wallet.sy + Merged(n)
<1>1. /\ n <= wallet.pt /\ BurnedYt(n) <= wallet.yt
      /\ wallet' = [pt |-> wallet.pt - n, yt |-> wallet.yt - BurnedYt(n),
                    sy |-> wallet.sy + Merged(n)]
      /\ UNCHANGED <<now, rate, market, lp, held, settings, limits, flash>>
      /\ UNCHANGED <<treasury, base, pooled, supply>>
      /\ vaultAth' = rate
    BY DEF Merge, InVault, VaultConverts
<1>2. /\ TypeOK /\ rate \in Nat /\ rate # 0
      /\ wallet.pt \in Nat /\ wallet.yt \in Nat /\ wallet.sy \in Nat
      /\ held.pt \in Nat /\ held.sy \in Nat /\ held.adapter \in Nat /\ treasury \in Nat
    BY BooksTypes, Balances
<1>3. PICK c \in Nat : c = Merged(n) /\ c = PyToSy(rate, n)
    BY <1>2, ConversionNat DEF Merged
<1>4. PICK b \in Nat : b = BurnedYt(n)
    BY DEF BurnedYt
<1>5. PICK x \in Nat, y \in Nat, z \in Nat :
        x = wallet.pt - n /\ y = wallet.yt - b /\ z = wallet.sy + c
    BY ONLY <1>1, <1>2, <1>4, c \in Nat, n \in Nat, b \in Nat
<1>6. wallet' \in WalletRecord /\ wallet'.pt = x /\ wallet'.sy = z
    BY ONLY <1>1, <1>3, <1>4, <1>5, x \in Nat, y \in Nat, z \in Nat DEF WalletRecord
<1>7. IInv' /\ AtRest'
    BY <1>1, <1>2, <1>6, WalletStep
<1>8. Moves(0 - n, c) /\ n <= PtOf(wallet, held)
    BY ONLY <1>1, <1>2, <1>5, <1>6, n \in Nat, c \in Nat DEF Moves, PtOf, SyOf
<1>9. Converts
    BY <1>3, <1>8 DEF Converts
<1>10. Books'
    BY <1>1, <1>7, <1>9, MarketBooks
<1> QED BY ONLY <1>1, <1>3, <1>5, <1>6, <1>7, <1>10

(* collect_interest takes what is left beyond the backing of the PT.       *)
LEMMA CollectInterestBooks ==
    ASSUME Books, AtRest, NEW s \in Nat, CollectInterest(s)
    PROVE  /\ Books' /\ AtRest' /\ rate' = rate /\ base' = base
           /\ s - InterestFee(s) \in Nat
           /\ wallet'.sy = wallet.sy + (s - InterestFee(s))
<1>1. /\ s + PtValue <= VaultSy
      /\ wallet' = [wallet EXCEPT !.sy = @ + (s - InterestFee(s))]
      /\ treasury' = treasury + InterestFee(s)
      /\ UNCHANGED <<now, rate, market, lp, held, settings, limits, flash>>
      /\ UNCHANGED <<vaultAth, base, pooled, supply>>
    BY DEF CollectInterest, InVault
<1>2. /\ rate \in Nat /\ rate # 0 /\ supply \in Nat /\ wallet \in WalletRecord
      /\ wallet.pt \in Nat /\ wallet.sy \in Nat
      /\ held.pt \in Nat /\ held.sy \in Nat /\ held.adapter \in Nat /\ treasury \in Nat
    BY BooksTypes, Balances
<1>3. PICK f \in Nat, d \in Nat : f = InterestFee(s) /\ d = s - InterestFee(s) /\ f + d = s
    <2>1. InterestBpsFee \in BasisPoints
        BY RouterAssumptions
    <2>2. InterestFee(s) \in Nat /\ InterestFee(s) <= s
        BY <2>1, FeeOfBps DEF InterestFee
    <2>3. PICK g \in Nat : g = InterestFee(s) /\ g <= s
        BY ONLY <2>2
    <2>4. s - g \in Nat /\ g + (s - g) = s
        BY ONLY <2>3, s \in Nat, g \in Nat
    <2> QED BY <2>3, <2>4
<1>4. wallet' \in WalletRecord /\ wallet'.pt = wallet.pt /\ wallet'.sy = wallet.sy + d
    BY ONLY <1>1, <1>2, <1>3, d \in Nat DEF WalletRecord
<1>5. IInv' /\ AtRest'
    <2>1. treasury' \in Nat
        BY ONLY <1>1, <1>2, <1>3, f \in Nat
    <2> QED BY <1>1, <1>4, <2>1, WalletStep
<1>6. PICK pt \in Nat, sy \in Nat, v \in Nat :
        /\ pt = PtOf(wallet, held) /\ sy = SyOf(wallet, held, treasury)
        /\ v = PyToSy(rate, pt)
    BY <1>2, BooksTypes, ConversionNat
<1>7. VaultSy = supply - sy /\ PtValue = v
    <2>1. sy = wallet.sy + held.sy + held.adapter + treasury
        BY ONLY <1>6 DEF SyOf
    <2> QED BY ONLY <1>6, <2>1 DEF VaultSy, PtValue, PtOf
<1>8. PtOf(wallet', held') = pt /\ SyOf(wallet', held', treasury') = sy + s
    BY ONLY <1>1, <1>2, <1>3, <1>4, <1>6, f \in Nat, d \in Nat, s \in Nat DEF PtOf, SyOf
<1>9. Backs(rate', supply', PtOf(wallet', held'), SyOf(wallet', held', treasury'))
    <2>1. v + (sy + s) <= supply
        BY ONLY <1>1, <1>2, <1>7, v \in Nat, sy \in Nat, s \in Nat
    <2> QED BY ONLY <1>1, <1>6, <1>8, <2>1 DEF Backs
<1>10. Books'
    BY <1>1, <1>5, <1>9 DEF Books
<1> QED BY ONLY <1>1, <1>3, <1>4, <1>5, <1>10

(* The instructions of the market that wrappers call.                      *)
LEMMA MarketCallBooks ==
    ASSUME Books, AtRest, NEW n \in Nat, NEW m \in Nat, InMarket,
           \/ TradePtBuy(n) \/ TradePtSell(n)
           \/ DepositLiquidity(n, m) \/ WithdrawLiquidity(n)
           \/ BuyYt(n, m) \/ SellYt(n)
    PROVE  Books' /\ AtRest' /\ rate' = rate /\ base' = base
<1>1. IInv /\ TypeOK
    BY BooksTypes DEF Books
<1>2. UNCHANGED <<rate, base, pooled, supply, flash>>
    BY DEF InMarket, TradePtBuy, TradePtSell, DepositLiquidity, WithdrawLiquidity,
           BuyYt, SellYt
<1>3. IInv'
    BY <1>1, TradePtBuyInv, TradePtSellInv, DepositLiquidityInv, WithdrawLiquidityInv,
       BuyYtInv, SellYtInv
<1>4. Converts
    <2>1. CASE \/ TradePtBuy(n) \/ TradePtSell(n)
               \/ DepositLiquidity(n, m) \/ WithdrawLiquidity(n)
        BY <1>1, <2>1, TradePtTotals, LiquidityTotals DEF Converts
    <2>2. CASE BuyYt(n, m)
        BY <1>1, <2>2, BuyYtTotals DEF Converts
    <2>3. CASE SellYt(n)
        BY <1>1, <2>3, SellYtTotals DEF Converts
    <2> QED BY <2>1, <2>2, <2>3
<1>5. Books'
    BY <1>2, <1>3, <1>4, MarketBooks
<1> QED BY <1>2, <1>5 DEF AtRest

-----------------------------------------------------------------------------
(* The wrappers.                                                           *)

(* What the first call of a wrapper saves is in order.                     *)
LEMMA SavedInOrder ==
    ASSUME Books, AtRest
    PROVE  UndoOK(rate, Undo)
<1> DEFINE u == Undo
<1>1. IInv /\ TypeOK
    BY BooksTypes DEF Books
<1>2. RestOK
    BY <1>1 DEF IInv, WindowOK, AtRest
<1>3. /\ base \in Nat /\ pooled \in Nat /\ supply \in Nat
      /\ market \in MarketRecord /\ lp \in Nat /\ held \in HeldRecord
      /\ wallet \in WalletRecord /\ treasury \in Nat /\ limits \in LimitsRecord
      /\ vaultAth \in Nat
    BY <1>1, BooksTypes DEF TypeOK
<1>4. u = [base |-> base, pooled |-> pooled, supply |-> supply,
           market |-> market, lp |-> lp, held |-> held, wallet |-> wallet,
           treasury |-> treasury, limits |-> limits, vaultAth |-> vaultAth]
    BY DEF Undo
<1> HIDE DEF u
<1>5. /\ u \in ReturnRecord
      /\ u.market = market /\ u.held = held /\ u.wallet = wallet
      /\ u.treasury = treasury /\ u.supply = supply /\ u.pooled = pooled
    BY ONLY <1>3, <1>4 DEF ReturnRecord
<1>6. market.debt = 0 /\ Covers(held.pt, held.sy + held.adapter, market)
    BY <1>2 DEF RestOK
<1>7. /\ Redeems(rate, supply, pooled)
      /\ Backs(rate, supply, PtOf(wallet, held), SyOf(wallet, held, treasury))
    BY DEF Books
<1>8. UndoOK(rate, u)
    BY ONLY <1>5, <1>6, <1>7 DEF UndoOK
<1> QED BY <1>8 DEF u

(* Once a first call has kept the books, the frame is in order.            *)
LEMMA EntersInOrder ==
    ASSUME Books, AtRest, Books', AtRest', rate' = rate,
           NEW legs \in Seq(LegRecord), legs # <<>>, NEW floor \in Nat,
           Then(legs, floor),
           \A i \in 2 .. Len(legs) : legs[i].op # "redeem",
           legs[1].op = "redeem" =>
             Len(legs) = 1 /\ base' = base /\ wallet'.sy >= wallet.sy + floor
    PROVE  RouterInv'
<1> DEFINE u == Undo
           c == [todo |-> legs, floor |-> floor, undo |-> u]
<1>1. UndoOK(rate, u) /\ u \in ReturnRecord
    BY SavedInOrder DEF UndoOK
<1>2. u.base = base /\ u.wallet = wallet
    BY DEF Undo
<1>3. call' = c
    BY DEF Then
<1> HIDE DEF u
<1>4. c \in CallRecord /\ c.todo = legs /\ c.floor = floor /\ c.undo = u
    BY ONLY <1>1, legs \in Seq(LegRecord), floor \in Nat DEF CallRecord
<1> HIDE DEF c
<1>5. CallOK'
    BY <1>1, <1>2, <1>3, <1>4 DEF CallOK, Upcoming
<1>6. WindowBacked'
    BY DEF WindowBacked, AtRest
<1> QED BY <1>5, <1>6 DEF RouterInv

(* One later call.                                                         *)
LEMMA EntersForOne ==
    ASSUME Books, AtRest, Books', AtRest', rate' = rate,
           NEW x \in LegRecord, NEW floor \in Nat, Then(<<x>>, floor),
           x.op = "redeem" => base' = base /\ wallet'.sy >= wallet.sy + floor
    PROVE  RouterInv'
<1>1. PICK legs : legs = <<x>>
    OBVIOUS
<1>2. legs \in Seq(LegRecord) /\ legs # <<>> /\ Len(legs) = 1 /\ legs[1] = x
    BY ONLY <1>1, x \in LegRecord
<1>3. \A i \in 2 .. Len(legs) : legs[i].op # "redeem"
    <2>1. 2 .. Len(legs) = {}
        BY ONLY <1>2
    <2> QED BY ONLY <2>1
<1>4. Then(legs, floor)
    BY <1>1
<1> QED BY <1>2, <1>3, <1>4, EntersInOrder

(* Two later calls, of which neither redeems.                              *)
LEMMA EntersForTwo ==
    ASSUME Books, AtRest, Books', AtRest', rate' = rate,
           NEW x \in LegRecord, NEW y \in LegRecord, NEW floor \in Nat,
           Then(<<x, y>>, floor), x.op # "redeem", y.op # "redeem"
    PROVE  RouterInv'
<1>1. PICK legs : legs = <<x, y>>
    OBVIOUS
<1>2. /\ legs \in Seq(LegRecord) /\ legs # <<>> /\ Len(legs) = 2
      /\ legs[1] = x /\ legs[2] = y
    BY ONLY <1>1, x \in LegRecord, y \in LegRecord
<1>3. \A i \in 2 .. Len(legs) : legs[i].op # "redeem"
    <2>1. \A i \in 2 .. 2 : i = 2
        OBVIOUS
    <2> QED BY ONLY <1>2, <2>1, y.op # "redeem"
<1>4. Then(legs, floor)
    BY <1>1
<1> QED BY <1>2, <1>3, <1>4, EntersInOrder

(* The legs are well formed.                                               *)
LEMMA LegTypes ==
    ASSUME NEW op \in {"strip", "redeem", "buy_pt", "buy_yt", "deposit"},
           NEW n \in Nat, NEW m \in Nat, NEW bound \in Nat
    PROVE  Leg(op, n, m, bound) \in LegRecord /\ Leg(op, n, m, bound).op = op
    BY DEF Leg, LegRecord

(* The wrappers that mint first.                                           *)
LEMMA BuyersInv ==
    ASSUME RouterInv, NEW b \in Nat, NEW n \in Nat, NEW m \in Nat,
           NEW max \in Nat, NEW min \in Nat,
           \/ WrapperStrip(b) \/ WrapperBuyPt(n, b, max) \/ WrapperBuyYt(b, n, m)
           \/ WrapperProvideLiquidity(b, n, m, min)
           \/ WrapperProvideLiquidityBase(b, n, max, m, min)
    PROVE  RouterInv'
<1>1. Books /\ AtRest /\ MintSy(b)
    BY DEF RouterInv, Enter, WrapperStrip, WrapperBuyPt, WrapperBuyYt,
           WrapperProvideLiquidity, WrapperProvideLiquidityBase
<1>2. Books' /\ AtRest' /\ rate' = rate /\ Minted(b) \in Nat
    BY <1>1, MintSyBooks
<1>3. 0 \in Nat
    OBVIOUS
<1>4. CASE WrapperStrip(b)
    <2>1. PICK x : x = Leg("strip", Minted(b), 0, 0)
        OBVIOUS
    <2>2. x \in LegRecord /\ x.op # "redeem"
        BY <1>2, <1>3, <2>1, LegTypes
    <2>3. Then(<<x>>, 0)
        BY <1>4, <2>1 DEF WrapperStrip, StripLegs
    <2> QED BY <1>1, <1>2, <1>3, <2>2, <2>3, EntersForOne
<1>5. CASE WrapperBuyPt(n, b, max)
    <2>1. PICK x : x = Leg("buy_pt", n, 0, max)
        OBVIOUS
    <2>2. x \in LegRecord /\ x.op # "redeem"
        BY <1>3, <2>1, LegTypes
    <2>3. Then(<<x>>, 0)
        BY <1>5, <2>1 DEF WrapperBuyPt
    <2> QED BY <1>1, <1>2, <1>3, <2>2, <2>3, EntersForOne
<1>6. CASE WrapperBuyYt(b, n, m)
    <2>1. PICK x : x = Leg("buy_yt", n, m, 0)
        OBVIOUS
    <2>2. x \in LegRecord /\ x.op # "redeem"
        BY <1>3, <2>1, LegTypes
    <2>3. Then(<<x>>, 0)
        BY <1>6, <2>1 DEF WrapperBuyYt
    <2> QED BY <1>1, <1>2, <1>3, <2>2, <2>3, EntersForOne
<1>7. CASE WrapperProvideLiquidity(b, n, m, min)
    <2>1. PICK x : x = Leg("deposit", n, m, min)
        OBVIOUS
    <2>2. x \in LegRecord /\ x.op # "redeem"
        BY <2>1, LegTypes
    <2>3. Then(<<x>>, 0)
        BY <1>7, <2>1 DEF WrapperProvideLiquidity
    <2> QED BY <1>1, <1>2, <1>3, <2>2, <2>3, EntersForOne
<1>8. CASE WrapperProvideLiquidityBase(b, n, max, m, min)
    <2>1. PICK x, y : x = Leg("buy_pt", n, 0, max) /\ y = Leg("deposit", n, m, min)
        OBVIOUS
    <2>2. x \in LegRecord /\ y \in LegRecord /\ x.op # "redeem" /\ y.op # "redeem"
        BY <1>3, <2>1, LegTypes
    <2>3. Then(<<x, y>>, 0)
        BY <1>8, <2>1 DEF WrapperProvideLiquidityBase
    <2> QED BY <1>1, <1>2, <1>3, <2>2, <2>3, EntersForTwo
<1> QED BY <1>4, <1>5, <1>6, <1>7, <1>8

(* The wrappers that sell, and then redeem what the sale has brought.      *)
LEMMA SellersInv ==
    ASSUME RouterInv, NEW n \in Nat, NEW min \in Nat, NEW minPt \in Nat,
           \/ WrapperMerge(n) \/ WrapperSellPt(n, min) \/ WrapperSellYt(n, min)
           \/ WrapperCollectInterest(n) \/ WrapperWithdrawLiquidity(n, minPt, min)
    PROVE  RouterInv'
<1>1. Books /\ AtRest
    BY DEF RouterInv, Enter, WrapperMerge, WrapperSellPt, WrapperSellYt,
           WrapperCollectInterest, WrapperWithdrawLiquidity
<1>2. PICK floor \in Nat :
        /\ Then(RedeemLegs, floor)
        /\ Books' /\ AtRest' /\ rate' = rate /\ base' = base
        /\ wallet'.sy >= wallet.sy + floor
    <2>1. CASE WrapperMerge(n)
        <3>1. Merge(n) /\ Then(RedeemLegs, Merged(n))
            BY <2>1 DEF WrapperMerge
        <3>2. /\ Books' /\ AtRest' /\ rate' = rate /\ base' = base
              /\ Merged(n) \in Nat /\ wallet'.sy = wallet.sy + Merged(n)
            BY <1>1, <3>1, MergeBooks
        <3>3. wallet'.sy >= wallet.sy + Merged(n)
            BY <1>1, <3>2, BooksTypes
        <3> QED BY <3>1, <3>2, <3>3
    <2>2. CASE WrapperCollectInterest(n)
        <3>1. CollectInterest(n) /\ Then(RedeemLegs, n - InterestFee(n))
            BY <2>2 DEF WrapperCollectInterest
        <3>2. /\ Books' /\ AtRest' /\ rate' = rate /\ base' = base
              /\ n - InterestFee(n) \in Nat
              /\ wallet'.sy = wallet.sy + (n - InterestFee(n))
            BY <1>1, <3>1, CollectInterestBooks
        <3>3. wallet'.sy >= wallet.sy + (n - InterestFee(n))
            BY <1>1, <3>2, BooksTypes
        <3> QED BY <3>1, <3>2, <3>3
    <2>3. CASE \/ WrapperSellPt(n, min) \/ WrapperSellYt(n, min)
               \/ WrapperWithdrawLiquidity(n, minPt, min)
        <3>1. /\ TradePtSell(n) \/ SellYt(n) \/ WithdrawLiquidity(n)
              /\ InMarket /\ wallet'.sy - wallet.sy >= min
              /\ Then(RedeemLegs, min)
            BY <2>3 DEF WrapperSellPt, SellPt, WrapperSellYt, WrapperWithdrawLiquidity,
                        RemoveLiquidity
        <3>2. Books' /\ AtRest' /\ rate' = rate /\ base' = base
            BY <1>1, <3>1, MarketCallBooks
        <3>3. wallet.sy \in Nat /\ wallet'.sy \in Nat
            <4>1. wallet \in WalletRecord /\ wallet' \in WalletRecord
                BY <1>1, <3>2 DEF Books, IInv, TypeOK
            <4> QED BY ONLY <4>1 DEF WalletRecord
        <3>4. wallet'.sy >= wallet.sy + min
            BY ONLY <3>1, <3>3, min \in Nat
        <3> QED BY <3>1, <3>2, <3>4
    <2> QED BY <2>1, <2>2, <2>3
<1>3. PICK x : x = Leg("redeem", 0, 0, 0)
    OBVIOUS
<1>4. x \in LegRecord /\ Then(<<x>>, floor)
    BY <1>2, <1>3, LegTypes DEF RedeemLegs
<1> QED BY <1>1, <1>2, <1>4, EntersForOne

(* The wrappers that are one call.                                         *)
LEMMA ClassicInv ==
    ASSUME RouterInv, NEW n \in Nat, NEW m \in Nat, NEW x \in Nat, NEW y \in Nat,
           \/ WrapperProvideLiquidityClassic(n, m, x)
           \/ WrapperWithdrawLiquidityClassic(n, x, y)
    PROVE  RouterInv'
<1>1. /\ Books /\ AtRest /\ call = NoCall /\ call' = call
      /\ InMarket /\ (DepositLiquidity(n, m) \/ WithdrawLiquidity(n))
    BY DEF RouterInv, Enter, Running, CallOK, WrapperProvideLiquidityClassic,
           WrapperWithdrawLiquidityClassic, AddLiquidity, RemoveLiquidity
<1>2. Books' /\ AtRest'
    BY <1>1, MarketCallBooks
<1>3. CallOK' /\ WindowBacked'
    BY <1>1, <1>2 DEF CallOK, NoCall, WindowBacked, AtRest
<1> QED BY <1>2, <1>3 DEF RouterInv

(* What an opening flash saves.                                            *)
LEMMA OpenSaves ==
    ASSUME AtRest, NEW kind, NEW n, NEW q, NEW a, NEW b, Open(kind, n, q, a, b),
           NEW f, flash' = <<f>>
    PROVE  f.undo.wallet = wallet /\ f.undo.held = held /\ f.undo.treasury = treasury
<1> DEFINE u == [market |-> market, lp |-> lp, held |-> held,
                 wallet |-> wallet, treasury |-> treasury]
           g == [kind |-> kind, pt |-> n, quote |-> q, advance |-> a,
                 before |-> b, mem |-> market, undo |-> u]
<1>1. flash' = Append(flash, g) /\ flash = <<>>
    BY DEF Open, AtRest
<1>2. u.wallet = wallet /\ u.held = held /\ u.treasury = treasury
    OBVIOUS
<1> HIDE DEF u
<1>3. g.undo = u
    OBVIOUS
<1> HIDE DEF g
<1>4. f = g
    <2>1. flash'[1] = g
        BY ONLY <1>1
    <2>2. flash'[1] = f
        BY ONLY flash' = <<f>>
    <2> QED BY ONLY <2>1, <2>2
<1> QED BY ONLY <1>2, <1>3, <1>4

(* The flash wrappers.                                                     *)
LEMMA FlashWrappersInv ==
    ASSUME RouterInv, NEW n \in Nat, NEW a \in Nat,
           WrapperFlashSwapPt(n) \/ WrapperFlashSwapSy(n) \/ WrapperFlashSellYt(n, a)
    PROVE  RouterInv'
<1>1. /\ Books /\ AtRest /\ call = NoCall /\ UNCHANGED routerVars
      /\ FlashSwapPt(n) \/ FlashSwapSy(n) \/ FlashSellYt(n, a)
    BY DEF RouterInv, Enter, Running, CallOK, WrapperFlashSwapPt, WrapperFlashSwapSy,
           WrapperFlashSellYt
<1>2. IInv /\ TypeOK
    BY <1>1, BooksTypes DEF Books
<1>3. IInv' /\ Moves(0, 0)
    BY <1>1, <1>2, FlashSwapPtInv, FlashSwapSyInv, FlashSellYtInv, OpeningTotals
<1>4. UNCHANGED <<rate, base, pooled, supply, call>>
    BY <1>1 DEF routerVars, FlashSwapPt, FlashSwapSy, FlashSellYt
<1>5. Books'
    BY <1>1, <1>3, <1>4, MarketBooks DEF Converts
<1>6. WindowBacked'
    <2> SUFFICES ASSUME NEW f \in FrameRecord, flash' = <<f>>
                 PROVE  Backs(rate', supply', PtOf(f.undo.wallet, f.undo.held),
                              SyOf(f.undo.wallet, f.undo.held, f.undo.treasury))
        BY DEF WindowBacked
    <2>1. f.undo.wallet = wallet /\ f.undo.held = held /\ f.undo.treasury = treasury
        BY <1>1, OpenSaves DEF FlashSwapPt, FlashSwapSy, FlashSellYt
    <2>2. Backs(rate, supply, PtOf(wallet, held), SyOf(wallet, held, treasury))
        BY <1>1 DEF Books
    <2> QED BY ONLY <1>4, <2>1, <2>2
<1>7. CallOK'
    BY <1>1, <1>4 DEF CallOK, NoCall
<1> QED BY <1>5, <1>6, <1>7 DEF RouterInv

-----------------------------------------------------------------------------
(* The calls that follow.                                                  *)

(* While a wrapper runs, its frame is in order.                            *)
LEMMA RunningFrame ==
    ASSUME RouterInv, Running
    PROVE  /\ Books /\ AtRest /\ call \in CallRecord /\ call.todo # <<>>
           /\ UndoOK(rate, call.undo)
           /\ Upcoming \in LegRecord /\ Len(call.todo) >= 1
           /\ \A i \in 2 .. Len(call.todo) : call.todo[i].op # "redeem"
           /\ Upcoming.op = "redeem" =>
                /\ Len(call.todo) = 1
                /\ base = call.undo.base
                /\ wallet.sy >= call.undo.wallet.sy + call.floor
<1>1. call # NoCall
    BY DEF Running, NoCall
<1>2. call \in CallRecord /\ call.todo # <<>>
    BY <1>1 DEF RouterInv, CallOK
<1>3. call.todo \in Seq(LegRecord)
    BY <1>2 DEF CallRecord
<1>4. Upcoming \in LegRecord /\ Len(call.todo) >= 1
    BY <1>2, <1>3 DEF Upcoming
<1> QED BY <1>1, <1>2, <1>4 DEF RouterInv, CallOK

(* A call that keeps the books and returns leaves a frame in order.        *)
LEMMA ReturnsInOrder ==
    ASSUME RouterInv, Running, Returns, Books', AtRest', rate' = rate
    PROVE  RouterInv'
<1>1. /\ call \in CallRecord /\ call.todo # <<>> /\ UndoOK(rate, call.undo)
      /\ Len(call.todo) >= 1
      /\ \A i \in 2 .. Len(call.todo) : call.todo[i].op # "redeem"
    BY RunningFrame
<1>2. ASSUME Len(call.todo) = 1 PROVE CallOK'
    <2>1. call' = NoCall
        BY <1>2 DEF Returns
    <2> QED BY ONLY <2>1 DEF CallOK, NoCall
<1>3. ASSUME Len(call.todo) # 1 PROVE CallOK'
    <2>0. call.todo \in Seq(LegRecord)
        BY <1>1 DEF CallRecord
    <2>1. PICK s \in Seq(LegRecord) : s = call.todo
        BY ONLY <2>0, Zenon
    <2>2. PICK t \in Seq(LegRecord) :
            /\ t = Tail(s) /\ t # <<>> /\ Len(t) = Len(s) - 1
            /\ \A i \in 1 .. Len(t) : t[i] = s[i + 1]
        <3>0. Len(s) >= 1 /\ Len(s) # 1
            <4>1. Len(call.todo) >= 1
                BY <1>1, Zenon
            <4> QED BY ONLY <4>1, <1>3, <2>1
        <3>1. Len(s) \in Nat /\ Len(s) >= 2
            <4>1. Len(s) \in Nat
                BY ONLY s \in Seq(LegRecord)
            <4>2. PICK k \in Nat : k = Len(s)
                BY ONLY <4>1
            <4>3. k >= 1 /\ k # 1
                BY ONLY <3>0, <4>2
            <4>4. k >= 2
                BY ONLY <4>3
            <4> QED BY ONLY <4>1, <4>2, <4>4
        <3>2. /\ Tail(s) \in Seq(LegRecord) /\ Len(Tail(s)) = Len(s) - 1
              /\ \A i \in 1 .. Len(s) - 1 : Tail(s)[i] = s[i + 1]
            BY ONLY <3>1, s \in Seq(LegRecord)
        <3>3. Tail(s) # <<>>
            <4>1. Len(Tail(s)) # 0
                BY ONLY <3>1, <3>2
            <4>2. Len(<<>>) = 0
                OBVIOUS
            <4> QED BY ONLY <4>1, <4>2
        <3> QED BY <3>2, <3>3, Zenon
    <2>3. \A i \in 1 .. Len(t) : t[i].op # "redeem"
        <3> TAKE i \in 1 .. Len(t)
        <3>1. Len(s) \in Nat /\ Len(t) = Len(s) - 1 /\ i \in 1 .. Len(t)
            BY <2>2
        <3>2. i + 1 \in 2 .. Len(s)
            BY ONLY <3>1
        <3> QED BY <1>1, <2>1, <2>2, <3>2
    <2>4. Len(t) \in Nat /\ Len(t) >= 1
        BY ONLY <2>2, t \in Seq(LegRecord)
    <2>5. t[1].op # "redeem" /\ \A i \in 2 .. Len(t) : t[i].op # "redeem"
        <3>1. 1 \in 1 .. Len(t) /\ \A i \in 2 .. Len(t) : i \in 1 .. Len(t)
            BY ONLY <2>4
        <3> QED BY ONLY <2>3, <3>1
    <2>6. call' = [call EXCEPT !.todo = t]
        BY <1>3, <2>1, <2>2 DEF Returns
    <2>7. call' \in CallRecord /\ call'.todo = t /\ call'.undo = call.undo
        BY ONLY <1>1, <2>6, t \in Seq(LegRecord) DEF CallRecord
    <2>8. UndoOK(rate', call'.undo)
        BY <1>1, <2>7
    <2> QED BY <2>2, <2>5, <2>7, <2>8 DEF CallOK, Upcoming
<1>4. WindowBacked'
    BY DEF WindowBacked, AtRest
<1>5. CallOK'
    BY <1>2, <1>3
<1> QED BY <1>4, <1>5 DEF RouterInv

(* The calls after the first.                                              *)
LEMMA LaterCallsInv ==
    ASSUME RouterInv, StripsMinted \/ RedeemsAll \/ BuysPt \/ BuysYt \/ Deposits
    PROVE  RouterInv'
<1>1. Running /\ Returns
    BY DEF StripsMinted, RedeemsAll, BuysPt, BuysYt, Deposits, Continues
<1>2. Books /\ AtRest /\ Upcoming \in LegRecord
    BY <1>1, RunningFrame
<1>3. PICK n \in Nat, m \in Nat : n = Upcoming.n /\ m = Upcoming.m
    BY <1>2 DEF LegRecord
<1>4. CASE StripsMinted
    <2>1. Strip(n)
        BY <1>3, <1>4 DEF StripsMinted
    <2> QED BY <1>1, <1>2, <2>1, StripBooks, ReturnsInOrder
<1>5. CASE RedeemsAll
    <2>1. RedeemSy(wallet.sy) /\ wallet.sy \in Nat
        BY <1>2, <1>5, BooksTypes DEF RedeemsAll, SyBalance
    <2>2. wallet.sy <= wallet.sy
        BY ONLY <2>1
    <2>3. Books' /\ AtRest' /\ rate' = rate
        BY <1>2, <2>1, <2>2, RedeemSyBooks
    <2> QED BY <1>1, <2>3, ReturnsInOrder
<1>6. CASE BuysPt \/ BuysYt \/ Deposits
    <2>1. InMarket /\ (TradePtBuy(n) \/ BuyYt(n, m) \/ DepositLiquidity(n, m))
        BY <1>3, <1>6 DEF BuysPt, BuyPt, BuysYt, Deposits, AddLiquidity
    <2>2. Books' /\ AtRest' /\ rate' = rate
        BY <1>2, <2>1, MarketCallBooks
    <2> QED BY <1>1, <2>2, ReturnsInOrder
<1> QED BY <1>4, <1>5, <1>6

(* A failed wrapper restores what its first call found.                    *)
LEMMA WrapperFailsInv ==
    ASSUME RouterInv, WrapperFails
    PROVE  RouterInv'
<1>1. Running
    BY DEF WrapperFails
<1>2. Books /\ AtRest /\ UndoOK(rate, call.undo)
    BY <1>1, RunningFrame
<1>3. PICK u : u = call.undo
    OBVIOUS
<1>4. /\ base' = u.base /\ pooled' = u.pooled /\ supply' = u.supply
      /\ market' = u.market /\ lp' = u.lp /\ held' = u.held /\ wallet' = u.wallet
      /\ treasury' = u.treasury /\ limits' = u.limits /\ vaultAth' = u.vaultAth
      /\ call' = NoCall /\ UNCHANGED <<now, rate, settings, flash>>
    BY <1>3 DEF WrapperFails
<1>5. /\ u \in ReturnRecord /\ u.market.debt = 0
      /\ Covers(u.held.pt, u.held.sy + u.held.adapter, u.market)
      /\ Redeems(rate, u.supply, u.pooled)
      /\ Backs(rate, u.supply, PtOf(u.wallet, u.held), SyOf(u.wallet, u.held, u.treasury))
    BY <1>2, <1>3 DEF UndoOK
<1>6. /\ u.base \in Nat /\ u.pooled \in Nat /\ u.supply \in Nat
      /\ u.market \in MarketRecord /\ u.lp \in Nat /\ u.held \in HeldRecord
      /\ u.wallet \in WalletRecord /\ u.treasury \in Nat /\ u.limits \in LimitsRecord
      /\ u.vaultAth \in Nat
    BY ONLY <1>5 DEF ReturnRecord
<1>7. TypeOK'
    <2>1. TypeOK
        BY <1>2, BooksTypes
    <2> QED BY ONLY <1>4, <1>6, <2>1 DEF TypeOK, LimitsRecord
<1>8. RestOK'
    BY <1>2, <1>4, <1>5 DEF RestOK, AtRest, Covers
<1>9. Books'
    <2>1. IInv'
        BY <1>7, <1>8 DEF IInv
    <2>2. rate' \in Rates \ {0}
        BY <1>2, <1>4 DEF Books
    <2> QED BY <1>4, <1>5, <1>6, <2>1, <2>2 DEF Books
<1>10. WindowBacked' /\ CallOK'
    BY <1>2, <1>4 DEF WindowBacked, AtRest, CallOK
<1> QED BY <1>9, <1>10 DEF RouterInv

-----------------------------------------------------------------------------
(* Between wrappers.                                                       *)

(* The rate does not fall, and keeps everything backed.                    *)
LEMMA RateKeepsBooks ==
    ASSUME RouterInv, IInv', rate' \in Rates \ {0}, rate' >= rate,
           UNCHANGED <<base, pooled, supply, call, wallet, held, treasury>>,
           call = NoCall, flash' = flash
    PROVE  RouterInv'
<1>1. Books
    BY DEF RouterInv
<1>2. rate \in Nat \ {0} /\ rate' \in Nat \ {0} /\ rate <= rate'
    BY <1>1, BooksTypes, MarketAssumptions
<1>3. Redeems(rate', supply, pooled)
    BY <1>1, RiseRedeems DEF Books
<1>4. Backs(rate', supply, PtOf(wallet, held), SyOf(wallet, held, treasury))
    BY <1>1, <1>2, BooksTypes, RiseBacks DEF Books
<1>5. Books'
    BY <1>1, <1>3, <1>4 DEF Books
<1>6. WindowBacked'
    <2> SUFFICES ASSUME NEW f \in FrameRecord, flash = <<f>>
                 PROVE  Backs(rate', supply, PtOf(f.undo.wallet, f.undo.held),
                              SyOf(f.undo.wallet, f.undo.held, f.undo.treasury))
        BY DEF WindowBacked
    <2>1. Backs(rate, supply, PtOf(f.undo.wallet, f.undo.held),
                SyOf(f.undo.wallet, f.undo.held, f.undo.treasury))
        BY DEF RouterInv, WindowBacked
    <2>2. /\ f.undo.wallet \in WalletRecord /\ f.undo.held \in HeldRecord
          /\ f.undo.treasury \in Nat
        <3>1. f.undo \in UndoRecord
            BY FrameFields
        <3> QED BY ONLY <3>1 DEF UndoRecord
    <2>3. supply \in Nat
        BY <1>1, BooksTypes
    <2> QED BY <1>2, <2>1, <2>2, <2>3, SumsNat, RiseBacks
<1>7. CallOK'
    BY DEF CallOK, NoCall
<1> QED BY <1>5, <1>6, <1>7 DEF RouterInv

(* An open window closes, or lets its callback act.                        *)
LEMMA WindowKeepsBooks ==
    ASSUME RouterInv, ~AtRest, call = NoCall, UNCHANGED routerVars, rate' = rate, IInv',
           Converts, flash' \in {flash, <<>>}
    PROVE  RouterInv'
<1>1. Books /\ UNCHANGED <<base, pooled, supply, call>>
    BY DEF RouterInv, routerVars
<1>2. Books'
    BY <1>1, MarketBooks
<1>3. WindowBacked'
    BY <1>1 DEF RouterInv, WindowBacked
<1>4. CallOK'
    BY <1>1 DEF CallOK, NoCall
<1> QED BY <1>2, <1>3, <1>4 DEF RouterInv

(* A failed flash restores what its opening found.                         *)
LEMMA FlashFailsInv ==
    ASSUME RouterInv, call = NoCall, TransactionFails, UNCHANGED routerVars
    PROVE  RouterInv'
<1>1. Books /\ IInv /\ UNCHANGED <<base, pooled, supply, call, rate>>
    BY DEF RouterInv, Books, routerVars, TransactionFails
<1>2. IInv'
    BY <1>1, TransactionFailsInv
<1>3. PICK f \in FrameRecord : flash = <<f>>
    BY <1>1, WindowOpen DEF TransactionFails, WindowOK
<1>4. flash[1] = f
    BY <1>3
<1>5. wallet' = f.undo.wallet /\ held' = f.undo.held /\ treasury' = f.undo.treasury
    BY <1>4 DEF TransactionFails
<1>6. Backs(rate, supply, PtOf(f.undo.wallet, f.undo.held),
            SyOf(f.undo.wallet, f.undo.held, f.undo.treasury))
    BY <1>3 DEF RouterInv, WindowBacked
<1>7. Books'
    BY <1>1, <1>2, <1>5, <1>6 DEF Books
<1>8. WindowBacked' /\ CallOK'
    BY <1>1 DEF WindowBacked, CallOK, NoCall, TransactionFails
<1> QED BY <1>7, <1>8 DEF RouterInv

(* The clock, the rate, and what the callback of a flash window does.      *)
LEMMA MeanwhileInv ==
    ASSUME RouterInv, Meanwhile
    PROVE  RouterInv'
<1>1. /\ ~Running /\ rate' >= rate /\ UNCHANGED routerVars
      /\ IF AtRest THEN Tick \/ SyRateMoves ELSE Next
    BY DEF Meanwhile
<1>2. call = NoCall /\ IInv /\ TypeOK /\ Books
    BY <1>1, BooksTypes DEF RouterInv, CallOK, Running, Books
<1>3. IInv'
    BY <1>1, <1>2, NextInv DEF Next
<1>4. UNCHANGED <<base, pooled, supply, call>>
    BY <1>1 DEF routerVars
<1>5. CASE SyRateMoves \/ Tick
    <2>1. rate' \in Rates \ {0}
        <3>1. rate \in Nat \ {0} /\ rate \in Rates
            BY <1>2, BooksTypes
        <3>2. rate' \in Rates
            BY <1>5, <3>1 DEF SyRateMoves, Tick
        <3>3. rate' \in Nat
            BY <3>2, MarketAssumptions
        <3> QED BY ONLY <1>1, <3>1, <3>2, <3>3
    <2>2. UNCHANGED <<wallet, held, treasury, flash>>
        BY <1>5 DEF SyRateMoves, Tick, accounts
    <2> QED BY <1>1, <1>2, <1>3, <1>4, <2>1, <2>2, RateKeepsBooks, SMTT(30)
<1>6. CASE TransactionFails
    BY <1>1, <1>2, <1>6, FlashFailsInv, Zenon
<1>7. CASE ~AtRest /\ Next /\ ~SyRateMoves /\ ~Tick /\ ~TransactionFails
    <2>1. ~FlashClosed
        BY <1>2, <1>7, OpenShutsGate, Zenon
    <2>2. \/ \E n \in Amounts : TransferPtIn(n) \/ TransferSyIn(n)
          \/ FlashSwapPtRepaid \/ FlashSwapSyRepaid \/ FlashSellYtDelivered
        <3>1. ~\E n, m \in Amounts :
                  \/ TradePtBuy(n) \/ TradePtSell(n) \/ DepositLiquidity(n, m)
                  \/ WithdrawLiquidity(n) \/ BuyYt(n, m) \/ SellYt(n)
                  \/ FlashSwapPt(n) \/ FlashSwapSy(n) \/ FlashSellYt(n, m)
            BY <2>1, GateHolds, Zenon
        <3>2. ~ModifyMarketSetting /\ ~ChangeLiquidityNetBalanceLimits
            BY <1>7 DEF ModifyMarketSetting, ChangeLiquidityNetBalanceLimits
        <3> QED BY <1>7, <3>1, <3>2 DEF Next
    <2>3. Converts
        <3>1. CASE \E n \in Amounts : TransferPtIn(n) \/ TransferSyIn(n)
            BY <1>2, <3>1, MarketAssumptions, TransferTotals DEF Converts
        <3>2. CASE FlashSwapPtRepaid \/ FlashSwapSyRepaid
            BY <1>2, <3>2, RepaidTotals DEF Converts
        <3>3. CASE FlashSellYtDelivered
            BY <1>2, <3>3, DeliveredTotals DEF Converts
        <3> QED BY <2>2, <3>1, <3>2, <3>3
    <2>4. rate' = rate /\ flash' \in {flash, <<>>}
        <3>1. PICK f \in FrameRecord : flash = <<f>>
            BY <1>2, <1>7, WindowOpen DEF WindowOK
        <3>2. Pop = <<>>
            BY <3>1, OneWindow
        <3> QED BY <2>2, <3>2 DEF TransferPtIn, TransferSyIn, FlashSwapPtRepaid,
                    FlashSwapSyRepaid, FlashSellYtDelivered
    <2> QED BY <1>1, <1>2, <1>3, <1>7, <2>3, <2>4, WindowKeepsBooks
<1> QED BY <1>1, <1>5, <1>6, <1>7

-----------------------------------------------------------------------------
(* The invariant is inductive.                                             *)

LEMMA RouterInitInv == RouterInit => RouterInv
<1> SUFFICES ASSUME RouterInit PROVE RouterInv
    OBVIOUS
<1>1. /\ Init /\ base = Funds /\ pooled = InitialPooled /\ supply = InitialSupply
      /\ call = NoCall
    BY DEF RouterInit
<1>2. PICK pool \in InitialPools : Seeded(pool)
    BY <1>1 DEF Init
<1>3. PICK p \in Nat, s \in Nat : p = pool[1] /\ s = pool[2]
    <2>1. pool \in Nat \X Nat
        BY MarketAssumptions
    <2> QED BY <2>1
<1>4. rate \in Rates \ {0} /\ wallet = InitialWallet /\ treasury = 0 /\ AtRest
    BY <1>1 DEF Init, AtRest
<1>5. held.pt = p /\ held.sy = 0 /\ held.adapter = s
    <2>1. held = [pt |-> p, sy |-> 0, adapter |-> s]
        BY ONLY <1>2, <1>3 DEF Seeded
    <2> QED BY ONLY <2>1
<1>6. InitialWallet.sy \in Nat
    BY MarketAssumptions DEF WalletRecord
<1>7. SyOf(wallet, held, treasury) = InitialWallet.sy + s
    BY ONLY <1>4, <1>5, <1>6, s \in Nat DEF SyOf
<1>8. PtOf(wallet, held) = InitialWallet.pt + p
    BY ONLY <1>4, <1>5 DEF PtOf
<1>9. Redeems(rate, supply, pooled)
    BY <1>1, <1>4, InitiallyBacked DEF Redeems
<1>10. Backs(rate, supply, PtOf(wallet, held), SyOf(wallet, held, treasury))
    <2>1. PyToSy(rate, InitialWallet.pt + p) + InitialWallet.sy + s <= InitialSupply
        BY <1>2, <1>3, <1>4, InitiallyBacked
    <2>2. PyToSy(rate, InitialWallet.pt + p) \in Nat
        <3>1. InitialWallet.pt + p \in Nat
            BY MarketAssumptions DEF WalletRecord
        <3>2. rate \in Nat \ {0}
            BY <1>4, MarketAssumptions
        <3> QED BY <3>1, <3>2, ConversionNat
    <2>3. PyToSy(rate, InitialWallet.pt + p) + (InitialWallet.sy + s) <= InitialSupply
        BY ONLY <2>1, <2>2, <1>6, s \in Nat
    <2> QED BY ONLY <1>1, <1>7, <1>8, <2>3 DEF Backs
<1>11. base \in Nat /\ pooled \in Nat /\ supply \in Nat
    BY <1>1, RouterAssumptions
<1>12. Books
    BY <1>1, <1>4, <1>9, <1>10, <1>11, InitInv DEF Books
<1>13. WindowBacked /\ CallOK
    BY <1>1, <1>4 DEF WindowBacked, AtRest, CallOK
<1> QED BY <1>12, <1>13 DEF RouterInv

LEMMA RouterNextInv == RouterInv /\ [RouterNext]_allVars => RouterInv'
<1> SUFFICES ASSUME RouterInv, [RouterNext]_allVars PROVE RouterInv'
    OBVIOUS
<1>1. /\ Amounts \subseteq Nat /\ BaseAmounts \subseteq Nat /\ Intents \subseteq Nat
      /\ Maxima \subseteq Nat /\ Minima \subseteq Nat /\ 0 \in Nat
    BY MarketAssumptions, RouterAssumptions
<1>2. CASE \/ \E b \in BaseAmounts : WrapperStrip(b)
           \/ \E n \in Amounts, b \in BaseAmounts, x \in Maxima : WrapperBuyPt(n, b, x)
           \/ \E b \in BaseAmounts, s, y \in Amounts : WrapperBuyYt(b, s, y)
           \/ \E b \in BaseAmounts, p, s \in Intents, x \in Minima :
                WrapperProvideLiquidity(b, p, s, x)
           \/ \E b \in BaseAmounts, p, s \in Intents, max \in Maxima, min \in Minima :
                WrapperProvideLiquidityBase(b, p, max, s, min)
    BY <1>1, <1>2, BuyersInv
<1>3. CASE \/ \E n \in Amounts : WrapperMerge(n)
           \/ \E n \in Amounts, x \in Minima : WrapperSellPt(n, x)
           \/ \E y \in Amounts, x \in Minima : WrapperSellYt(y, x)
           \/ \E s \in Amounts : WrapperCollectInterest(s)
           \/ \E n \in Amounts, x, y \in Minima : WrapperWithdrawLiquidity(n, x, y)
    BY <1>1, <1>3, SellersInv
<1>4. CASE \/ \E p, s \in Intents, x \in Minima :
                WrapperProvideLiquidityClassic(p, s, x)
           \/ \E n \in Amounts, x, y \in Minima :
                WrapperWithdrawLiquidityClassic(n, x, y)
    BY <1>1, <1>4, ClassicInv
<1>5. CASE \/ \E n \in Amounts : WrapperFlashSwapPt(n)
           \/ \E n \in Amounts : WrapperFlashSwapSy(n)
           \/ \E n, a \in Amounts : WrapperFlashSellYt(n, a)
    BY <1>1, <1>5, FlashWrappersInv
<1>6. CASE StripsMinted \/ RedeemsAll \/ BuysPt \/ BuysYt \/ Deposits
    BY <1>6, LaterCallsInv
<1>7. CASE WrapperFails
    BY <1>7, WrapperFailsInv
<1>8. CASE Meanwhile
    BY <1>8, MeanwhileInv
<1>9. CASE UNCHANGED allVars
    <2>1. UNCHANGED vars /\ UNCHANGED <<base, pooled, supply, call>>
        BY <1>9 DEF allVars, routerVars
    <2>2. UNCHANGED <<now, rate, vaultAth, market, lp, held, wallet, treasury,
                      settings, limits, flash>>
        BY <2>1 DEF vars, accounts
    <2>3. IInv'
        BY <2>1, NextInv DEF RouterInv, Books
    <2>4. Books'
        BY <2>1, <2>2, <2>3 DEF RouterInv, Books
    <2>5. WindowBacked' /\ CallOK'
        BY <2>1, <2>2 DEF RouterInv, WindowBacked, CallOK, AtRest, Upcoming, NoCall
    <2> QED BY <2>4, <2>5 DEF RouterInv
<1> QED BY <1>2, <1>3, <1>4, <1>5, <1>6, <1>7, <1>8, <1>9 DEF RouterNext

-----------------------------------------------------------------------------
(* What follows for users.                                                 *)

(* The inductive invariant holds of every state between the inner calls.   *)
THEOREM BackedThroughout == RouterSpec => []RouterInv
<1> QED BY RouterInitInv, RouterNextInv, PTL DEF RouterSpec

(* What the market's instructions keep, the wrappers keep too, between     *)
(* their calls and when they fail.                                         *)
THEOREM WrappersKeepMarket ==
    RouterSpec => [](TypeOK /\ ReservesHeld /\ DebtMarksWindow)
<1>1. RouterInv => TypeOK /\ ReservesHeld /\ DebtMarksWindow
    BY InvariantReserves, InvariantMarks DEF RouterInv, Books, IInv
<1> QED BY BackedThroughout, <1>1, PTL

(* However wrappers, failures and flash callbacks interleave, the adapter  *)
(* can pay for all SY while its rate is the lowest there is.               *)
THEOREM SyAlwaysRedeemable == RouterSpec => []SyRedeemable
<1>1. RouterInv => SyRedeemable
    BY AdapterConverts DEF RouterInv, Books, Redeems, SyRedeemable
<1> QED BY BackedThroughout, <1>1, PTL

(* At any rate that does not fall, the vault's SY redeem every PT, though  *)
(* interest is collected and YT are traded between strips and merges.      *)
THEOREM PtAlwaysRedeemable == RouterSpec => []PtRedeemable
<1>1. RouterInv => PtRedeemable
    <2> SUFFICES ASSUME Books PROVE PtRedeemable
        BY DEF RouterInv
    <2>1. PICK t \in Nat, sy \in Nat, v \in Nat :
            /\ t = supply /\ sy = SyOf(wallet, held, treasury)
            /\ v = PyToSy(rate, PtOf(wallet, held))
        BY BooksTypes, ConversionNat
    <2>2. v + sy <= t
        BY ONLY Books, <2>1 DEF Books, Backs
    <2>3. VaultSy = t - sy /\ PtValue = v
        BY ONLY <2>1 DEF VaultSy, PtValue, SyOf, PtOf
    <2>4. t - sy >= v
        BY ONLY <2>2, t \in Nat, sy \in Nat, v \in Nat
    <2> QED BY ONLY <2>3, <2>4 DEF PtRedeemable
<1> QED BY BackedThroughout, <1>1, PTL

(* Only the redemption of a sale, or a failure, ends a sale.               *)
LEMMA SaleEnds ==
    ASSUME RouterInv, [RouterNext]_allVars, Running, ~Running', Upcoming.op = "redeem"
    PROVE  WrapperFails \/ RedeemSy(wallet.sy)
<1>1. ~Enter /\ ~Meanwhile
    BY DEF Enter, Meanwhile
<1>2. ~UNCHANGED allVars
    BY DEF Running, allVars, routerVars
<1>3. ~(StripsMinted \/ BuysPt \/ BuysYt \/ Deposits)
    BY DEF StripsMinted, BuysPt, BuysYt, Deposits, Continues
<1>4. RedeemsAll => RedeemSy(wallet.sy)
    BY DEF RedeemsAll, SyBalance
<1> QED
    BY <1>1, <1>2, <1>3, <1>4
    DEF RouterNext, WrapperStrip, WrapperMerge, WrapperBuyPt, WrapperSellPt,
        WrapperBuyYt, WrapperSellYt, WrapperCollectInterest, WrapperProvideLiquidity,
        WrapperProvideLiquidityClassic, WrapperProvideLiquidityBase,
        WrapperWithdrawLiquidity, WrapperWithdrawLiquidityClassic,
        WrapperFlashSwapPt, WrapperFlashSwapSy, WrapperFlashSellYt

(* A sale reaches the user as base for at least what it was to bring, or   *)
(* leaves nothing behind, whatever SY the wallet held before it.           *)
THEOREM SalesReachBase == RouterSpec => SaleReachesBase
<1>1. RouterInv /\ [RouterNext]_allVars =>
        (Running /\ ~Running' /\ Upcoming.op = "redeem" =>
           \/ Undone
           \/ base' >= call.undo.base
                   + Adapter!RedeemedFor(call.undo.wallet.sy + call.floor))
    <2> SUFFICES ASSUME RouterInv, [RouterNext]_allVars, Running, ~Running',
                        Upcoming.op = "redeem", ~Undone
                 PROVE  base' >= call.undo.base
                            + Adapter!RedeemedFor(call.undo.wallet.sy + call.floor)
        OBVIOUS
    <2>1. RedeemSy(wallet.sy)
        BY SaleEnds DEF WrapperFails, Undone
    <2>2. /\ base = call.undo.base
          /\ wallet.sy >= call.undo.wallet.sy + call.floor
          /\ call \in CallRecord
        BY RunningFrame
    <2>3. PICK b \in Nat, r \in Nat \ {0}, s \in Nat :
            b = base /\ r = rate /\ s = wallet.sy
        BY BooksTypes DEF RouterInv
    <2>4. PICK c \in Nat : c = call.undo.wallet.sy + call.floor
        BY <2>2 DEF CallRecord, ReturnRecord, WalletRecord
    <2>5. SyToPy(r, c) <= SyToPy(r, s)
        BY <2>2, <2>3, <2>4, SyToPyMonotone
    <2>6. SyToPy(r, c) \in Nat /\ SyToPy(r, s) \in Nat
        BY ConversionNat
    <2>7. base' = b + SyToPy(r, s)
        BY <2>1, <2>3, AdapterConverts DEF RedeemSy
    <2>8. b + SyToPy(r, s) >= b + SyToPy(r, c)
        BY ONLY <2>5, <2>6, b \in Nat
    <2> QED BY <2>2, <2>3, <2>4, <2>7, <2>8, AdapterConverts
<1> QED BY BackedThroughout, <1>1, PTL DEF RouterSpec, SaleReachesBase
=============================================================================
