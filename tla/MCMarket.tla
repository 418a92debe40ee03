------------------------------- MODULE MCMarket -------------------------------
(***************************************************************************)
(* Small instances of MarketTwo for TLC.                                   *)
(***************************************************************************)
EXTENDS MarketTwo

AllOpen == [status |-> Flags, feeBps |-> 5000]
NoYt == [AllOpen EXCEPT !.status = Flags \ {"buy_yt", "sell_yt"}]
ExitOnly == [feeBps |-> 0, status |-> {"withdraw_liquidity"}]

NoSettings == {}
SomeSettings == {NoYt, ExitOnly}

NoLimits == {}
TightLimits == {[maxNeg |-> 5000, maxPos |-> 20000, duration |-> 1]}

Pool2x2 == {<<2, 2>>}
Pools == {<<3, 2>>, <<0, 0>>}

Traders == [pt |-> 1, yt |-> 1, sy |-> 2]
Providers == [pt |-> 4, yt |-> 0, sy |-> 4]
=============================================================================
