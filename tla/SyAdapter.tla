------------------------------ MODULE SyAdapter ------------------------------
(***************************************************************************)
(* The reference SY program (reference_adapters/generic_exchange_rate_sy): *)
(* a pool of base tokens against which SY is minted and burnt at a stored  *)
(* exchange rate.  Users' instructions compose these outcomes with their   *)
(* own changes; a failed transfer is a disabled action.                    *)
(***************************************************************************)
EXTENDS FixedPoint

VARIABLE adapter        \* SyMarket::exchange_rate and the tokens of base_vault

AdapterRecord == [rate : Nat, base : Nat]

RateValid == adapter.rate > 0

MintedForRoundedUp(base) == CeilU64(NumDiv(Natural(base), adapter.rate))
MintedFor(base) == FloorU64(NumDiv(Natural(base), adapter.rate))
RedeemedFor(sy) == FloorU64(NumMul(Natural(sy), adapter.rate))

(* mint_sy of `base` and redeem_sy of `sy`, as they change the adapter.    *)
WithMint(a, base) == [a EXCEPT !.base = @ + base]
WithRedeem(a, sy) == [a EXCEPT !.base = @ - RedeemedFor(sy)]

(* A crank redeems and mints again at the rate it found.                   *)
CanRedeem(sy) == RateValid /\ RedeemedFor(sy) <= adapter.base

(* poke_exchange_rate by the adapter's authority.                          *)
PokeExchangeRate(new) ==
    /\ new > 0
    /\ new >= adapter.rate
    /\ adapter' = [adapter EXCEPT !.rate = new]
=============================================================================
