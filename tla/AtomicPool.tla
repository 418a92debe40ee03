------------------------------ MODULE AtomicPool ------------------------------
(***************************************************************************)
(* What a market promises its liquidity providers, with no flash windows,  *)
(* no escrows and no SY program: two reserves and a supply of LP tokens    *)
(* that change by whole trades and by liquidity operations at the current  *)
(* share price.  Virtual amounts are part of the share price, so that the  *)
(* first provider cannot own the whole pool.                               *)
(***************************************************************************)
EXTENDS Integers

CONSTANTS VirtualPt, VirtualSy, VirtualLp

VARIABLES
    pt, sy,             \* reserves of PT and SY
    lp                  \* LP tokens in circulation

poolVars == <<pt, sy, lp>>

(* An LP token is worth as much of both reserves after the step as before. *)
SharePriceKept ==
    /\ (pt' + VirtualPt) * (lp + VirtualLp) >= (pt + VirtualPt) * (lp' + VirtualLp)
    /\ (sy' + VirtualSy) * (lp + VirtualLp) >= (sy + VirtualSy) * (lp' + VirtualLp)

PoolInit == pt \in Nat /\ sy \in Nat /\ lp \in Nat

(* PT leaves for SY, or SY for PT; no LP token is minted or burned.        *)
BuyPt == pt' < pt /\ sy' >= sy /\ lp' = lp
SellPt == pt' > pt /\ sy' < sy /\ lp' = lp

AddLiquidity == pt' >= pt /\ sy' >= sy /\ lp' >= lp /\ SharePriceKept
RemoveLiquidity == pt' <= pt /\ sy' <= sy /\ lp' <= lp /\ SharePriceKept

PoolNext ==
    /\ pt' \in Nat /\ sy' \in Nat /\ lp' \in Nat
    /\ BuyPt \/ SellPt \/ AddLiquidity \/ RemoveLiquidity

PoolSpec == PoolInit /\ [][PoolNext]_poolVars
=============================================================================
