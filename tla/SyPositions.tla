----------------------------- MODULE SyPositions -----------------------------
(***************************************************************************)
(* SY held with an SY program: both reference adapters keep deposited SY   *)
(* in one pool escrow and each owner's share of it in a PersonalPosition.  *)
(***************************************************************************)
EXTENDS Sums

CONSTANT Users          \* owners of wallets and of positions

ASSUME UsersAssumption == IsFiniteSet(Users)

VARIABLES
    sy,                 \* SY in each user's wallet
    poolEscrow,         \* SY in pool_escrow
    accounts,           \* owners of a PersonalPosition
    position            \* PersonalPosition::sy_balance

positionVars == <<sy, poolEscrow, accounts, position>>

Issued == Total(Users, sy) + poolEscrow

InitPersonalAccount(u) ==
    /\ u \notin accounts
    /\ accounts' = accounts \cup {u}
    /\ position' = [position EXCEPT ![u] = 0]
    /\ UNCHANGED <<sy, poolEscrow>>

DepositSy(u, amount) ==
    /\ u \in accounts
    /\ amount > 0
    /\ amount <= sy[u]
    /\ sy' = [sy EXCEPT ![u] = @ - amount]
    /\ poolEscrow' = poolEscrow + amount
    /\ position' = [position EXCEPT ![u] = @ + amount]
    /\ UNCHANGED accounts

InEscrowOnly(u, amount) == amount <= poolEscrow
InPosition(u, amount) == amount <= position[u]

(* To any SY account the owner names.                                      *)
WithdrawSy(u, to, amount) ==
    /\ u \in accounts
    /\ amount > 0
    /\ InPosition(u, amount)
    /\ amount <= poolEscrow
    /\ position' = [position EXCEPT ![u] = @ - amount]
    /\ poolEscrow' = poolEscrow - amount
    /\ sy' = [sy EXCEPT ![to] = @ + amount]
    /\ UNCHANGED accounts

(* A plain token transfer into the escrow, which no position records.      *)
SendToEscrow(u, amount) ==
    /\ amount > 0
    /\ amount <= sy[u]
    /\ sy' = [sy EXCEPT ![u] = @ - amount]
    /\ poolEscrow' = poolEscrow + amount
    /\ UNCHANGED <<accounts, position>>

PositionsTypeOK ==
    /\ sy \in [Users -> Nat]
    /\ poolEscrow \in Nat
    /\ accounts \subseteq Users
    /\ position \in [Users -> Nat]

(* deposit_sy and withdraw_sy: the escrow holds what all positions promise, *)
(* so no sequence of withdrawals by some owners leaves another short.      *)
PositionsEscrowed == Total(Users, position) <= poolEscrow
=============================================================================
