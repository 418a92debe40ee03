---------------------------- MODULE KaminoAdapter ----------------------------
(***************************************************************************)
(* The Kamino SY program (reference_adapters/kamino_sy_adapter): SY stands *)
(* one to one for collateral tokens (ctokens) of a klend reserve, and its  *)
(* exchange rate is decoded from the reserve's account.  The reserve is    *)
(* external: lenders, borrowers and the fee collector act on it between    *)
(* any two instructions, and interest is booked only when somebody         *)
(* refreshes it.  Amounts with a fraction are counted in 1/Scale units.    *)
(***************************************************************************)
EXTENDS FixedPoint, SyPositions, Sequences

CONSTANTS
    Scale,              \* 2^SF_BITS, the fraction of klend's `_sf` amounts
    Funds,              \* underlying tokens of each user at first
    InitialReserve,
    Locked,             \* ctokens of the reserve's first deposit, never redeemed
    Amounts,            \* of tokens, in instructions
    Accruals,           \* interest and fees of one period
    MaxSupply,          \* bound on the liquidity owed to the ctokens
    PdaLists            \* core PDAs and their wallets at initialisation

ReserveRecord ==
    [available : Nat, borrowed : Nat, fees : Nat, supply : Nat]
DueRecord == [interest : Nat, fee : Nat]

ASSUME KaminoAssumptions ==
    /\ Scale \in Nat \ {0}
    /\ Funds \in [Users -> Nat]
    /\ InitialReserve \in ReserveRecord
    /\ InitialReserve.fees <=
         InitialReserve.available * Scale + InitialReserve.borrowed
    /\ Locked \in 1..InitialReserve.supply
    /\ Amounts \subseteq Nat
    /\ Accruals \subseteq DueRecord
    /\ \A a \in Accruals : a.fee <= a.interest
    /\ MaxSupply \in Nat

VARIABLES
    metadata,           \* SyMetadata: whether it exists, and the whitelist
    base,               \* underlying tokens of each user
    collateral,         \* ctokens in collateral_vault
    reserve,            \* the klend reserve's account
    due,                \* interest and fees since its last refresh
    high                \* history: the highest rate any reader has seen

vars == <<positionVars, metadata, base, collateral, reserve, due, high>>

NothingDue == [interest |-> 0, fee |-> 0]

-----------------------------------------------------------------------------
(* The reserve.                                                            *)

(* klend's own account of what it owes to the holders of ctokens: the fees *)
(* are the protocol's.                                                     *)
OwedSf(r) == r.available * Scale + r.borrowed - r.fees

WithFees(r) == r.available * Scale + r.borrowed

(* The same sum decoded by read_real_klend_rate.                           *)
TotalSupplySf(r) ==
    IF r.fees > r.available * Scale + r.borrowed THEN 0
    ELSE r.available * Scale + r.borrowed - r.fees

(* Whole units, as read_real_klend_rate truncates them.                    *)
TotalSupply(r) == TotalSupplySf(r) \div Scale

RateReadable(r) == r.supply > 0 /\ TotalSupply(r) > 0

ReadExchangeRate(r) == FromRatio(TotalSupply(r), r.supply)

Refreshed(r) ==
    [r EXCEPT !.borrowed = @ + due.interest, !.fees = @ + due.fee]

(* klend's ctokens for `amount` of liquidity, and liquidity for ctokens.   *)
CtokensFor(r, amount) ==
    IF r.supply = 0 THEN amount
    ELSE (amount * Scale * r.supply) \div OwedSf(r)

LiquidityFor(r, ctokens) == (ctokens * OwedSf(r)) \div (r.supply * Scale)

Deposited(r, amount) ==
    [r EXCEPT !.available = @ + amount, !.supply = @ + CtokensFor(r, amount)]

Redeemed(r, ctokens) ==
    [r EXCEPT !.available = @ - LiquidityFor(r, ctokens), !.supply = @ - ctokens]

CanLend(r, amount) == OwedSf(r) > 0 \/ r.supply = 0
CanPay(r, ctokens) == r.supply > 0 /\ LiquidityFor(r, ctokens) <= r.available

(* Every reader of the account keeps the highest rate it has seen.         *)
Seen == high' = IF RateReadable(reserve') THEN Larger(high, ReadExchangeRate(reserve'))
                ELSE high

-----------------------------------------------------------------------------
(* The adapter.                                                            *)

(* The governor's part is all or nothing: one call fails, all do.          *)
InitSyParams(kyc, pdas, wallets) ==
    /\ ~metadata.exists
    /\ IF kyc THEN wallets = pdas ELSE pdas = <<>>
    /\ metadata' = [exists |-> TRUE, whitelist |-> {pdas[i] : i \in DOMAIN pdas}]
    /\ UNCHANGED <<positionVars, base, collateral, reserve, due, high>>

CreditedBalance(before, after) == after
(* SY minted for a change of the collateral vault's balance.               *)
Credited(before, after) == after - before

MintSy(u, to, amount) ==
    LET r == Deposited(Refreshed(reserve), amount)
        after == collateral + CtokensFor(Refreshed(reserve), amount)
    IN  /\ metadata.exists
        /\ amount > 0
        /\ amount <= base[u]
        /\ CanLend(Refreshed(reserve), amount)
        /\ RateReadable(r)
        /\ base' = [base EXCEPT ![u] = @ - amount]
        /\ reserve' = r
        /\ due' = NothingDue
        /\ collateral' = after
        /\ sy' = [sy EXCEPT ![to] = @ + Credited(collateral, after)]
        /\ Seen
        /\ UNCHANGED <<metadata, poolEscrow, accounts, position>>

RedeemSy(u, to, amount) ==
    LET now == Refreshed(reserve)
        r == Redeemed(now, amount)
    IN  /\ metadata.exists
        /\ amount > 0
        /\ amount <= sy[u]
        /\ amount <= collateral
        /\ CanPay(now, amount)
        /\ RateReadable(r)
        /\ sy' = [sy EXCEPT ![u] = @ - amount]
        /\ reserve' = r
        /\ due' = NothingDue
        /\ collateral' = collateral - amount
        /\ base' = [base EXCEPT ![to] = @ + LiquidityFor(now, amount)]
        /\ Seen
        /\ UNCHANGED <<metadata, poolEscrow, accounts, position>>

OpenPosition(u) ==
    /\ metadata.exists
    /\ InitPersonalAccount(u)
    /\ UNCHANGED <<metadata, base, collateral, reserve, due, high>>

(* The state returned is read from the account as it is, not refreshed.    *)
Deposit(u, amount) ==
    /\ metadata.exists
    /\ RateReadable(reserve)
    /\ DepositSy(u, amount)
    /\ UNCHANGED <<metadata, base, collateral, reserve, due, high>>

Withdraw(u, to, amount) ==
    /\ metadata.exists
    /\ RateReadable(reserve)
    /\ WithdrawSy(u, to, amount)
    /\ UNCHANGED <<metadata, base, collateral, reserve, due, high>>

-----------------------------------------------------------------------------
(* Others: whatever klend allows, and plain token transfers.               *)

OthersCtokens == reserve.supply - collateral - Locked

Transfer(u, amount) ==
    /\ SendToEscrow(u, amount)
    /\ UNCHANGED <<metadata, base, collateral, reserve, due, high>>

DonateCtokens(amount) ==
    /\ metadata.exists
    /\ amount <= OthersCtokens
    /\ collateral' = collateral + amount
    /\ UNCHANGED <<positionVars, metadata, base, reserve, due, high>>

OnReserve(r) ==
    /\ reserve' = r
    /\ due' = NothingDue
    /\ Seen
    /\ UNCHANGED <<positionVars, metadata, base, collateral>>

RefreshReserve == due # NothingDue /\ OnReserve(Refreshed(reserve))

Lend(amount) ==
    LET r == Refreshed(reserve) IN
    /\ CanLend(r, amount)
    /\ OwedSf(r) + amount * Scale <= MaxSupply * Scale
    /\ OnReserve(Deposited(r, amount))

Unlend(ctokens) ==
    LET r == Refreshed(reserve) IN
    /\ ctokens <= OthersCtokens
    /\ CanPay(r, ctokens)
    /\ OnReserve(Redeemed(r, ctokens))

Borrow(amount) ==
    LET r == Refreshed(reserve) IN
    /\ amount <= r.available
    /\ OnReserve([r EXCEPT !.available = @ - amount, !.borrowed = @ + amount * Scale])

Repay(amount) ==
    LET r == Refreshed(reserve) IN
    /\ amount * Scale <= r.borrowed
    /\ OnReserve([r EXCEPT !.available = @ + amount, !.borrowed = @ - amount * Scale])

WithdrawFees(amount) ==
    LET r == Refreshed(reserve) IN
    /\ amount <= r.available
    /\ amount * Scale <= r.fees
    /\ OnReserve([r EXCEPT !.available = @ - amount, !.fees = @ - amount * Scale])

(* Borrowers owe interest, part of which is the protocol's fee.            *)
Accrue(a) ==
    /\ reserve.borrowed > 0
    /\ due = NothingDue
    /\ OwedSf(reserve) + a.interest <= MaxSupply * Scale
    /\ due' = a
    /\ UNCHANGED <<positionVars, metadata, base, collateral, reserve, high>>

-----------------------------------------------------------------------------

Init ==
    /\ sy = [u \in Users |-> 0]
    /\ poolEscrow = 0
    /\ accounts = {}
    /\ position = [u \in Users |-> 0]
    /\ metadata = [exists |-> FALSE, whitelist |-> {}]
    /\ base = Funds
    /\ collateral = 0
    /\ reserve = InitialReserve
    /\ due = NothingDue
    /\ high = 0

Next ==
    \/ \E kyc \in BOOLEAN, pdas, wallets \in PdaLists : InitSyParams(kyc, pdas, wallets)
    \/ \E u, to \in Users, n \in Amounts :
         MintSy(u, to, n) \/ RedeemSy(u, to, n) \/ Withdraw(u, to, n)
    \/ \E u \in Users : OpenPosition(u)
    \/ \E u \in Users, n \in Amounts : Deposit(u, n) \/ Transfer(u, n)
    \/ \E n \in Amounts :
         \/ DonateCtokens(n) \/ Lend(n) \/ Unlend(n)
         \/ Borrow(n) \/ Repay(n) \/ WithdrawFees(n)
    \/ RefreshReserve
    \/ \E a \in Accruals : Accrue(a)

Spec == Init /\ [][Next]_vars

-----------------------------------------------------------------------------

(* Every balance is a natural number.                                      *)
TypeOK ==
    /\ PositionsTypeOK
    /\ metadata.exists \in BOOLEAN
    /\ base \in [Users -> Nat]
    /\ collateral \in Nat
    /\ reserve \in ReserveRecord
    /\ due \in DueRecord
    /\ high \in Nat

(* mint_sy, redeem_sy: every SY is covered by a ctoken of the vault, even   *)
(* when ctokens were given to the vault or interest accrued in between.     *)
CtokensBackSy == Issued <= collateral

(* The comment on read_real_klend_rate: leaving out the fractions moves the *)
(* rate by at most one unit of liquidity over the supply of ctokens.  So,   *)
(* without losses, the rate read stays that near to the highest one ever    *)
(* read, up to one digit of its own rounding.                               *)
RateNearHigh ==
    RateReadable(reserve) =>
      (high - ReadExchangeRate(reserve)) * reserve.supply <= ONE + reserve.supply

(* The comment on poke_exchange_rate in the generic adapter: an adapter     *)
(* that reads its rate keeps the floor check, the rate only increases.      *)
RateNeverFalls ==
    [][RateReadable(reserve) /\ RateReadable(reserve') =>
         ReadExchangeRate(reserve') >= ReadExchangeRate(reserve)]_vars
=============================================================================
