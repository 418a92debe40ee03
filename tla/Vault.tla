-------------------------------- MODULE Vault --------------------------------
(***************************************************************************)
(* The yield-stripping vault of clearstone_core: a depositor strips SY     *)
(* into PT (principal) and YT (yield), merges them back, and stakes YT in  *)
(* a yield position to earn the appreciation of the SY exchange rate and   *)
(* the emissions of the SY program.  YT that nobody has staked earns for   *)
(* the vault-owned position, here Robot.                                   *)
(*                                                                         *)
(* One action is one instruction: a Solana transaction is atomic, and an   *)
(* instruction that fails (a require!, a checked subtraction, a division   *)
(* by zero) leaves every account as it was.  A failing instruction is      *)
(* therefore an action that is not enabled.                                *)
(*                                                                         *)
(* SY, PT and YT are fungible and freely transferable, so the accounts of  *)
(* all holders are one pool, `wallet`.  The SY program is the environment: *)
(* it holds the vault's SY and reports an exchange rate and one index per  *)
(* emission, and it may report a lower rate, or zero, at any time.         *)
(***************************************************************************)
EXTENDS FixedPoint, Sums

CONSTANTS
    Users,              \* owners of a yield position
    Robot,              \* the vault-owned yield position
    Rates,              \* exchange rates the SY program may report (scaled)
    RateMayFall,        \* whether the SY program may report a lower rate
    StartTs, Duration,  \* the vault's term
    Horizon,            \* bound on the clock
    MaxPySupply,        \* Vault::max_py_supply
    InitialSy,          \* SY in circulation before the first strip
    Amounts,            \* SY and PY amounts an instruction may be given
    Settings,           \* settings the curator may install
    InitialSettings,    \* settings written by initialize_vault
    LimitChoices,       \* <<max, duration>> of ChangeClaimLimits
    NoLimit,            \* u64::MAX, the initial claim limit
    EmissionIds,        \* indexes of the vault's emissions
    InitialIndex,       \* emission index at initialisation (scaled)
    IndexSteps,         \* growth an emission index may show (scaled)
    MaxIndex            \* bound on the emission indexes

VARIABLES
    now,                \* clock, seconds
    sy,                 \* the SY program: rate, the vault's position, indexes
    vault,              \* the accounting fields of the Vault account
    emissions,          \* Vault::emissions
    settings,           \* Vault::status, fees and minimum sizes
    limits,             \* Vault::claim_limits
    pos,                \* interest part of every YieldTokenPosition
    trackers,           \* emission trackers of every YieldTokenPosition
    wallet,             \* circulating SY, PT and YT
    escrowYt,           \* YT held by escrow_yt
    treasuryTokens      \* SY paid to treasury and curator accounts

vars == <<now, sy, vault, emissions, settings, limits, pos, trackers, wallet,
          escrowYt, treasuryTokens>>

Positions == Users \cup {Robot}

Flags == {"strip", "merge", "deposit_yt", "withdraw_yt", "collect_interest",
          "collect_emissions"}

SettingsRecord == [status : SUBSET Flags, feeBps : BasisPoints,
                   minStrip : Nat \ {0}, minMerge : Nat \ {0}]

ASSUME VaultAssumptions ==
    /\ IsFiniteSet(Users)
    /\ Robot \notin Users
    /\ Rates \subseteq Nat /\ RateMayFall \in BOOLEAN
    /\ StartTs \in Nat /\ Duration \in Nat /\ Horizon \in Nat
    /\ MaxPySupply \in Nat /\ InitialSy \in Nat /\ NoLimit \in Nat
    /\ Amounts \subseteq Nat
    /\ Settings \subseteq SettingsRecord
    /\ InitialSettings \in SettingsRecord
    /\ LimitChoices \subseteq Nat \X Nat
    /\ InitialIndex \in Nat /\ IndexSteps \subseteq Nat /\ MaxIndex \in Nat

-----------------------------------------------------------------------------
(* Term and emergency mode.                                                *)

IsExpired == now > StartTs + Duration
IsActive == now >= StartTs /\ ~IsExpired
EmergencyMode(v) == v.ath > v.last

-----------------------------------------------------------------------------
(* SY accounting (state/vault.rs).                                         *)

(* SY neither owed to the treasury nor staged for a YT holder.             *)
ActiveSy(v) == Larger(0, v.total - v.treasury - v.uncollected)

AllActiveBacksPt(v) == [v EXCEPT !.forPt = IF v.last = 0 THEN 0 ELSE ActiveSy(v)]

SetSyForPt(v) ==
    [v EXCEPT !.forPt = IF v.last = 0 THEN 0
                        ELSE Smaller(PyToSy(v.last, v.pts), ActiveSy(v))]

(* After maturity the appreciation beyond the all-time high belongs to     *)
(* the treasury.                                                           *)
SurplusOnAll(v, rate) ==
    IF IsExpired /\ rate > v.ath THEN Appreciation(v.last, rate, v.total)
    ELSE 0

SurplusSy(v, rate) ==
    IF IsExpired /\ rate > v.ath
    THEN Appreciation(v.last, rate, ActiveSy(v))
    ELSE 0

NoMaturityFreeze(v, rate) ==
    SetSyForPt([v EXCEPT !.treasury = @ + SurplusSy(v, rate), !.last = rate,
                         !.ath = Larger(rate, @), !.final = rate])

AthFollowsRate(v, rate) ==
    SetSyForPt([v EXCEPT !.treasury = @ + SurplusSy(v, rate), !.last = rate,
                         !.ath = rate, !.final = IF IsActive THEN rate ELSE @])

UpdateFromSyState(v, rate) ==
    SetSyForPt([v EXCEPT !.treasury = @ + SurplusSy(v, rate),
                         !.last = rate,
                         !.ath = Larger(rate, @),
                         !.final = IF IsActive THEN rate ELSE @])

-----------------------------------------------------------------------------
(* Interest of a yield position (state/yield_token_position.rs).           *)

UnscaledInterest(v, p) ==
    IF EmergencyMode(v) THEN 0 ELSE Earned(p.yt, p.index, v.final)

SyInterest(v, p) ==
    IF EmergencyMode(v) THEN 0
    ELSE ScaleToCurrent(Earned(p.yt, p.index, v.final), v.final, v.last)

FirstIndexKept(v, p) ==
    [p EXCEPT !.staged = @ + SyInterest(v, p),
              !.index = IF @ = 0 THEN v.final ELSE @]

EmptyPositionSkipped(v, p) ==
    IF p.yt = 0 THEN p
    ELSE [p EXCEPT !.staged = @ + SyInterest(v, p),
                   !.index = IF EmergencyMode(v) THEN @ ELSE v.final]

EarnPosition(v, p) ==
    [p EXCEPT !.staged = @ + SyInterest(v, p),
              !.index = IF EmergencyMode(v) THEN @ ELSE v.final]

EarnVault(v, p) == [v EXCEPT !.uncollected = @ + SyInterest(v, p)]

(* SY whose emissions the position receives: its staged SY and the SY      *)
(* value of its YT.  With final = 0 the division panics, so no handler     *)
(* that lets a position earn can succeed (FinalRateKnown).                 *)
SyBalance(v, p) == p.staged + PyToSy(v.final, p.yt)

ZeroRateAccepted(v) == v.final >= 0
FinalRateKnown(v) == v.final > 0

(* Trackers t of a position whose interest part is p, p already settled.   *)
EarnEmissions(v, ems, p, t) ==
    [i \in EmissionIds |->
        [index |-> ems[i].final,
         staged |-> t[i].staged
                      + ShareValue(t[i].index, ems[i].final, SyBalance(v, p))]]

-----------------------------------------------------------------------------
(* update_vault_yield: the vault takes over the SY state and its own       *)
(* position earns.  The Synced operators are the accounts after that.      *)

UpdatedVault == UpdateFromSyState(vault, sy.rate)
SyncedVault == EarnVault(UpdatedVault, pos[Robot])
SyncedRobot == EarnPosition(UpdatedVault, pos[Robot])

EmissionsToAll ==
    [i \in EmissionIds |->
        [last |-> sy.indexes[i],
         final |-> sy.indexes[i],
         treasury |-> emissions[i].treasury
            + (IF IsExpired
               THEN ShareValue(emissions[i].last, sy.indexes[i], vault.total)
               ELSE 0)]]

SyncedEmissions ==
    [i \in EmissionIds |->
        [last |-> sy.indexes[i],
         final |-> IF IsActive THEN sy.indexes[i] ELSE emissions[i].final,
         treasury |-> emissions[i].treasury
            + (IF IsExpired
               THEN ShareValue(emissions[i].last, sy.indexes[i], vault.total)
               ELSE 0)]]

SyncedTrackers ==
    EarnEmissions(UpdatedVault, SyncedEmissions, SyncedRobot, trackers[Robot])

CanSync == FinalRateKnown(UpdatedVault)

(* The same for a user position u, settled after the vault.                *)
SettledVault(u) == EarnVault(SyncedVault, pos[u])
SettledPosition(u) == EarnPosition(SyncedVault, pos[u])
SettledTrackers(u) ==
    EarnEmissions(SyncedVault, SyncedEmissions, SettledPosition(u),
                  trackers[u])

(* validate_sy_state: handlers that use it reject a zero rate.             *)
SyStateValid == sy.rate > 0

-----------------------------------------------------------------------------
(* The initial state: initialize_vault.                                    *)

NoVault == [last |-> 0, ath |-> 0, final |-> 0, total |-> 0, forPt |-> 0,
            pts |-> 0, treasury |-> 0, uncollected |-> 0]
NoPosition == [yt |-> 0, index |-> 0, staged |-> 0]
NoTracker == [index |-> 0, staged |-> 0]

Init ==
    /\ now = 0
    /\ \E r \in Rates : 
        sy = [rate |-> r, position |-> 0,
              indexes |-> [i \in EmissionIds |-> InitialIndex],
              owed |-> [i \in EmissionIds |-> 0]]
    /\ vault = NoVault
    /\ emissions = [i \in EmissionIds |->
            [last |-> InitialIndex, final |-> InitialIndex, treasury |-> 0]]
    /\ settings = InitialSettings
    /\ limits = [start |-> StartTs, used |-> 0, max |-> NoLimit,
                 duration |-> Duration]
    /\ pos = [p \in Positions |-> NoPosition]
    /\ trackers = [p \in Positions |-> [i \in EmissionIds |-> NoTracker]]
    /\ wallet = [sy |-> InitialSy, pt |-> 0, yt |-> 0]
    /\ escrowYt = 0
    /\ treasuryTokens = 0

-----------------------------------------------------------------------------
(* The environment: the clock and the SY program.                          *)

Tick ==
    /\ now < Horizon
    /\ now' = now + 1
    /\ UNCHANGED <<sy, vault, emissions, settings, limits, pos, trackers,
                   wallet, escrowYt, treasuryTokens>>

SyRateMoves ==
    /\ \E r \in Rates \ {sy.rate} :
        /\ RateMayFall \/ r > sy.rate
        /\ sy' = [sy EXCEPT !.rate = r]
    /\ UNCHANGED <<now, vault, emissions, settings, limits, pos, trackers,
                   wallet, escrowYt, treasuryTokens>>

(* An emission index grows; the SY program then owes the vault the growth  *)
(* on the SY the vault holds with it.                                      *)
SyEmissionAccrues ==
    /\ \E i \in EmissionIds, d \in IndexSteps :
        /\ sy.indexes[i] + d <= MaxIndex
        /\ sy' = [sy EXCEPT !.indexes[i] = @ + d,
                            !.owed[i] = @ + d * sy.position]
    /\ UNCHANGED <<now, vault, emissions, settings, limits, pos, trackers,
                   wallet, escrowYt, treasuryTokens>>

-----------------------------------------------------------------------------
(* Instructions of users.                                                  *)

Strip(amount) ==
    /\ "strip" \in settings.status
    /\ IsActive
    /\ amount >= settings.minStrip
    /\ wallet.sy >= amount
    /\ SyStateValid
    /\ CanSync
    /\ ~EmergencyMode(SyncedVault)
    /\ LET py == SyToPy(SyncedVault.last, amount)
       IN /\ SyncedVault.pts + py <= MaxPySupply
          /\ vault' = SetSyForPt([SyncedVault EXCEPT !.total = @ + amount,
                                                     !.pts = @ + py])
          /\ pos' = [pos EXCEPT ![Robot] = [SyncedRobot EXCEPT !.yt = @ + py]]
          /\ wallet' = [wallet EXCEPT !.sy = @ - amount, !.pt = @ + py,
                                      !.yt = @ + py]
    /\ emissions' = SyncedEmissions
    /\ trackers' = [trackers EXCEPT ![Robot] = SyncedTrackers]
    /\ sy' = [sy EXCEPT !.position = @ + amount]
    /\ UNCHANGED <<now, settings, limits, escrowYt, treasuryTokens>>

(* SY paid for py PT: their share of the SY set aside for PT.              *)
RedemptionAtFinal(v, py) == PyToSy(v.final, py)

Redemption(v, py) ==
    FloorU64(NumMul(Natural(py), FromRatio(v.forPt, v.pts)))

(* YT burned with py PT: none once the vault has matured.                  *)
BurnNever(py) == 0
BurnedYt(py) == IF IsActive THEN py ELSE 0

Merge(py) ==
    /\ "merge" \in settings.status
    /\ py >= settings.minMerge
    /\ wallet.pt >= py
    /\ SyStateValid
    /\ CanSync
    /\ ~EmergencyMode(SyncedVault)
    /\ wallet.yt >= BurnedYt(py)
    /\ SyncedRobot.yt >= BurnedYt(py)
    /\ LET out == Redemption(SyncedVault, py)
       IN /\ SyncedVault.total >= out
          /\ SyncedVault.pts >= py
          /\ sy.position >= out
          /\ vault' = SetSyForPt([SyncedVault EXCEPT !.total = @ - out,
                                                     !.pts = @ - py])
          /\ wallet' = [wallet EXCEPT !.sy = @ + out, !.pt = @ - py,
                                      !.yt = @ - BurnedYt(py)]
          /\ sy' = [sy EXCEPT !.position = @ - out]
    /\ pos' = [pos EXCEPT ![Robot] = [SyncedRobot EXCEPT !.yt = @ - BurnedYt(py)]]
    /\ emissions' = SyncedEmissions
    /\ trackers' = [trackers EXCEPT ![Robot] = SyncedTrackers]
    /\ UNCHANGED <<now, settings, limits, escrowYt, treasuryTokens>>

StageYield(u) ==
    /\ CanSync
    /\ ~EmergencyMode(SyncedVault)
    /\ vault' = SetSyForPt(SettledVault(u))
    /\ pos' = [pos EXCEPT ![Robot] = SyncedRobot, ![u] = SettledPosition(u)]
    /\ emissions' = SyncedEmissions
    /\ trackers' = [trackers EXCEPT ![Robot] = SyncedTrackers,
                                    ![u] = SettledTrackers(u)]
    /\ UNCHANGED <<now, sy, settings, limits, wallet, escrowYt,
                   treasuryTokens>>

(* The settled positions with n YT moved from the robot to u.              *)
StakeNotCredited(u, n) ==
    [pos EXCEPT ![Robot] = [SyncedRobot EXCEPT !.yt = @ - n],
                ![u] = SettledPosition(u)]
StakeReversed(u, n) ==
    [pos EXCEPT ![Robot] = [SyncedRobot EXCEPT !.yt = @ + n],
                ![u] = [SettledPosition(u) EXCEPT !.yt = @ - n]]
StakeMoved(u, n) ==
    [pos EXCEPT ![Robot] = [SyncedRobot EXCEPT !.yt = @ - n],
                ![u] = [SettledPosition(u) EXCEPT !.yt = @ + n]]

DepositYt(u, amount) ==
    /\ "deposit_yt" \in settings.status
    /\ IsActive
    /\ wallet.yt >= amount
    /\ CanSync
    /\ ~EmergencyMode(SyncedVault)
    /\ SyncedRobot.yt >= amount
    /\ vault' = SetSyForPt(SettledVault(u))
    /\ pos' = StakeMoved(u, amount)
    /\ emissions' = SyncedEmissions
    /\ trackers' = [trackers EXCEPT ![Robot] = SyncedTrackers,
                                    ![u] = SettledTrackers(u)]
    /\ wallet' = [wallet EXCEPT !.yt = @ - amount]
    /\ escrowYt' = escrowYt + amount
    /\ UNCHANGED <<now, sy, settings, limits, treasuryTokens>>

(* The one instruction that succeeds in emergency mode and then records    *)
(* the depressed rate as last seen and final rate.                         *)
WithdrawYt(u, amount) ==
    /\ "withdraw_yt" \in settings.status
    /\ IsActive
    /\ CanSync
    /\ SettledPosition(u).yt >= amount
    /\ escrowYt >= amount
    /\ vault' = SetSyForPt(SettledVault(u))
    /\ pos' = StakeMoved(u, -amount)
    /\ emissions' = SyncedEmissions
    /\ trackers' = [trackers EXCEPT ![Robot] = SyncedTrackers,
                                    ![u] = SettledTrackers(u)]
    /\ wallet' = [wallet EXCEPT !.yt = @ + amount]
    /\ escrowYt' = escrowYt - amount
    /\ UNCHANGED <<now, sy, settings, limits, treasuryTokens>>

(* ClaimLimits::verify_claim_limits.                                       *)
WindowElapsed == now > limits.start + limits.duration
UsedInWindow == IF WindowElapsed THEN 0 ELSE limits.used
NoLimitCheck(amount) ==
    limits' = [limits EXCEPT !.used = UsedInWindow + amount,
                             !.start = IF WindowElapsed THEN now ELSE @]
VerifyClaimLimits(amount) ==
    /\ UsedInWindow + amount <= limits.max
    /\ limits' = [limits EXCEPT !.used = UsedInWindow + amount,
                                !.start = IF WindowElapsed THEN now ELSE @]

(* Interest leaves the vault.                                              *)
TotalNotReduced(v, amount) == [v EXCEPT !.uncollected = @ - amount]
UncollectedNotReduced(v, amount) == [v EXCEPT !.total = @ - amount]
InterestPaid(v, amount) ==
    [v EXCEPT !.total = @ - amount, !.uncollected = @ - amount]

(* The requested amount is resolved against the staged balance before the  *)
(* position earns; the vault does not take over the SY state, and sy_for_pt *)
(* is not recomputed.                                                      *)
CollectInterest(u, amount) ==
    LET v == EarnVault(vault, pos[u])
        p == EarnPosition(vault, pos[u])
        fee == FeeCeil(amount, settings.feeBps)
    IN /\ "collect_interest" \in settings.status
       /\ amount <= pos[u].staged
       /\ VerifyClaimLimits(amount)
       /\ FinalRateKnown(vault)
       /\ SyStateValid
       /\ sy.position >= amount
       /\ v.total >= amount
       /\ v.uncollected >= amount
       /\ vault' = InterestPaid(v, amount)
       /\ pos' = [pos EXCEPT ![u] = [p EXCEPT !.staged = @ - amount]]
       /\ trackers' = [trackers EXCEPT
                            ![u] = EarnEmissions(vault, emissions, p, @)]
       /\ sy' = [sy EXCEPT !.position = @ - amount]
       /\ wallet' = [wallet EXCEPT !.sy = @ + amount - fee]
       /\ treasuryTokens' = treasuryTokens + fee
       /\ UNCHANGED <<now, emissions, settings, escrowYt>>

(* Pays staged emission i out of what the SY program owes the vault.  The  *)
(* tokens leave the model.                                                 *)
CollectEmission(u, i, amount) ==
    /\ "collect_emissions" \in settings.status
    /\ amount <= trackers[u][i].staged
    /\ sy.owed[i] >= Natural(amount)
    /\ sy' = [sy EXCEPT !.owed[i] = @ - Natural(amount)]
    /\ trackers' = [trackers EXCEPT ![u][i].staged = @ - amount]
    /\ UNCHANGED <<now, vault, emissions, settings, limits, pos, wallet,
                   escrowYt, treasuryTokens>>

-----------------------------------------------------------------------------
(* Instructions of the curator.                                            *)

CollectRobotInterest(amount) ==
    /\ amount <= pos[Robot].staged
    /\ sy.position >= amount
    /\ vault.total >= amount
    /\ vault.uncollected >= amount
    /\ vault' = InterestPaid(vault, amount)
    /\ pos' = [pos EXCEPT ![Robot].staged = @ - amount]
    /\ sy' = [sy EXCEPT !.position = @ - amount]
    /\ treasuryTokens' = treasuryTokens + amount
    /\ UNCHANGED <<now, emissions, settings, limits, trackers, wallet,
                   escrowYt>>

CollectTreasurySy(amount) ==
    /\ amount <= vault.treasury
    /\ sy.position >= amount
    /\ vault.total >= amount
    /\ vault' = [vault EXCEPT !.total = @ - amount, !.treasury = @ - amount]
    /\ sy' = [sy EXCEPT !.position = @ - amount]
    /\ treasuryTokens' = treasuryTokens + amount
    /\ UNCHANGED <<now, emissions, settings, limits, pos, trackers, wallet,
                   escrowYt>>

CollectRobotEmission(i, amount) ==
    /\ amount <= trackers[Robot][i].staged
    /\ sy.owed[i] >= Natural(amount)
    /\ sy' = [sy EXCEPT !.owed[i] = @ - Natural(amount)]
    /\ trackers' = [trackers EXCEPT ![Robot][i].staged = @ - amount]
    /\ UNCHANGED <<now, vault, emissions, settings, limits, pos, wallet,
                   escrowYt, treasuryTokens>>

CollectTreasuryEmission(i, amount) ==
    /\ amount <= emissions[i].treasury
    /\ sy.owed[i] >= Natural(amount)
    /\ sy' = [sy EXCEPT !.owed[i] = @ - Natural(amount)]
    /\ emissions' = [emissions EXCEPT ![i].treasury = @ - amount]
    /\ UNCHANGED <<now, vault, settings, limits, pos, trackers, wallet,
                   escrowYt, treasuryTokens>>

(* SetVaultStatus, ChangeMinOperationSize and LowerInterestBpsFee.         *)
ModifyVaultSetting ==
    /\ \E s \in Settings :
        /\ s.feeBps <= settings.feeBps
        /\ s # settings
        /\ settings' = s
    /\ UNCHANGED <<now, sy, vault, emissions, limits, pos, trackers, wallet,
                   escrowYt, treasuryTokens>>

ChangeClaimLimits ==
    /\ \E c \in LimitChoices :
        limits' = [start |-> now, used |-> 0, max |-> c[1],
                   duration |-> c[2]]
    /\ UNCHANGED <<now, sy, vault, emissions, settings, pos, trackers, wallet,
                   escrowYt, treasuryTokens>>

-----------------------------------------------------------------------------

(* Amount::Some(n) and Amount::All of a staged balance.                    *)
Requests(balance) == {n \in Amounts : n <= balance} \cup {0, balance}

Next ==
    \/ Tick
    \/ SyRateMoves
    \/ SyEmissionAccrues
    \/ \E n \in Amounts : Strip(n)
    \/ \E n \in Amounts : Merge(n)
    \/ \E u \in Users : StageYield(u)
    \/ \E u \in Users, n \in Amounts : DepositYt(u, n)
    \/ \E u \in Users, n \in Amounts : WithdrawYt(u, n)
    \/ \E u \in Users : \E n \in Requests(pos[u].staged) :
            CollectInterest(u, n)
    \/ \E u \in Users, i \in EmissionIds :
            \E n \in Requests(trackers[u][i].staged) : CollectEmission(u, i, n)
    \/ \E n \in Requests(pos[Robot].staged) : CollectRobotInterest(n)
    \/ \E n \in Requests(vault.treasury) : CollectTreasurySy(n)
    \/ \E i \in EmissionIds : \E n \in Requests(trackers[Robot][i].staged) :
            CollectRobotEmission(i, n)
    \/ \E i \in EmissionIds : \E n \in Requests(emissions[i].treasury) :
            CollectTreasuryEmission(i, n)
    \/ ModifyVaultSetting
    \/ ChangeClaimLimits

Spec == Init /\ [][Next]_vars

-----------------------------------------------------------------------------
(* Properties.                                                             *)

VaultRecord == [last : Nat, ath : Nat, final : Nat, total : Nat, forPt : Nat,
                pts : Nat, treasury : Nat, uncollected : Nat]
PositionRecord == [yt : Nat, index : Nat, staged : Nat]
TrackerRecord == [index : Nat, staged : Nat]
EmissionRecord == [last : Nat, final : Nat, treasury : Nat]
SyRecord == [rate : Nat, position : Nat, indexes : [EmissionIds -> Nat],
             owed : [EmissionIds -> Nat]]

(* Every account field has the type the program gives it; in particular no *)
(* balance is negative, so no handler can hit an underflow it does not     *)
(* check.                                                                  *)
TypeOK ==
    /\ now \in Nat
    /\ sy \in SyRecord
    /\ vault \in VaultRecord
    /\ emissions \in [EmissionIds -> EmissionRecord]
    /\ settings \in SettingsRecord
    /\ limits \in [start : Nat, used : Nat, max : Nat, duration : Nat]
    /\ pos \in [Positions -> PositionRecord]
    /\ trackers \in [Positions -> [EmissionIds -> TrackerRecord]]
    /\ wallet \in [sy : Nat, pt : Nat, yt : Nat]
    /\ escrowYt \in Nat
    /\ treasuryTokens \in Nat

(* The all-time high bounds the last rate, the final rate and the index of *)
(* every position, whatever the SY program reports: emergency mode is      *)
(* exactly "the rate is below a rate at which interest was settled".       *)
RateOrder ==
    /\ vault.last <= vault.ath
    /\ vault.final <= vault.ath
    /\ \A p \in Positions : pos[p].index <= vault.ath

(* A vault that has taken over a rate never takes over a zero rate, from   *)
(* which it could not recover: py_to_sy and the emission accounting would  *)
(* divide by zero for ever.  No handler that lacks validate_sy_state says  *)
(* so; it follows from the order in which update_vault_yield computes.     *)
ZeroRateNeverRecorded == vault.ath > 0 => vault.last > 0 /\ vault.final > 0

(* The vault's SY accounting follows the SY that the SY program holds for  *)
(* it, and no SY is created or lost on the way between wallets, the vault  *)
(* and the treasury.                                                       *)
EscrowInSync ==
    /\ sy.position = vault.total
    /\ wallet.sy + vault.total + treasuryTokens = InitialSy

(* PT in circulation is what pt_supply says, the vault's own position has  *)
(* exactly the YT that nobody staked, and YT and PT are minted and burned  *)
(* together until maturity, so every active merge can burn both.           *)
PySupply ==
    /\ wallet.pt = vault.pts
    /\ wallet.yt = pos[Robot].yt
    /\ now <= StartTs + Duration => wallet.yt + escrowYt = wallet.pt

(* escrow_yt holds the YT of the user positions, and uncollected_sy is the *)
(* interest staged in all positions, so that neither a withdrawal nor a    *)
(* collection can run into the underflow panic of another holder's claim.  *)
StakedYtEscrowed == Total(Users, [u \in Users |-> pos[u].yt]) = escrowYt

UncollectedIsStaged ==
    Total(Positions, [p \in Positions |-> pos[p].staged]) = vault.uncollected

(* What position p would be credited if it were settled now.               *)
Pending(p) == SyInterest(vault, pos[p])

(* A rate that falls and recovers after maturity may cost the PT part of   *)
(* their backing: see SurplusAboveHighWater.                               *)
BackingIntact == IsExpired => ~RateMayFall

(* I-V2, and more: outside emergency mode the escrowed SY covers the full  *)
(* PT backing, the treasury, all staged interest and also the interest     *)
(* that no position has settled yet.                                       *)
FullySolvent ==
    BackingIntact /\ ~EmergencyMode(vault) /\ vault.last > 0 =>
        PyToSy(vault.last, vault.pts) + vault.treasury + vault.uncollected
            + Total(Positions, [p \in Positions |-> Pending(p)])
        <= vault.total

(* PT is backed at par outside emergency mode: the fallback of             *)
(* sy_backing_for_pt to whatever SY is left is never taken.                *)
PtBackedAtPar ==
    BackingIntact /\ ~EmergencyMode(vault) /\ vault.last > 0 =>
        vault.forPt = PyToSy(vault.last, vault.pts)

(* While the vault is active a staked YT has never been settled further    *)
(* than the unstaked ones, so YT moved between the two earns no interval   *)
(* of the rate twice.                                                      *)
NoIntervalEarnedTwice ==
    now <= StartTs + Duration =>
        \A u \in Users : pos[u].index <= pos[Robot].index

(* The SY program owes the vault at least the emissions it has credited to *)
(* positions and to the treasury, so every collect_emission can be paid.   *)
EmissionClaims(i) ==
    Total(Positions, [p \in Positions |-> trackers[p][i].staged])
        + emissions[i].treasury
EmissionsBacked ==
    \A i \in EmissionIds : Natural(EmissionClaims(i)) <= sy.owed[i]

(* After maturity a holder of PT can always redeem once the rate is not    *)
(* below its all-time high: no checked subtraction and no bound of merge   *)
(* stands in the way.                                                      *)
MaturityRedeemable ==
    IsExpired /\ sy.rate >= vault.ath /\ wallet.pt > 0 =>
        /\ ~EmergencyMode(SyncedVault)
        /\ CanSync
        /\ \A n \in Amounts : n <= wallet.pt =>
             /\ BurnedYt(n) <= Smaller(wallet.yt, SyncedRobot.yt)
             /\ Redemption(SyncedVault, n)
                    <= Smaller(SyncedVault.total, sy.position)
             /\ n <= SyncedVault.pts

(* The interest claimed in a window never exceeds the window's limit.      *)
ClaimsCapped == limits.used <= limits.max

(* The all-time high never falls; the final rate and the emission indexes  *)
(* that user positions follow are frozen at maturity (I-V3, I-V4).         *)
HighWaterMark == [][vault'.ath >= vault.ath]_vars
FrozenAtMaturity ==
    [][IsExpired => /\ vault'.final = vault.final
                    /\ \A i \in EmissionIds :
                            emissions'[i].final = emissions[i].final]_vars

(* Stripping SY and merging the new PT and YT at once yields no profit,    *)
(* at any rate, with any history of the vault.                             *)
NoRoundTripGain ==
    [][vault'.pts > vault.pts =>
          Redemption(vault', vault'.pts - vault.pts)
            <= vault'.total - vault.total]_vars

(* "Post-maturity SY appreciation above all_time_high_sy_exchange_rate is  *)
(* captured to the treasury" (CURATOR_GUIDE.md, also I-V5): no more than   *)
(* that leaves the SY that backs PT and YT.                                *)
SurplusAboveHighWater ==
    [][vault'.treasury - vault.treasury
            <= Appreciation(vault.ath, sy.rate, ActiveSy(vault))]_vars

(* "PT redeems 1:1 at frozen final_sy_exchange_rate" (ARCHITECTURE.md,     *)
(* also I-V4): a merge after maturity pays the SY value of the PT at the   *)
(* final rate, outside emergency mode.                                     *)
PtSettlesAtFinalRate ==
    [][IsExpired /\ wallet'.pt < wallet.pt =>
          wallet'.sy - wallet.sy = PyToSy(vault.final, wallet.pt - wallet'.pt)]_vars
=============================================================================
