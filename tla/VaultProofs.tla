----------------------------- MODULE VaultProofs -----------------------------
(***************************************************************************)
(* Theorems about Vault for every value of its constants: its types, its   *)
(* rates and balances, and then its books, the sums over positions that    *)
(* the escrow and the uncollected interest stand for, the limit on claims, *)
(* and the order in which positions settle.                                *)
(***************************************************************************)
EXTENDS Vault, ArithmeticTheorems

-----------------------------------------------------------------------------
(* The operators that settle rates, interest and emissions.                *)

(* The SY left for PT is recomputed; no other field changes.               *)
LEMMA SetSyForPtType ==
    ASSUME NEW v \in VaultRecord
    PROVE  /\ SetSyForPt(v) \in VaultRecord
           /\ SetSyForPt(v) = [v EXCEPT !.forPt = SetSyForPt(v).forPt]
<1>1. ActiveSy(v) \in Nat
    BY DEF ActiveSy, Larger, VaultRecord
<1>2. v.last # 0 => PyToSy(v.last, v.pts) \in Nat
    BY ConversionNat DEF VaultRecord
<1>3. \E n \in Nat : SetSyForPt(v) = [v EXCEPT !.forPt = n]
    BY <1>1, <1>2 DEF SetSyForPt, Smaller
<1> QED BY <1>3 DEF VaultRecord

(* The vault with other escrow and PT balances.                            *)
WithBalances(v, total, pts) == [v EXCEPT !.total = total, !.pts = pts]

(* Escrow and PT balances are replaced, the rates are kept.                *)
LEMMA BalancesType ==
    ASSUME NEW v \in VaultRecord, NEW total \in Nat, NEW pts \in Nat
    PROVE  /\ WithBalances(v, total, pts) \in VaultRecord
           /\ WithBalances(v, total, pts).total = total
           /\ WithBalances(v, total, pts).pts = pts
           /\ WithBalances(v, total, pts).last = v.last
           /\ WithBalances(v, total, pts).ath = v.ath
           /\ WithBalances(v, total, pts).final = v.final
    BY DEF VaultRecord, WithBalances

(* The staged interest of a position is replaced.                          *)
LEMMA StagedType ==
    ASSUME NEW p \in PositionRecord, NEW staged \in Nat
    PROVE  [p EXCEPT !.staged = staged] \in PositionRecord
    BY DEF PositionRecord

(* As is the position the SY program holds for the vault.                  *)
LEMMA SyPositionType ==
    ASSUME NEW s \in SyRecord, NEW position \in Nat
    PROVE  /\ [s EXCEPT !.position = position] \in SyRecord
           /\ [s EXCEPT !.position = position].position = position
    BY DEF SyRecord

(* What update_from_sy_state does to each field.                           *)
LEMMA UpdatedVaultFields ==
    ASSUME TypeOK
    PROVE  /\ UpdatedVault \in VaultRecord
           /\ UpdatedVault.last = sy.rate
           /\ UpdatedVault.ath = Larger(sy.rate, vault.ath)
           /\ UpdatedVault.final = IF IsActive THEN sy.rate ELSE vault.final
           /\ UpdatedVault.total = vault.total
           /\ UpdatedVault.pts = vault.pts
           /\ UpdatedVault.uncollected = vault.uncollected
           /\ UpdatedVault.treasury = vault.treasury + SurplusSy(vault, sy.rate)
<1>1. vault \in VaultRecord /\ sy.rate \in Nat
    BY DEF TypeOK, SyRecord
<1>2. ActiveSy(vault) \in Nat
    BY <1>1 DEF ActiveSy, Larger, VaultRecord
<1>3. SurplusSy(vault, sy.rate) \in Nat
    BY <1>1, <1>2, AppreciationNat DEF SurplusSy, VaultRecord
<1> DEFINE ath == Larger(sy.rate, vault.ath)
           final == IF IsActive THEN sy.rate ELSE vault.final
           treasury == vault.treasury + SurplusSy(vault, sy.rate)
           w == [vault EXCEPT !.treasury = treasury, !.last = sy.rate,
                              !.ath = ath, !.final = final]
<1>4. ath \in Nat /\ final \in Nat /\ treasury \in Nat
    BY <1>1, <1>3 DEF VaultRecord, Larger
<1>5. /\ w \in VaultRecord
      /\ w.last = sy.rate
      /\ w.ath = ath
      /\ w.final = final
      /\ w.total = vault.total
      /\ w.pts = vault.pts
      /\ w.uncollected = vault.uncollected
      /\ w.treasury = treasury
    <2> HIDE DEF ath, final, treasury
    <2> QED BY <1>1, <1>4 DEF VaultRecord
<1>6. UpdatedVault = SetSyForPt(w)
    BY DEF UpdatedVault, UpdateFromSyState
<1> HIDE DEF w
<1>7. SetSyForPt(w) \in VaultRecord
      /\ SetSyForPt(w) = [w EXCEPT !.forPt = SetSyForPt(w).forPt]
    BY <1>5, SetSyForPtType
<1> QED BY <1>5, <1>6, <1>7 DEF VaultRecord

(* A settled position gains what the vault sets aside, and keeps its YT.   *)
LEMMA EarnTypes ==
    ASSUME NEW v \in VaultRecord, NEW p \in PositionRecord
    PROVE  /\ SyInterest(v, p) \in Nat
           /\ EarnVault(v, p) \in VaultRecord
           /\ EarnVault(v, p) = [v EXCEPT !.uncollected = @ + SyInterest(v, p)]
           /\ EarnPosition(v, p) \in PositionRecord
           /\ EarnPosition(v, p).yt = p.yt
           /\ EarnPosition(v, p).staged = p.staged + SyInterest(v, p)
           /\ EarnPosition(v, p).index \in {p.index, v.final}
<1>1. Earned(p.yt, p.index, v.final) \in Nat
    BY EarnedNat DEF VaultRecord, PositionRecord
<1>2. SyInterest(v, p) \in Nat
    BY <1>1, ScaleNat DEF SyInterest, VaultRecord
<1> DEFINE index == IF EmergencyMode(v) THEN p.index ELSE v.final
           staged == p.staged + SyInterest(v, p)
<1>3. index \in Nat /\ staged \in Nat /\ index \in {p.index, v.final}
    BY <1>2 DEF VaultRecord, PositionRecord
<1>4. EarnPosition(v, p) = [p EXCEPT !.staged = staged, !.index = index]
    BY DEF EarnPosition
<1>5. /\ EarnPosition(v, p) \in PositionRecord
      /\ EarnPosition(v, p).yt = p.yt
      /\ EarnPosition(v, p).staged = staged
      /\ EarnPosition(v, p).index = index
    <2> HIDE DEF index, staged
    <2> QED BY <1>3, <1>4 DEF PositionRecord
<1>6. /\ EarnVault(v, p) \in VaultRecord
      /\ EarnVault(v, p) = [v EXCEPT !.uncollected = @ + SyInterest(v, p)]
    BY <1>2 DEF EarnVault, VaultRecord
<1> QED BY <1>2, <1>3, <1>5, <1>6

(* Emission trackers stay well typed when the final rate is known.         *)
LEMMA TrackersType ==
    ASSUME NEW v \in VaultRecord, FinalRateKnown(v), NEW p \in PositionRecord,
           NEW ems \in [EmissionIds -> EmissionRecord],
           NEW t \in [EmissionIds -> TrackerRecord]
    PROVE  EarnEmissions(v, ems, p, t) \in [EmissionIds -> TrackerRecord]
<1>1. SyBalance(v, p) \in Nat
    <2>1. v.final \in Nat /\ v.final # 0 /\ p.yt \in Nat /\ p.staged \in Nat
        BY DEF FinalRateKnown, VaultRecord, PositionRecord
    <2>2. PyToSy(v.final, p.yt) \in Nat
        BY <2>1, ConversionNat
    <2> QED BY <2>1, <2>2 DEF SyBalance
<1>2. ASSUME NEW i \in EmissionIds
      PROVE  ShareValue(t[i].index, ems[i].final, SyBalance(v, p)) \in Nat
    BY <1>1, ShareValueNat DEF EmissionRecord, TrackerRecord
<1> QED BY <1>2 DEF EarnEmissions, EmissionRecord, TrackerRecord

(* The accounts after update_vault_yield.                                  *)
LEMMA SyncedTypes ==
    ASSUME TypeOK, CanSync
    PROVE  /\ SyncedVault \in VaultRecord
           /\ SyncedVault.last = sy.rate
           /\ SyncedVault.ath = Larger(sy.rate, vault.ath)
           /\ SyncedVault.final = IF IsActive THEN sy.rate ELSE vault.final
           /\ SyncedVault.final > 0
           /\ SyncedVault.total = vault.total
           /\ SyncedVault.pts = vault.pts
           /\ SyncedRobot \in PositionRecord
           /\ SyncedRobot.yt = pos[Robot].yt
           /\ SyncedRobot.index \in {pos[Robot].index, SyncedVault.final}
           /\ SyncedEmissions \in [EmissionIds -> EmissionRecord]
           /\ SyncedTrackers \in [EmissionIds -> TrackerRecord]
<1>1. pos[Robot] \in PositionRecord /\ trackers[Robot] \in [EmissionIds -> TrackerRecord]
    BY DEF TypeOK, Positions
<1>2. UpdatedVault \in VaultRecord
    BY UpdatedVaultFields
<1>3. /\ SyncedVault \in VaultRecord
      /\ SyncedVault = [UpdatedVault EXCEPT
                            !.uncollected = @ + SyInterest(UpdatedVault, pos[Robot])]
      /\ SyncedRobot \in PositionRecord
      /\ SyncedRobot.yt = pos[Robot].yt
      /\ SyncedRobot.index \in {pos[Robot].index, UpdatedVault.final}
    BY <1>1, <1>2, EarnTypes DEF SyncedVault, SyncedRobot
<1>4. /\ SyncedVault.last = UpdatedVault.last
      /\ SyncedVault.ath = UpdatedVault.ath
      /\ SyncedVault.final = UpdatedVault.final
      /\ SyncedVault.total = UpdatedVault.total
      /\ SyncedVault.pts = UpdatedVault.pts
    BY <1>2, <1>3 DEF VaultRecord
<1>5. UpdatedVault.final > 0
    BY DEF CanSync, FinalRateKnown
<1>6. ASSUME NEW i \in EmissionIds
      PROVE  ShareValue(emissions[i].last, sy.indexes[i], vault.total) \in Nat
    BY ShareValueNat DEF TypeOK, EmissionRecord, SyRecord, VaultRecord
<1>7. SyncedEmissions \in [EmissionIds -> EmissionRecord]
    BY <1>6 DEF SyncedEmissions, TypeOK, EmissionRecord, SyRecord
<1>8. SyncedTrackers \in [EmissionIds -> TrackerRecord]
    BY <1>1, <1>2, <1>3, <1>7, TrackersType DEF SyncedTrackers, CanSync
<1> QED BY <1>3, <1>4, <1>5, <1>7, <1>8, UpdatedVaultFields

(* The accounts after a user position has settled, too.                    *)
LEMMA SettledTypes ==
    ASSUME TypeOK, CanSync, NEW u \in Users
    PROVE  /\ SettledVault(u) \in VaultRecord
           /\ SettledVault(u).last = SyncedVault.last
           /\ SettledVault(u).ath = SyncedVault.ath
           /\ SettledVault(u).final = SyncedVault.final
           /\ SettledVault(u).total = vault.total
           /\ SettledVault(u).pts = vault.pts
           /\ SettledPosition(u) \in PositionRecord
           /\ SettledPosition(u).yt = pos[u].yt
           /\ SettledPosition(u).index \in {pos[u].index, SyncedVault.final}
           /\ SettledTrackers(u) \in [EmissionIds -> TrackerRecord]
<1>1. pos[u] \in PositionRecord /\ trackers[u] \in [EmissionIds -> TrackerRecord]
    BY DEF TypeOK, Positions
<1>2. /\ SyncedVault \in VaultRecord
      /\ SyncedVault.total = vault.total
      /\ SyncedVault.pts = vault.pts
      /\ SyncedVault.final > 0
      /\ SyncedEmissions \in [EmissionIds -> EmissionRecord]
    BY SyncedTypes
<1>3. /\ SettledVault(u) \in VaultRecord
      /\ SettledVault(u) = [SyncedVault EXCEPT
                                !.uncollected = @ + SyInterest(SyncedVault, pos[u])]
      /\ SettledPosition(u) \in PositionRecord
      /\ SettledPosition(u).yt = pos[u].yt
      /\ SettledPosition(u).index \in {pos[u].index, SyncedVault.final}
    BY <1>1, <1>2, EarnTypes DEF SettledVault, SettledPosition
<1>4. SettledTrackers(u) \in [EmissionIds -> TrackerRecord]
    BY <1>1, <1>2, <1>3, TrackersType DEF SettledTrackers, FinalRateKnown
<1> QED BY <1>2, <1>3, <1>4 DEF VaultRecord

(* A position update at two places keeps the type of pos and trackers.     *)
LEMMA StakeMovedType ==
    ASSUME TypeOK, CanSync, NEW u \in Users, NEW n \in Int,
           SyncedRobot.yt - n \in Nat, SettledPosition(u).yt + n \in Nat
    PROVE  /\ StakeMoved(u, n) \in [Positions -> PositionRecord]
           /\ StakeMoved(u, n)[Robot].yt = pos[Robot].yt - n
           /\ StakeMoved(u, n)[u].yt = pos[u].yt + n
           /\ StakeMoved(u, n)[Robot].index = SyncedRobot.index
           /\ StakeMoved(u, n)[u].index = SettledPosition(u).index
           /\ \A p \in Positions \ {u, Robot} : StakeMoved(u, n)[p] = pos[p]
<1>1. u \in Positions /\ Robot \in Positions /\ u # Robot
    BY VaultAssumptions DEF Positions
<1>2. [SyncedRobot EXCEPT !.yt = @ - n] \in PositionRecord
      /\ [SyncedRobot EXCEPT !.yt = @ - n].yt = pos[Robot].yt - n
      /\ [SyncedRobot EXCEPT !.yt = @ - n].index = SyncedRobot.index
    BY SyncedTypes DEF PositionRecord
<1>3. [SettledPosition(u) EXCEPT !.yt = @ + n] \in PositionRecord
      /\ [SettledPosition(u) EXCEPT !.yt = @ + n].yt = pos[u].yt + n
      /\ [SettledPosition(u) EXCEPT !.yt = @ + n].index = SettledPosition(u).index
    BY SettledTypes DEF PositionRecord
<1> QED BY <1>1, <1>2, <1>3 DEF StakeMoved, TypeOK

-----------------------------------------------------------------------------
(* Type correctness.                                                       *)

(* The initial state is well typed.                                        *)
LEMMA InitType == Init => TypeOK
    BY VaultAssumptions
    DEF Init, TypeOK, NoVault, NoPosition, NoTracker, SyRecord, VaultRecord,
        EmissionRecord, PositionRecord, TrackerRecord, Positions

(* Stripping keeps the types.                                              *)
LEMMA StripType ==
    ASSUME TypeOK, NEW n \in Amounts, Strip(n)
    PROVE  TypeOK'
<1> DEFINE py == SyToPy(SyncedVault.last, n)
           w == [SyncedVault EXCEPT !.total = @ + n, !.pts = @ + py]
<1>1. n \in Nat /\ CanSync /\ Robot \in Positions
    BY VaultAssumptions DEF Strip, Positions
<1>2. SyncedVault \in VaultRecord /\ SyncedRobot \in PositionRecord
      /\ SyncedEmissions \in [EmissionIds -> EmissionRecord]
      /\ SyncedTrackers \in [EmissionIds -> TrackerRecord]
    BY <1>1, SyncedTypes
<1>3. py \in Nat
    BY <1>1, <1>2, ConversionNat DEF VaultRecord
<1>4. /\ vault' = SetSyForPt(w)
      /\ pos' = [pos EXCEPT ![Robot] = [SyncedRobot EXCEPT !.yt = @ + py]]
      /\ wallet' = [wallet EXCEPT !.sy = @ - n, !.pt = @ + py, !.yt = @ + py]
      /\ emissions' = SyncedEmissions
      /\ trackers' = [trackers EXCEPT ![Robot] = SyncedTrackers]
      /\ sy' = [sy EXCEPT !.position = @ + n]
      /\ UNCHANGED <<now, settings, limits, escrowYt, treasuryTokens>>
      /\ wallet.sy >= n
    BY DEF Strip
<1> HIDE DEF py
<1>5. w \in VaultRecord
    <2>1. SyncedVault.total + n \in Nat /\ SyncedVault.pts + py \in Nat
        BY <1>1, <1>2, <1>3 DEF VaultRecord
    <2> QED BY <1>2, <2>1, BalancesType DEF WithBalances
<1> HIDE DEF w
<1>6. vault' \in VaultRecord
    BY <1>4, <1>5, SetSyForPtType
<1>7. pos' \in [Positions -> PositionRecord]
    BY <1>1, <1>2, <1>3, <1>4 DEF TypeOK, PositionRecord
<1>8. trackers' \in [Positions -> [EmissionIds -> TrackerRecord]]
    BY <1>1, <1>2, <1>4 DEF TypeOK
<1>9. wallet' \in [sy : Nat, pt : Nat, yt : Nat]
    <2>1. wallet \in [sy : Nat, pt : Nat, yt : Nat]
        BY DEF TypeOK
    <2>2. wallet.sy - n \in Nat /\ wallet.pt + py \in Nat /\ wallet.yt + py \in Nat
        BY <2>1, <1>1, <1>3, <1>4
    <2> QED BY <2>1, <2>2, <1>4
<1>10. sy' \in SyRecord
    <2>1. sy \in SyRecord /\ sy.position + n \in Nat
        BY <1>1 DEF TypeOK, SyRecord
    <2> QED BY <2>1, <1>4, SyPositionType
<1> QED BY <1>2, <1>4, <1>6, <1>7, <1>8, <1>9, <1>10 DEF TypeOK

(* What a merge pays is a whole amount.                                    *)
LEMMA RedemptionNat ==
    ASSUME NEW v \in VaultRecord, NEW py \in Nat
    PROVE  Redemption(v, py) \in Nat
<1>1. v.forPt \in Nat /\ v.pts \in Nat
    BY DEF VaultRecord
<1>2. Natural(v.pts) = 0 => v.pts = 0
    BY <1>1, ONEAssumption DEF Natural
<1>3. FromRatio(v.forPt, v.pts) \in Nat
    BY <1>1, <1>2, NumberNat DEF FromRatio
<1> QED BY <1>3, NumberNat DEF Redemption

(* Merging keeps the types.                                                *)
LEMMA MergeType ==
    ASSUME TypeOK, NEW n \in Amounts, Merge(n)
    PROVE  TypeOK'
<1> DEFINE out == Redemption(SyncedVault, n)
           burned == BurnedYt(n)
           w == [SyncedVault EXCEPT !.total = @ - out, !.pts = @ - n]
<1>1. n \in Nat /\ CanSync /\ Robot \in Positions /\ burned \in Nat
    BY VaultAssumptions DEF Merge, Positions, BurnedYt
<1>2. SyncedVault \in VaultRecord /\ SyncedRobot \in PositionRecord
      /\ SyncedEmissions \in [EmissionIds -> EmissionRecord]
      /\ SyncedTrackers \in [EmissionIds -> TrackerRecord]
    BY <1>1, SyncedTypes
<1>3. out \in Nat
    BY <1>1, <1>2, RedemptionNat
<1>4. /\ vault' = SetSyForPt(w)
      /\ pos' = [pos EXCEPT ![Robot] = [SyncedRobot EXCEPT !.yt = @ - burned]]
      /\ wallet' = [wallet EXCEPT !.sy = @ + out, !.pt = @ - n, !.yt = @ - burned]
      /\ emissions' = SyncedEmissions
      /\ trackers' = [trackers EXCEPT ![Robot] = SyncedTrackers]
      /\ sy' = [sy EXCEPT !.position = @ - out]
      /\ UNCHANGED <<now, settings, limits, escrowYt, treasuryTokens>>
      /\ wallet.pt >= n /\ wallet.yt >= burned /\ SyncedRobot.yt >= burned
      /\ SyncedVault.total >= out /\ SyncedVault.pts >= n /\ sy.position >= out
    BY DEF Merge
<1> HIDE DEF out, burned
<1>5. w \in VaultRecord
    <2>1. SyncedVault.total - out \in Nat /\ SyncedVault.pts - n \in Nat
        BY <1>1, <1>2, <1>3, <1>4 DEF VaultRecord
    <2> QED BY <1>2, <2>1, BalancesType DEF WithBalances
<1> HIDE DEF w
<1>6. vault' \in VaultRecord
    BY <1>4, <1>5, SetSyForPtType
<1>7. pos' \in [Positions -> PositionRecord]
    BY <1>1, <1>2, <1>4 DEF TypeOK, PositionRecord
<1>8. trackers' \in [Positions -> [EmissionIds -> TrackerRecord]]
    BY <1>1, <1>2, <1>4 DEF TypeOK
<1>9. wallet' \in [sy : Nat, pt : Nat, yt : Nat]
    <2>1. wallet \in [sy : Nat, pt : Nat, yt : Nat]
        BY DEF TypeOK
    <2>2. /\ wallet.sy + out \in Nat
          /\ wallet.pt - n \in Nat
          /\ wallet.yt - burned \in Nat
        BY <2>1, <1>1, <1>3, <1>4
    <2> QED BY <2>1, <2>2, <1>4
<1>10. sy' \in SyRecord
    <2>1. sy \in SyRecord /\ sy.position - out \in Nat
        BY <1>3, <1>4 DEF TypeOK, SyRecord
    <2> QED BY <2>1, <1>4, SyPositionType
<1> QED BY <1>2, <1>4, <1>6, <1>7, <1>8, <1>9, <1>10 DEF TypeOK

(* Settling a user position keeps the types; so does moving YT with it.    *)
LEMMA SettledTrackersType ==
    ASSUME TypeOK, CanSync, NEW u \in Users
    PROVE  /\ SetSyForPt(SettledVault(u)) \in VaultRecord
           /\ SyncedEmissions \in [EmissionIds -> EmissionRecord]
           /\ [trackers EXCEPT ![Robot] = SyncedTrackers,
                               ![u] = SettledTrackers(u)]
                    \in [Positions -> [EmissionIds -> TrackerRecord]]
<1>1. u \in Positions /\ Robot \in Positions
    BY DEF Positions
<1>2. SetSyForPt(SettledVault(u)) \in VaultRecord
    BY SettledTypes, SetSyForPtType
<1> QED BY <1>1, <1>2, SyncedTypes, SettledTypes DEF TypeOK

(* Staging yield keeps the types.                                         *)
LEMMA StageYieldType ==
    ASSUME TypeOK, NEW u \in Users, StageYield(u)
    PROVE  TypeOK'
<1>1. u \in Positions /\ Robot \in Positions /\ CanSync
    BY DEF Positions, StageYield
<1>2. pos' \in [Positions -> PositionRecord]
    BY <1>1, SyncedTypes, SettledTypes DEF TypeOK, StageYield
<1> QED BY <1>1, <1>2, SettledTrackersType DEF TypeOK, StageYield

(* Staking YT keeps the types: the robot has the YT that moves.            *)
LEMMA DepositYtType ==
    ASSUME TypeOK, NEW u \in Users, NEW n \in Amounts, DepositYt(u, n)
    PROVE  TypeOK'
<1>1. n \in Nat /\ CanSync /\ wallet.yt >= n /\ SyncedRobot.yt >= n
    BY VaultAssumptions DEF DepositYt
<1>2. SyncedRobot.yt - n \in Nat /\ SettledPosition(u).yt + n \in Nat
    BY <1>1, SyncedTypes, SettledTypes DEF PositionRecord
<1>3. pos' \in [Positions -> PositionRecord]
    BY <1>1, <1>2, StakeMovedType DEF DepositYt
<1>4. wallet' \in [sy : Nat, pt : Nat, yt : Nat] /\ escrowYt' \in Nat
    <2>1. wallet \in [sy : Nat, pt : Nat, yt : Nat] /\ escrowYt \in Nat
        BY DEF TypeOK
    <2>2. wallet.yt - n \in Nat
        BY <2>1, <1>1
    <2> QED BY <2>1, <2>2, <1>1 DEF DepositYt
<1> QED BY <1>1, <1>3, <1>4, SettledTrackersType DEF TypeOK, DepositYt

(* Unstaking YT keeps the types: the user has the YT that moves.           *)
LEMMA WithdrawYtType ==
    ASSUME TypeOK, NEW u \in Users, NEW n \in Amounts, WithdrawYt(u, n)
    PROVE  TypeOK'
<1>1. n \in Nat /\ -n \in Int /\ CanSync /\ SettledPosition(u).yt >= n
      /\ escrowYt >= n
    BY VaultAssumptions DEF WithdrawYt
<1>2. SyncedRobot.yt - (-n) \in Nat /\ SettledPosition(u).yt + (-n) \in Nat
    BY <1>1, SyncedTypes, SettledTypes DEF PositionRecord
<1>3. pos' \in [Positions -> PositionRecord]
    BY <1>1, <1>2, StakeMovedType DEF WithdrawYt
<1>4. wallet' \in [sy : Nat, pt : Nat, yt : Nat] /\ escrowYt' \in Nat
    <2>1. wallet \in [sy : Nat, pt : Nat, yt : Nat] /\ escrowYt \in Nat
        BY DEF TypeOK
    <2>2. wallet.yt + n \in Nat /\ escrowYt - n \in Nat
        BY <2>1, <1>1
    <2> QED BY <2>1, <2>2 DEF WithdrawYt
<1> QED BY <1>1, <1>3, <1>4, SettledTrackersType DEF TypeOK, WithdrawYt

(* Amounts of collect instructions are whole amounts.                      *)
LEMMA RequestsNat ==
    ASSUME NEW balance \in Nat
    PROVE  Requests(balance) \subseteq Nat
<1>1. Amounts \subseteq Nat
    BY VaultAssumptions
<1>2. ASSUME NEW n \in Requests(balance) PROVE n \in Nat
    BY <1>1, <1>2 DEF Requests
<1> QED BY <1>2

(* Interest leaves the vault's balances without an underflow.              *)
LEMMA InterestPaidType ==
    ASSUME NEW v \in VaultRecord, NEW n \in Nat, v.total >= n, v.uncollected >= n
    PROVE  /\ InterestPaid(v, n) \in VaultRecord
           /\ InterestPaid(v, n).total = v.total - n
           /\ InterestPaid(v, n).uncollected = v.uncollected - n
           /\ InterestPaid(v, n).last = v.last
           /\ InterestPaid(v, n).ath = v.ath
           /\ InterestPaid(v, n).final = v.final
           /\ InterestPaid(v, n).pts = v.pts
<1>1. v.total - n \in Nat /\ v.uncollected - n \in Nat
    BY DEF VaultRecord
<1> QED BY <1>1 DEF InterestPaid, VaultRecord

(* The claim limits stay well typed.                                       *)
LEMMA ClaimLimitsType ==
    ASSUME TypeOK, NEW n \in Nat, VerifyClaimLimits(n)
    PROVE  limits' \in [start : Nat, used : Nat, max : Nat, duration : Nat]
<1>1. UsedInWindow + n \in Nat
    BY DEF TypeOK, UsedInWindow
<1>2. limits \in [start : Nat, used : Nat, max : Nat, duration : Nat] /\ now \in Nat
    BY DEF TypeOK
<1>3. CASE WindowElapsed
    BY <1>1, <1>2, <1>3 DEF VerifyClaimLimits
<1>4. CASE ~WindowElapsed
    BY <1>1, <1>2, <1>4 DEF VerifyClaimLimits
<1> QED BY <1>3, <1>4

(* The interest fee of every typed state, within the interest it is on.    *)
LEMMA InterestFee ==
    ASSUME TypeOK, NEW n \in Nat
    PROVE  FeeCeil(n, settings.feeBps) \in Nat /\ FeeCeil(n, settings.feeBps) <= n
<1>1. settings \in SettingsRecord
    BY DEF TypeOK
<1>2. settings.feeBps \in BasisPoints
    BY ONLY <1>1 DEF SettingsRecord
<1> QED BY ONLY <1>2, n \in Nat, FeeOfBps

(* What a typed state says of one position.                                *)
LEMMA TypedPosition ==
    ASSUME TypeOK, NEW q \in Positions
    PROVE  /\ vault \in VaultRecord /\ pos[q] \in PositionRecord
           /\ pos[q].staged \in Nat
           /\ emissions \in [EmissionIds -> EmissionRecord]
           /\ trackers[q] \in [EmissionIds -> TrackerRecord]
<1>1. /\ vault \in VaultRecord /\ pos \in [Positions -> PositionRecord]
      /\ emissions \in [EmissionIds -> EmissionRecord]
      /\ trackers \in [Positions -> [EmissionIds -> TrackerRecord]]
    BY DEF TypeOK
<1>2. pos[q] \in PositionRecord /\ trackers[q] \in [EmissionIds -> TrackerRecord]
    BY ONLY <1>1, q \in Positions
<1>3. pos[q].staged \in Nat
    BY ONLY <1>2 DEF PositionRecord
<1> QED BY ONLY <1>1, <1>2, <1>3

(* Collecting interest keeps the types: the position has earned at least   *)
(* what it had staged, and the fee is part of the amount.                  *)
LEMMA CollectInterestType ==
    ASSUME TypeOK, NEW u \in Users, NEW n \in Nat, CollectInterest(u, n)
    PROVE  TypeOK'
<1> DEFINE v == EarnVault(vault, pos[u])
           p == EarnPosition(vault, pos[u])
           fee == FeeCeil(n, settings.feeBps)
           paid == [p EXCEPT !.staged = @ - n]
           tracked == EarnEmissions(vault, emissions, p, trackers[u])
<1>1. u \in Positions /\ vault \in VaultRecord /\ pos[u] \in PositionRecord
      /\ pos[u].staged \in Nat
      /\ emissions \in [EmissionIds -> EmissionRecord]
      /\ trackers[u] \in [EmissionIds -> TrackerRecord]
    BY TypedPosition DEF Positions
<1>2. /\ n <= pos[u].staged
      /\ VerifyClaimLimits(n)
      /\ FinalRateKnown(vault)
      /\ sy.position >= n /\ v.total >= n /\ v.uncollected >= n
      /\ vault' = InterestPaid(v, n)
      /\ pos' = [pos EXCEPT ![u] = paid]
      /\ trackers' = [trackers EXCEPT ![u] = tracked]
      /\ sy' = [sy EXCEPT !.position = @ - n]
      /\ wallet' = [wallet EXCEPT !.sy = @ + n - fee]
      /\ treasuryTokens' = treasuryTokens + fee
      /\ UNCHANGED <<now, emissions, settings, escrowYt>>
    BY SMTT(60) DEF CollectInterest
<1>3. fee \in Nat /\ fee <= n
    BY InterestFee
<1>4. v \in VaultRecord /\ p \in PositionRecord /\ p.staged >= pos[u].staged
    <2>1. /\ EarnVault(vault, pos[u]) \in VaultRecord
          /\ EarnPosition(vault, pos[u]) \in PositionRecord
          /\ SyInterest(vault, pos[u]) \in Nat
          /\ EarnPosition(vault, pos[u]).staged
                = pos[u].staged + SyInterest(vault, pos[u])
        BY ONLY <1>1, EarnTypes
    <2> QED BY ONLY <1>1, <2>1
<1>5. tracked \in [EmissionIds -> TrackerRecord]
    BY ONLY <1>1, <1>2, <1>4, TrackersType
<1> HIDE DEF v, p, fee, tracked
<1>6. paid \in PositionRecord
    <2>1. p.staged - n \in Nat
        <3>1. p.staged \in Nat
            BY ONLY <1>4 DEF PositionRecord
        <3>2. n \in Nat /\ n <= pos[u].staged /\ pos[u].staged <= p.staged
            BY <1>2, <1>4
        <3> QED BY ONLY <1>1, <3>1, <3>2
    <2>2. paid = [p EXCEPT !.staged = p.staged - n]
        OBVIOUS
    <2> HIDE DEF paid
    <2> QED BY ONLY <1>4, <2>1, <2>2, StagedType
<1> HIDE DEF paid
<1>7. vault' \in VaultRecord
    BY <1>2, <1>4, InterestPaidType
<1>8. pos' \in [Positions -> PositionRecord]
      /\ trackers' \in [Positions -> [EmissionIds -> TrackerRecord]]
    <2>1. pos \in [Positions -> PositionRecord]
          /\ trackers \in [Positions -> [EmissionIds -> TrackerRecord]]
        BY DEF TypeOK
    <2>2. pos' = [pos EXCEPT ![u] = paid]
        BY <1>2
    <2>3. pos' \in [Positions -> PositionRecord]
        BY ONLY <2>1, <2>2, <1>6
    <2>4. trackers' = [trackers EXCEPT ![u] = tracked]
        BY <1>2
    <2>5. trackers' \in [Positions -> [EmissionIds -> TrackerRecord]]
        BY ONLY <2>1, <2>4, <1>5
    <2> QED BY <2>3, <2>5
<1>9. sy' \in SyRecord
    <2>1. sy \in SyRecord /\ sy.position - n \in Nat
        BY <1>2 DEF TypeOK, SyRecord
    <2> QED BY <2>1, <1>2, SyPositionType
<1>10. wallet' \in [sy : Nat, pt : Nat, yt : Nat] /\ treasuryTokens' \in Nat
    <2>1. wallet \in [sy : Nat, pt : Nat, yt : Nat] /\ treasuryTokens \in Nat
        BY DEF TypeOK
    <2>2. wallet.sy + n - fee \in Nat
        BY <2>1, <1>3
    <2> QED BY <2>1, <2>2, <1>2, <1>3
<1>11. limits' \in [start : Nat, used : Nat, max : Nat, duration : Nat]
    BY <1>2, ClaimLimitsType
<1> QED BY <1>2, <1>7, <1>8, <1>9, <1>10, <1>11 DEF TypeOK

(* Collecting the robot's interest keeps the types.                        *)
LEMMA CollectRobotInterestType ==
    ASSUME TypeOK, NEW n \in Nat, CollectRobotInterest(n)
    PROVE  TypeOK'
<1>1. vault' \in VaultRecord
    BY InterestPaidType DEF TypeOK, CollectRobotInterest
<1>2. pos' \in [Positions -> PositionRecord]
    <2>1. Robot \in Positions /\ pos \in [Positions -> PositionRecord]
          /\ pos[Robot].staged - n \in Nat
        BY DEF TypeOK, Positions, CollectRobotInterest, PositionRecord
    <2> QED BY <2>1 DEF CollectRobotInterest, PositionRecord
<1>3. sy' \in SyRecord
    <2>1. sy \in SyRecord /\ sy.position - n \in Nat
        BY DEF TypeOK, SyRecord, CollectRobotInterest
    <2> QED BY <2>1, SyPositionType DEF CollectRobotInterest
<1> QED BY <1>1, <1>2, <1>3 DEF TypeOK, CollectRobotInterest

(* Collecting treasury SY keeps the types.                                 *)
LEMMA CollectTreasurySyType ==
    ASSUME TypeOK, NEW n \in Nat, CollectTreasurySy(n)
    PROVE  TypeOK'
<1>1. vault' \in VaultRecord
    <2>1. vault \in VaultRecord /\ vault.total - n \in Nat
          /\ vault.treasury - n \in Nat
        BY DEF TypeOK, VaultRecord, CollectTreasurySy
    <2> QED BY <2>1 DEF VaultRecord, CollectTreasurySy
<1>2. sy' \in SyRecord
    <2>1. sy \in SyRecord /\ sy.position - n \in Nat
        BY DEF TypeOK, SyRecord, CollectTreasurySy
    <2> QED BY <2>1, SyPositionType DEF CollectTreasurySy
<1> QED BY <1>1, <1>2 DEF TypeOK, CollectTreasurySy

(* The emissions the SY program owes are not overdrawn.                    *)
LEMMA OwedType ==
    ASSUME NEW s \in SyRecord, NEW i \in EmissionIds, NEW n \in Nat,
           s.owed[i] >= Natural(n)
    PROVE  [s EXCEPT !.owed[i] = @ - Natural(n)] \in SyRecord
<1>1. s.owed[i] - Natural(n) \in Nat
    <2>1. Natural(n) \in Nat
        BY NumberNat, 0 \in Nat
    <2>2. s.owed[i] \in Nat
        BY DEF SyRecord
    <2> QED BY <2>1, <2>2
<1> QED BY <1>1 DEF SyRecord

(* Collecting emissions keeps the types.                                   *)
LEMMA CollectEmissionType ==
    ASSUME TypeOK, NEW q \in Positions, NEW i \in EmissionIds, NEW n \in Nat,
           n <= trackers[q][i].staged, sy.owed[i] >= Natural(n),
           sy' = [sy EXCEPT !.owed[i] = @ - Natural(n)],
           trackers' = [trackers EXCEPT ![q][i].staged = @ - n],
           UNCHANGED <<now, vault, emissions, settings, limits, pos, wallet,
                       escrowYt, treasuryTokens>>
    PROVE  TypeOK'
<1>1. sy' \in SyRecord
    BY OwedType DEF TypeOK
<1>2. trackers' \in [Positions -> [EmissionIds -> TrackerRecord]]
    <2>1. trackers \in [Positions -> [EmissionIds -> TrackerRecord]]
          /\ trackers[q][i].staged - n \in Nat
        BY DEF TypeOK, TrackerRecord
    <2> QED BY <2>1 DEF TrackerRecord
<1> QED BY <1>1, <1>2 DEF TypeOK

(* Collecting treasury emissions keeps the types.                          *)
LEMMA CollectTreasuryEmissionType ==
    ASSUME TypeOK, NEW i \in EmissionIds, NEW n \in Nat,
           CollectTreasuryEmission(i, n)
    PROVE  TypeOK'
<1>1. sy' \in SyRecord
    BY OwedType DEF TypeOK, CollectTreasuryEmission
<1>2. emissions' \in [EmissionIds -> EmissionRecord]
    <2>1. emissions \in [EmissionIds -> EmissionRecord]
          /\ emissions[i].treasury - n \in Nat
        BY DEF TypeOK, EmissionRecord, CollectTreasuryEmission
    <2> QED BY <2>1 DEF EmissionRecord, CollectTreasuryEmission
<1> QED BY <1>1, <1>2 DEF TypeOK, CollectTreasuryEmission

(* The clock, the SY program and the curator's settings keep the types.    *)
LEMMA EnvironmentType ==
    ASSUME TypeOK,
           Tick \/ SyRateMoves \/ SyEmissionAccrues \/ ModifyVaultSetting
                \/ ChangeClaimLimits
    PROVE  TypeOK'
<1>1. CASE Tick
    BY <1>1 DEF TypeOK, Tick
<1>2. CASE SyRateMoves
    BY <1>2, VaultAssumptions DEF TypeOK, SyRateMoves, SyRecord
<1>3. CASE SyEmissionAccrues
    <2>1. PICK i \in EmissionIds, d \in IndexSteps :
                sy' = [sy EXCEPT !.indexes[i] = @ + d,
                                 !.owed[i] = @ + d * sy.position]
        BY <1>3 DEF SyEmissionAccrues
    <2>2. d \in Nat /\ sy \in SyRecord
        BY VaultAssumptions DEF TypeOK
    <2>3. d * sy.position \in Nat
        BY <2>2, ProductNat DEF SyRecord
    <2>4. sy.indexes[i] + d \in Nat /\ sy.owed[i] + d * sy.position \in Nat
        BY <2>2, <2>3 DEF SyRecord
    <2>5. sy' \in SyRecord
        BY <2>1, <2>2, <2>4 DEF SyRecord
    <2> QED BY <1>3, <2>5 DEF TypeOK, SyEmissionAccrues
<1>4. CASE ModifyVaultSetting
    BY <1>4, VaultAssumptions DEF TypeOK, ModifyVaultSetting
<1>5. CASE ChangeClaimLimits
    BY <1>5, VaultAssumptions DEF TypeOK, ChangeClaimLimits
<1> QED BY <1>1, <1>2, <1>3, <1>4, <1>5

(* Every step keeps the types.                                             *)
LEMMA NextType == TypeOK /\ [Next]_vars => TypeOK'
<1> SUFFICES ASSUME TypeOK, [Next]_vars PROVE TypeOK'
    OBVIOUS
<1>1. CASE UNCHANGED vars
    BY <1>1 DEF vars, TypeOK
<1>2. CASE Tick \/ SyRateMoves \/ SyEmissionAccrues \/ ModifyVaultSetting
                \/ ChangeClaimLimits
    BY <1>2, EnvironmentType
<1>3. ASSUME NEW n \in Amounts, Strip(n) PROVE TypeOK'
    BY <1>3, StripType
<1>4. ASSUME NEW n \in Amounts, Merge(n) PROVE TypeOK'
    BY <1>4, MergeType
<1>5. ASSUME NEW u \in Users, StageYield(u) PROVE TypeOK'
    BY <1>5, StageYieldType
<1>6. ASSUME NEW u \in Users, NEW n \in Amounts, DepositYt(u, n) PROVE TypeOK'
    BY <1>6, DepositYtType
<1>7. ASSUME NEW u \in Users, NEW n \in Amounts, WithdrawYt(u, n) PROVE TypeOK'
    BY <1>7, WithdrawYtType
<1>8. ASSUME NEW u \in Users, NEW n \in Requests(pos[u].staged),
             CollectInterest(u, n)
      PROVE  TypeOK'
    <2>1. n \in Nat
        BY RequestsNat DEF TypeOK, Positions, PositionRecord
    <2> QED BY <1>8, <2>1, CollectInterestType
<1>9. ASSUME NEW u \in Users, NEW i \in EmissionIds,
             NEW n \in Requests(trackers[u][i].staged), CollectEmission(u, i, n)
      PROVE  TypeOK'
    <2>1. n \in Nat /\ u \in Positions
        BY RequestsNat DEF TypeOK, Positions, TrackerRecord
    <2> QED BY <1>9, <2>1, CollectEmissionType DEF CollectEmission
<1>10. ASSUME NEW n \in Requests(pos[Robot].staged), CollectRobotInterest(n)
       PROVE  TypeOK'
    <2>1. n \in Nat
        BY RequestsNat DEF TypeOK, Positions, PositionRecord
    <2> QED BY <1>10, <2>1, CollectRobotInterestType
<1>11. ASSUME NEW n \in Requests(vault.treasury), CollectTreasurySy(n)
       PROVE  TypeOK'
    <2>1. n \in Nat
        BY RequestsNat DEF TypeOK, VaultRecord
    <2> QED BY <1>11, <2>1, CollectTreasurySyType
<1>12. ASSUME NEW i \in EmissionIds, NEW n \in Requests(trackers[Robot][i].staged),
              CollectRobotEmission(i, n)
       PROVE  TypeOK'
    <2>1. n \in Nat /\ Robot \in Positions
        BY RequestsNat DEF TypeOK, Positions, TrackerRecord
    <2> QED BY <1>12, <2>1, CollectEmissionType DEF CollectRobotEmission
<1>13. ASSUME NEW i \in EmissionIds, NEW n \in Requests(emissions[i].treasury),
              CollectTreasuryEmission(i, n)
       PROVE  TypeOK'
    <2>1. n \in Nat
        BY RequestsNat DEF TypeOK, EmissionRecord
    <2> QED BY <1>13, <2>1, CollectTreasuryEmissionType
<1> QED BY <1>1, <1>2, <1>3, <1>4, <1>5, <1>6, <1>7, <1>8, <1>9, <1>10,
           <1>11, <1>12, <1>13 DEF Next

(* In every reachable state every account has its type: no balance of the  *)
(* vault, of a position or of an escrow is ever negative.                  *)
THEOREM TypeCorrect == Spec => []TypeOK
    BY InitType, NextType, PTL DEF Spec

-----------------------------------------------------------------------------
(* Rates and balances.                                                     *)

(* Nothing is stripped before the start of the term, so that a merge never *)
(* burns PT without its YT.                                                *)
NoPtBeforeStart == now < StartTs => wallet.pt = 0

(* The inductive invariant of the theorems below.                          *)
IInv ==
    /\ TypeOK
    /\ RateOrder
    /\ ZeroRateNeverRecorded
    /\ EscrowInSync
    /\ PySupply
    /\ NoPtBeforeStart

(* Recomputing the backing changes neither the rates nor the balances.     *)
LEMMA SetSyForPtFields ==
    ASSUME NEW v \in VaultRecord
    PROVE  /\ SetSyForPt(v).last = v.last
           /\ SetSyForPt(v).ath = v.ath
           /\ SetSyForPt(v).final = v.final
           /\ SetSyForPt(v).total = v.total
           /\ SetSyForPt(v).pts = v.pts
    BY SetSyForPtType DEF VaultRecord

(* What every step that synchronises the vault does to rates and indexes.  *)
TakesOverRate ==
    /\ vault'.last = sy.rate
    /\ vault'.ath = Larger(sy.rate, vault.ath)
    /\ vault'.final = IF IsActive THEN sy.rate ELSE vault.final
    /\ vault'.final > 0
    /\ \A p \in Positions : pos'[p].index \in {pos[p].index, vault'.final}

(* A strip mints PT and YT for the SY that enters the escrow.              *)
LEMMA StripEffect ==
    ASSUME TypeOK, NEW n \in Amounts, Strip(n)
    PROVE  /\ TakesOverRate
           /\ IsActive
           /\ \E py \in Nat :
                /\ vault'.total = vault.total + n
                /\ vault'.pts = vault.pts + py
                /\ wallet' = [wallet EXCEPT !.sy = @ - n, !.pt = @ + py, !.yt = @ + py]
                /\ pos'[Robot].yt = pos[Robot].yt + py
           /\ sy'.position = sy.position + n
           /\ UNCHANGED <<now, escrowYt, treasuryTokens>>
<1> DEFINE py == SyToPy(SyncedVault.last, n)
           w == [SyncedVault EXCEPT !.total = @ + n, !.pts = @ + py]
           robot == [SyncedRobot EXCEPT !.yt = @ + py]
<1>1. n \in Nat /\ CanSync /\ Robot \in Positions
    BY VaultAssumptions DEF Strip, Positions
<1>2. /\ SyncedVault \in VaultRecord /\ SyncedRobot \in PositionRecord
      /\ SyncedVault.total = vault.total /\ SyncedVault.pts = vault.pts
      /\ SyncedRobot.yt = pos[Robot].yt
      /\ SyncedRobot.index \in {pos[Robot].index, SyncedVault.final}
    BY <1>1, SyncedTypes
<1>3. py \in Nat
    BY <1>1, <1>2, ConversionNat DEF VaultRecord
<1>4. /\ vault' = SetSyForPt(w)
      /\ pos' = [pos EXCEPT ![Robot] = robot]
      /\ wallet' = [wallet EXCEPT !.sy = @ - n, !.pt = @ + py, !.yt = @ + py]
      /\ sy' = [sy EXCEPT !.position = @ + n]
      /\ UNCHANGED <<now, escrowYt, treasuryTokens>>
      /\ IsActive
    BY DEF Strip
<1> HIDE DEF py
<1>5. SyncedVault.total + n \in Nat /\ SyncedVault.pts + py \in Nat
    BY <1>1, <1>2, <1>3 DEF VaultRecord
<1>6. /\ w \in VaultRecord
      /\ w.last = SyncedVault.last /\ w.ath = SyncedVault.ath
      /\ w.final = SyncedVault.final
      /\ w.total = vault.total + n /\ w.pts = vault.pts + py
    <2> DEFINE total == SyncedVault.total + n
               pts == SyncedVault.pts + py
    <2>1. w = WithBalances(SyncedVault, total, pts)
        BY DEF WithBalances
    <2>2. total \in Nat /\ pts \in Nat
          /\ total = vault.total + n /\ pts = vault.pts + py
        BY <1>2, <1>5
    <2> HIDE DEF w, total, pts
    <2>3. SyncedVault \in VaultRecord /\ total \in Nat /\ pts \in Nat
        BY <1>2, <2>2
    <2>4. /\ WithBalances(SyncedVault, total, pts) \in VaultRecord
          /\ WithBalances(SyncedVault, total, pts).total = total
          /\ WithBalances(SyncedVault, total, pts).pts = pts
          /\ WithBalances(SyncedVault, total, pts).last = SyncedVault.last
          /\ WithBalances(SyncedVault, total, pts).ath = SyncedVault.ath
          /\ WithBalances(SyncedVault, total, pts).final = SyncedVault.final
        BY ONLY <2>3, BalancesType
    <2> QED BY <2>1, <2>2, <2>4
<1>7. robot.yt = pos[Robot].yt + py /\ robot.index = SyncedRobot.index
    BY <1>2 DEF PositionRecord
<1> HIDE DEF w, robot
<1>8. /\ vault'.last = SyncedVault.last /\ vault'.ath = SyncedVault.ath
      /\ vault'.final = SyncedVault.final
      /\ vault'.total = vault.total + n /\ vault'.pts = vault.pts + py
    BY <1>4, <1>6, SetSyForPtFields
<1>9. /\ pos'[Robot] = robot
      /\ \A p \in Positions \ {Robot} : pos'[p] = pos[p]
    BY <1>1, <1>4 DEF TypeOK
<1>10. TakesOverRate
    BY <1>1, <1>2, <1>7, <1>8, <1>9, SyncedTypes DEF TakesOverRate
<1>11. sy'.position = sy.position + n
    BY <1>1, <1>4 DEF TypeOK, SyRecord
<1> QED BY <1>3, <1>4, <1>7, <1>8, <1>9, <1>10, <1>11

(* A merge burns PT, and YT until maturity, for the SY that leaves.        *)
LEMMA MergeEffect ==
    ASSUME TypeOK, NEW n \in Amounts, Merge(n)
    PROVE  /\ TakesOverRate
           /\ sy.rate > 0
           /\ n > 0
           /\ wallet.pt >= n
           /\ \E out \in Nat :
                /\ vault'.total = vault.total - out
                /\ vault'.pts = vault.pts - n
                /\ wallet' = [wallet EXCEPT !.sy = @ + out, !.pt = @ - n,
                                            !.yt = @ - BurnedYt(n)]
                /\ pos'[Robot].yt = pos[Robot].yt - BurnedYt(n)
                /\ sy'.position = sy.position - out
           /\ UNCHANGED <<now, escrowYt, treasuryTokens>>
<1> DEFINE out == Redemption(SyncedVault, n)
           burned == BurnedYt(n)
           w == [SyncedVault EXCEPT !.total = @ - out, !.pts = @ - n]
           robot == [SyncedRobot EXCEPT !.yt = @ - burned]
<1>1. n \in Nat /\ CanSync /\ Robot \in Positions /\ burned \in Nat
    BY VaultAssumptions DEF Merge, Positions, BurnedYt
<1>2. /\ SyncedVault \in VaultRecord /\ SyncedRobot \in PositionRecord
      /\ SyncedVault.total = vault.total /\ SyncedVault.pts = vault.pts
      /\ SyncedRobot.yt = pos[Robot].yt
      /\ SyncedRobot.index \in {pos[Robot].index, SyncedVault.final}
    BY <1>1, SyncedTypes
<1>3. out \in Nat
    BY <1>1, <1>2, RedemptionNat
<1>4. /\ vault' = SetSyForPt(w)
      /\ pos' = [pos EXCEPT ![Robot] = robot]
      /\ wallet' = [wallet EXCEPT !.sy = @ + out, !.pt = @ - n, !.yt = @ - burned]
      /\ sy' = [sy EXCEPT !.position = @ - out]
      /\ UNCHANGED <<now, escrowYt, treasuryTokens>>
      /\ SyncedVault.total >= out /\ SyncedVault.pts >= n
      /\ wallet.pt >= n
    BY DEF Merge
<1>5. sy.rate > 0
    BY DEF Merge, SyStateValid
<1>6. n > 0
    <2>1. n >= settings.minMerge
        BY DEF Merge
    <2>2. settings.minMerge \in Nat \ {0}
        BY DEF TypeOK, SettingsRecord
    <2>3. PICK m \in Nat \ {0} : m = settings.minMerge
        BY <2>2
    <2> QED BY <1>1, <2>1, <2>3
<1> HIDE DEF out, burned
<1>7. SyncedVault.total - out \in Nat /\ SyncedVault.pts - n \in Nat
    BY <1>1, <1>2, <1>3, <1>4 DEF VaultRecord
<1>8. /\ w \in VaultRecord
      /\ w.last = SyncedVault.last /\ w.ath = SyncedVault.ath
      /\ w.final = SyncedVault.final
      /\ w.total = vault.total - out /\ w.pts = vault.pts - n
    <2> DEFINE total == SyncedVault.total - out
               pts == SyncedVault.pts - n
    <2>1. w = WithBalances(SyncedVault, total, pts)
        BY DEF WithBalances
    <2>2. total \in Nat /\ pts \in Nat
          /\ total = vault.total - out /\ pts = vault.pts - n
        BY <1>2, <1>7
    <2> HIDE DEF w, total, pts
    <2>3. SyncedVault \in VaultRecord /\ total \in Nat /\ pts \in Nat
        BY <1>2, <2>2
    <2>4. /\ WithBalances(SyncedVault, total, pts) \in VaultRecord
          /\ WithBalances(SyncedVault, total, pts).total = total
          /\ WithBalances(SyncedVault, total, pts).pts = pts
          /\ WithBalances(SyncedVault, total, pts).last = SyncedVault.last
          /\ WithBalances(SyncedVault, total, pts).ath = SyncedVault.ath
          /\ WithBalances(SyncedVault, total, pts).final = SyncedVault.final
        BY ONLY <2>3, BalancesType
    <2> QED BY <2>1, <2>2, <2>4
<1>9. robot.yt = pos[Robot].yt - burned /\ robot.index = SyncedRobot.index
    BY <1>2 DEF PositionRecord
<1> HIDE DEF w, robot
<1>10. /\ vault'.last = SyncedVault.last /\ vault'.ath = SyncedVault.ath
       /\ vault'.final = SyncedVault.final
       /\ vault'.total = vault.total - out /\ vault'.pts = vault.pts - n
    BY <1>4, <1>8, SetSyForPtFields
<1>11. /\ pos'[Robot] = robot
       /\ \A p \in Positions \ {Robot} : pos'[p] = pos[p]
    BY <1>1, <1>4 DEF TypeOK
<1>12. TakesOverRate
    BY <1>1, <1>2, <1>9, <1>10, <1>11, SyncedTypes DEF TakesOverRate
<1>13. sy'.position = sy.position - out
    BY <1>3, <1>4 DEF TypeOK, SyRecord
<1> USE DEF burned
<1> QED BY <1>3, <1>4, <1>5, <1>6, <1>9, <1>10, <1>11, <1>12, <1>13

(* The vault after a user position settled.                                *)
LEMMA SettledVaultFields ==
    ASSUME TypeOK, CanSync, NEW u \in Users, vault' = SetSyForPt(SettledVault(u))
    PROVE  /\ vault'.last = sy.rate
           /\ vault'.ath = Larger(sy.rate, vault.ath)
           /\ vault'.final = IF IsActive THEN sy.rate ELSE vault.final
           /\ vault'.final = SyncedVault.final
           /\ vault'.final > 0
           /\ vault'.total = vault.total
           /\ vault'.pts = vault.pts
<1>1. /\ SettledVault(u) \in VaultRecord
      /\ SettledVault(u).last = SyncedVault.last
      /\ SettledVault(u).ath = SyncedVault.ath
      /\ SettledVault(u).final = SyncedVault.final
      /\ SettledVault(u).total = vault.total
      /\ SettledVault(u).pts = vault.pts
    BY SettledTypes
<1>2. /\ vault'.last = SyncedVault.last /\ vault'.ath = SyncedVault.ath
      /\ vault'.final = SyncedVault.final
      /\ vault'.total = vault.total /\ vault'.pts = vault.pts
    BY <1>1, SetSyForPtFields
<1> QED BY <1>2, SyncedTypes

(* Staging yield moves rates only.                                         *)
LEMMA StageYieldEffect ==
    ASSUME TypeOK, NEW u \in Users, StageYield(u)
    PROVE  /\ TakesOverRate
           /\ vault'.last >= vault'.ath
           /\ vault'.total = vault.total
           /\ vault'.pts = vault.pts
           /\ pos'[Robot].yt = pos[Robot].yt
           /\ UNCHANGED <<now, sy, wallet, escrowYt, treasuryTokens>>
<1>1. u \in Positions /\ Robot \in Positions /\ u # Robot /\ CanSync
    BY VaultAssumptions DEF Positions, StageYield
<1>2. /\ pos' = [pos EXCEPT ![Robot] = SyncedRobot, ![u] = SettledPosition(u)]
      /\ vault' = SetSyForPt(SettledVault(u))
      /\ UNCHANGED <<now, sy, wallet, escrowYt, treasuryTokens>>
      /\ ~(SyncedVault.ath > SyncedVault.last)
    BY DEF StageYield, EmergencyMode
<1>3. /\ pos'[Robot] = SyncedRobot /\ pos'[u] = SettledPosition(u)
      /\ \A p \in Positions \ {u, Robot} : pos'[p] = pos[p]
    BY <1>1, <1>2 DEF TypeOK
<1>4. TakesOverRate
    BY <1>1, <1>2, <1>3, SettledVaultFields, SyncedTypes, SettledTypes
       DEF TakesOverRate
<1>5. vault'.last >= vault'.ath
    <2>1. vault'.last = SyncedVault.last /\ vault'.ath = SyncedVault.ath
        BY <1>1, <1>2, SettledVaultFields, SyncedTypes
    <2>2. SyncedVault.last \in Nat /\ SyncedVault.ath \in Nat
        BY <1>1, SyncedTypes DEF VaultRecord
    <2> QED BY <1>2, <2>1, <2>2
<1> QED BY <1>1, <1>2, <1>3, <1>4, <1>5, SettledVaultFields, SyncedTypes

(* Staking moves YT from the wallets and the robot to the escrow and the   *)
(* user; unstaking (a negative amount) moves it back.                      *)
LEMMA StakeEffect ==
    ASSUME TypeOK, CanSync, NEW u \in Users, NEW n \in Int,
           SyncedRobot.yt - n \in Nat, SettledPosition(u).yt + n \in Nat,
           vault' = SetSyForPt(SettledVault(u)), pos' = StakeMoved(u, n)
    PROVE  /\ TakesOverRate
           /\ vault'.total = vault.total
           /\ vault'.pts = vault.pts
           /\ pos'[Robot].yt = pos[Robot].yt - n
<1>1. \A p \in Positions : pos'[p].index \in {pos[p].index, vault'.final}
    <2> SUFFICES ASSUME NEW p \in Positions
                 PROVE  pos'[p].index \in {pos[p].index, vault'.final}
        OBVIOUS
    <2>1. vault'.final = SyncedVault.final
        BY SettledVaultFields
    <2>2. CASE p = Robot
        BY <2>1, <2>2, StakeMovedType, SyncedTypes
    <2>3. CASE p = u
        BY <2>1, <2>3, StakeMovedType, SettledTypes
    <2>4. CASE p \notin {u, Robot}
        BY <2>4, StakeMovedType
    <2> QED BY <2>2, <2>3, <2>4
<1>2. TakesOverRate
    BY <1>1, SettledVaultFields DEF TakesOverRate
<1> QED BY <1>2, SettledVaultFields, StakeMovedType

(* A synchronising step keeps the rates ordered; whenever it is not an     *)
(* emergency withdrawal of the whole rate, it records a positive rate.     *)
LEMMA RatesAfterSync ==
    ASSUME TypeOK, RateOrder, TakesOverRate,
           IsActive \/ sy.rate > 0 \/ vault'.last >= vault'.ath
    PROVE  RateOrder' /\ ZeroRateNeverRecorded'
<1>1. /\ sy.rate \in Nat /\ vault.ath \in Nat /\ vault.final \in Nat
      /\ vault.final <= vault.ath
      /\ \A p \in Positions : pos[p].index \in Nat /\ pos[p].index <= vault.ath
    BY DEF TypeOK, SyRecord, VaultRecord, PositionRecord, RateOrder
<1>2. /\ vault'.ath \in Nat /\ vault'.ath >= sy.rate /\ vault'.ath >= vault.ath
    BY <1>1 DEF TakesOverRate, Larger
<1>3. vault'.final \in Nat /\ vault'.final <= vault'.ath /\ vault'.final > 0
    <2>1. CASE IsActive
        BY <1>1, <1>2, <2>1 DEF TakesOverRate
    <2>2. CASE ~IsActive
        BY <1>1, <1>2, <2>2 DEF TakesOverRate
    <2> QED BY <2>1, <2>2
<1>4. vault'.last <= vault'.ath
    BY <1>1, <1>2 DEF TakesOverRate
<1>5. \A p \in Positions : pos'[p].index <= vault'.ath
    <2> SUFFICES ASSUME NEW p \in Positions PROVE pos'[p].index <= vault'.ath
        OBVIOUS
    <2>1. pos'[p].index = pos[p].index \/ pos'[p].index = vault'.final
        BY DEF TakesOverRate
    <2> QED BY <1>1, <1>2, <1>3, <2>1
<1>6. vault'.ath > 0 => vault'.last > 0
    <2>1. CASE IsActive
        <3>1. vault'.final = sy.rate /\ vault'.last = sy.rate
            BY <2>1 DEF TakesOverRate
        <3> QED BY <3>1, <1>3
    <2>2. CASE sy.rate > 0
        BY <2>2 DEF TakesOverRate
    <2>3. CASE vault'.last >= vault'.ath
        BY <1>1, <1>2, <2>3 DEF TakesOverRate
    <2> QED BY <2>1, <2>2, <2>3
<1> QED BY <1>3, <1>4, <1>5, <1>6 DEF RateOrder, ZeroRateNeverRecorded

(* The balances that EscrowInSync, PySupply and NoPtBeforeStart relate,    *)
(* named so that a step's effect on them is a fact of linear arithmetic.   *)
LEMMA BalancesNat ==
    ASSUME TypeOK
    PROVE  /\ sy.position \in Nat /\ vault.total \in Nat /\ vault.pts \in Nat
           /\ wallet.sy \in Nat /\ wallet.pt \in Nat /\ wallet.yt \in Nat
           /\ pos[Robot].yt \in Nat
           /\ escrowYt \in Nat /\ treasuryTokens \in Nat
           /\ now \in Nat
    BY DEF TypeOK, SyRecord, VaultRecord, PositionRecord, Positions

(* Steps that change none of the related balances.                         *)
LEMMA BalancesKept ==
    ASSUME IInv, UNCHANGED <<now, wallet, escrowYt, treasuryTokens>>,
           sy'.position = sy.position, vault'.total = vault.total,
           vault'.pts = vault.pts, pos'[Robot].yt = pos[Robot].yt
    PROVE  EscrowInSync' /\ PySupply' /\ NoPtBeforeStart'
    BY DEF IInv, EscrowInSync, PySupply, NoPtBeforeStart

(* Steps that change neither the rates nor an index.                       *)
LEMMA RatesKept ==
    ASSUME IInv, vault'.last = vault.last, vault'.ath = vault.ath,
           vault'.final = vault.final,
           \A p \in Positions : pos'[p].index = pos[p].index
    PROVE  RateOrder' /\ ZeroRateNeverRecorded'
    BY DEF IInv, RateOrder, ZeroRateNeverRecorded

(* Stripping preserves the invariant.                                      *)
LEMMA StripInv ==
    ASSUME IInv, NEW n \in Amounts, Strip(n)
    PROVE  IInv'
<1>1. TypeOK /\ RateOrder /\ n \in Nat
    BY VaultAssumptions DEF IInv
<1>2. RateOrder' /\ ZeroRateNeverRecorded'
    BY <1>1, StripEffect, RatesAfterSync
<1>3. PICK py \in Nat :
        /\ vault'.total = vault.total + n
        /\ vault'.pts = vault.pts + py
        /\ wallet' = [wallet EXCEPT !.sy = @ - n, !.pt = @ + py, !.yt = @ + py]
        /\ pos'[Robot].yt = pos[Robot].yt + py
    BY <1>1, StripEffect
<1>4. /\ sy'.position = sy.position + n /\ IsActive
      /\ UNCHANGED <<now, escrowYt, treasuryTokens>>
    BY <1>1, StripEffect
<1>5. wallet'.sy = wallet.sy - n /\ wallet'.pt = wallet.pt + py
      /\ wallet'.yt = wallet.yt + py
    BY <1>1, <1>3 DEF TypeOK
<1>6. EscrowInSync'
    BY <1>1, <1>3, <1>4, <1>5, BalancesNat, VaultAssumptions DEF IInv, EscrowInSync
<1>7. PySupply'
    BY <1>1, <1>3, <1>4, <1>5, BalancesNat DEF IInv, PySupply
<1>8. NoPtBeforeStart'
    BY <1>1, <1>4, BalancesNat, VaultAssumptions DEF NoPtBeforeStart, IsActive
<1> QED BY <1>1, <1>2, <1>6, <1>7, <1>8, StripType DEF IInv

(* Merging preserves the invariant.                                        *)
LEMMA MergeInv ==
    ASSUME IInv, NEW n \in Amounts, Merge(n)
    PROVE  IInv'
<1> DEFINE burned == BurnedYt(n)
<1>1. TypeOK /\ RateOrder /\ n \in Nat
    BY VaultAssumptions DEF IInv
<1>2. RateOrder' /\ ZeroRateNeverRecorded'
    BY <1>1, MergeEffect, RatesAfterSync
<1>3. PICK out \in Nat :
        /\ vault'.total = vault.total - out
        /\ vault'.pts = vault.pts - n
        /\ wallet' = [wallet EXCEPT !.sy = @ + out, !.pt = @ - n, !.yt = @ - burned]
        /\ pos'[Robot].yt = pos[Robot].yt - burned
        /\ sy'.position = sy.position - out
    BY <1>1, MergeEffect
<1>4. n > 0 /\ wallet.pt >= n /\ UNCHANGED <<now, escrowYt, treasuryTokens>>
    BY <1>1, MergeEffect
<1>5. burned \in Nat /\ (IsActive => burned = n)
    BY <1>1 DEF BurnedYt
<1> HIDE DEF burned
<1>6. wallet'.sy = wallet.sy + out /\ wallet'.pt = wallet.pt - n
      /\ wallet'.yt = wallet.yt - burned
    BY <1>1, <1>3 DEF TypeOK
<1>7. EscrowInSync'
    BY <1>1, <1>3, <1>4, <1>6, BalancesNat, VaultAssumptions DEF IInv, EscrowInSync
<1>8. now >= StartTs
    BY <1>1, <1>4, BalancesNat, VaultAssumptions DEF IInv, NoPtBeforeStart
<1>9. PySupply'
    <2>1. now <= StartTs + Duration => burned = n
        BY <1>1, <1>5, <1>8, BalancesNat, VaultAssumptions DEF IsActive, IsExpired
    <2> QED BY <1>1, <1>3, <1>4, <1>5, <1>6, <2>1, BalancesNat DEF IInv, PySupply
<1>10. NoPtBeforeStart'
    BY <1>1, <1>4, <1>8, BalancesNat, VaultAssumptions DEF NoPtBeforeStart
<1> QED BY <1>1, <1>2, <1>7, <1>9, <1>10, MergeType DEF IInv

(* Staging yield preserves the invariant.                                  *)
LEMMA StageYieldInv ==
    ASSUME IInv, NEW u \in Users, StageYield(u)
    PROVE  IInv'
<1>1. TypeOK /\ RateOrder
    BY DEF IInv
<1>2. RateOrder' /\ ZeroRateNeverRecorded'
    BY <1>1, StageYieldEffect, RatesAfterSync
<1>3. EscrowInSync' /\ PySupply' /\ NoPtBeforeStart'
    BY <1>1, StageYieldEffect, BalancesKept
<1> QED BY <1>1, <1>2, <1>3, StageYieldType DEF IInv

(* Staking YT preserves the invariant.                                     *)
LEMMA DepositYtInv ==
    ASSUME IInv, NEW u \in Users, NEW n \in Amounts, DepositYt(u, n)
    PROVE  IInv'
<1>1. TypeOK /\ RateOrder /\ n \in Nat /\ CanSync /\ IsActive
      /\ SyncedRobot.yt >= n
    BY VaultAssumptions DEF IInv, DepositYt
<1>2. SyncedRobot.yt - n \in Nat /\ SettledPosition(u).yt + n \in Nat
    BY <1>1, SyncedTypes, SettledTypes DEF PositionRecord
<1>3. /\ vault' = SetSyForPt(SettledVault(u)) /\ pos' = StakeMoved(u, n)
      /\ wallet' = [wallet EXCEPT !.yt = @ - n]
      /\ escrowYt' = escrowYt + n
      /\ UNCHANGED <<now, sy, treasuryTokens>>
    BY DEF DepositYt
<1>4. /\ TakesOverRate
      /\ vault'.total = vault.total /\ vault'.pts = vault.pts
      /\ pos'[Robot].yt = pos[Robot].yt - n
    BY <1>1, <1>2, <1>3, StakeEffect
<1>5. RateOrder' /\ ZeroRateNeverRecorded'
    BY <1>1, <1>4, RatesAfterSync
<1>6. wallet'.sy = wallet.sy /\ wallet'.pt = wallet.pt /\ wallet'.yt = wallet.yt - n
    BY <1>1, <1>3 DEF TypeOK
<1>7. EscrowInSync' /\ PySupply' /\ NoPtBeforeStart'
    BY <1>1, <1>3, <1>4, <1>6, BalancesNat
       DEF IInv, EscrowInSync, PySupply, NoPtBeforeStart
<1> QED BY <1>1, <1>5, <1>7, DepositYtType DEF IInv

(* Unstaking YT preserves the invariant.                                   *)
LEMMA WithdrawYtInv ==
    ASSUME IInv, NEW u \in Users, NEW n \in Amounts, WithdrawYt(u, n)
    PROVE  IInv'
<1>1. TypeOK /\ RateOrder /\ n \in Nat /\ -n \in Int /\ CanSync /\ IsActive
      /\ SettledPosition(u).yt >= n
    BY VaultAssumptions DEF IInv, WithdrawYt
<1>2. SyncedRobot.yt - (-n) \in Nat /\ SettledPosition(u).yt + (-n) \in Nat
    BY <1>1, SyncedTypes, SettledTypes DEF PositionRecord
<1>3. /\ vault' = SetSyForPt(SettledVault(u)) /\ pos' = StakeMoved(u, -n)
      /\ wallet' = [wallet EXCEPT !.yt = @ + n]
      /\ escrowYt' = escrowYt - n
      /\ UNCHANGED <<now, sy, treasuryTokens>>
    BY DEF WithdrawYt
<1>4. /\ TakesOverRate
      /\ vault'.total = vault.total /\ vault'.pts = vault.pts
      /\ pos'[Robot].yt = pos[Robot].yt - (-n)
    BY <1>1, <1>2, <1>3, StakeEffect
<1>5. RateOrder' /\ ZeroRateNeverRecorded'
    BY <1>1, <1>4, RatesAfterSync
<1>6. wallet'.sy = wallet.sy /\ wallet'.pt = wallet.pt /\ wallet'.yt = wallet.yt + n
    BY <1>1, <1>3 DEF TypeOK
<1>7. EscrowInSync' /\ PySupply' /\ NoPtBeforeStart'
    BY <1>1, <1>3, <1>4, <1>6, BalancesNat
       DEF IInv, EscrowInSync, PySupply, NoPtBeforeStart
<1> QED BY <1>1, <1>5, <1>7, WithdrawYtType DEF IInv

(* Collecting interest pays out SY and leaves the rates.                   *)
LEMMA CollectInterestInv ==
    ASSUME IInv, NEW u \in Users, NEW n \in Nat, CollectInterest(u, n)
    PROVE  IInv'
<1> DEFINE v == EarnVault(vault, pos[u])
           p == EarnPosition(vault, pos[u])
           fee == FeeCeil(n, settings.feeBps)
           paid == [p EXCEPT !.staged = @ - n]
<1>1. TypeOK /\ u \in Positions /\ vault \in VaultRecord /\ pos[u] \in PositionRecord
      /\ u # Robot /\ Robot \in Positions
    BY VaultAssumptions DEF IInv, TypeOK, Positions
<1>2. /\ v.total >= n /\ v.uncollected >= n
      /\ vault' = InterestPaid(v, n)
      /\ pos' = [pos EXCEPT ![u] = paid]
      /\ sy' = [sy EXCEPT !.position = @ - n]
      /\ wallet' = [wallet EXCEPT !.sy = @ + n - fee]
      /\ treasuryTokens' = treasuryTokens + fee
      /\ UNCHANGED <<now, escrowYt>>
    BY SMTT(60) DEF CollectInterest
<1>3. fee \in Nat
    BY <1>1, InterestFee
<1>4. /\ v \in VaultRecord
      /\ v.last = vault.last /\ v.ath = vault.ath /\ v.final = vault.final
      /\ v.total = vault.total /\ v.pts = vault.pts
      /\ p \in PositionRecord
      /\ p.index \in {pos[u].index, vault.final}
    <2>1. /\ v \in VaultRecord
          /\ v = [vault EXCEPT !.uncollected = @ + SyInterest(vault, pos[u])]
          /\ p \in PositionRecord
          /\ p.index \in {pos[u].index, vault.final}
        BY <1>1, EarnTypes
    <2> HIDE DEF v, p
    <2> QED BY <1>1, <2>1 DEF VaultRecord
<1> HIDE DEF v, p, fee
<1>5. paid.index \in {pos[u].index, vault.final}
    BY <1>4 DEF PositionRecord
<1> HIDE DEF paid
<1>6. /\ vault'.last = vault.last /\ vault'.ath = vault.ath
      /\ vault'.final = vault.final
      /\ vault'.total = vault.total - n /\ vault'.pts = vault.pts
    BY <1>2, <1>4, InterestPaidType
<1>7. /\ pos'[u] = paid
      /\ \A q \in Positions \ {u} : pos'[q] = pos[q]
    BY <1>1, <1>2 DEF TypeOK
<1>8. RateOrder' /\ ZeroRateNeverRecorded'
    BY <1>5, <1>6, <1>7 DEF IInv, RateOrder, ZeroRateNeverRecorded
<1>9. /\ wallet'.sy = wallet.sy + n - fee
      /\ wallet'.pt = wallet.pt /\ wallet'.yt = wallet.yt
      /\ sy'.position = sy.position - n
    BY <1>1, <1>2 DEF TypeOK, SyRecord
<1>10. pos'[Robot].yt = pos[Robot].yt
    BY <1>1, <1>7
<1>11. EscrowInSync'
    BY <1>1, <1>2, <1>3, <1>6, <1>9, BalancesNat DEF IInv, EscrowInSync
<1>12. PySupply' /\ NoPtBeforeStart'
    BY <1>2, <1>6, <1>9, <1>10 DEF IInv, PySupply, NoPtBeforeStart
<1> QED BY <1>1, <1>8, <1>11, <1>12, CollectInterestType DEF IInv

(* Collecting the robot's interest preserves the invariant.                *)
LEMMA CollectRobotInterestInv ==
    ASSUME IInv, NEW n \in Nat, CollectRobotInterest(n)
    PROVE  IInv'
<1>1. TypeOK /\ vault \in VaultRecord /\ Robot \in Positions
    BY DEF IInv, TypeOK, Positions
<1>2. /\ vault'.last = vault.last /\ vault'.ath = vault.ath
      /\ vault'.final = vault.final
      /\ vault'.total = vault.total - n /\ vault'.pts = vault.pts
    BY <1>1, InterestPaidType DEF CollectRobotInterest
<1>3. \A p \in Positions : pos'[p].index = pos[p].index /\ pos'[p].yt = pos[p].yt
    BY <1>1 DEF TypeOK, PositionRecord, CollectRobotInterest
<1>4. RateOrder' /\ ZeroRateNeverRecorded'
    BY <1>2, <1>3, RatesKept
<1>5. /\ sy'.position = sy.position - n
      /\ treasuryTokens' = treasuryTokens + n
      /\ UNCHANGED <<now, wallet, escrowYt>>
    BY <1>1 DEF TypeOK, SyRecord, CollectRobotInterest
<1>6. EscrowInSync' /\ PySupply' /\ NoPtBeforeStart'
    BY <1>1, <1>2, <1>3, <1>5, BalancesNat
       DEF IInv, EscrowInSync, PySupply, NoPtBeforeStart
<1> QED BY <1>1, <1>4, <1>6, CollectRobotInterestType DEF IInv

(* Collecting treasury SY preserves the invariant.                         *)
LEMMA CollectTreasurySyInv ==
    ASSUME IInv, NEW n \in Nat, CollectTreasurySy(n)
    PROVE  IInv'
<1>1. TypeOK /\ vault \in VaultRecord
    BY DEF IInv, TypeOK
<1>2. /\ vault'.last = vault.last /\ vault'.ath = vault.ath
      /\ vault'.final = vault.final
      /\ vault'.total = vault.total - n /\ vault'.pts = vault.pts
    BY <1>1 DEF VaultRecord, CollectTreasurySy
<1>3. RateOrder' /\ ZeroRateNeverRecorded'
    BY <1>2, RatesKept DEF CollectTreasurySy
<1>4. /\ sy'.position = sy.position - n
      /\ treasuryTokens' = treasuryTokens + n
      /\ UNCHANGED <<now, pos, wallet, escrowYt>>
    BY <1>1 DEF TypeOK, SyRecord, CollectTreasurySy
<1>5. EscrowInSync' /\ PySupply' /\ NoPtBeforeStart'
    BY <1>1, <1>2, <1>4, BalancesNat
       DEF IInv, EscrowInSync, PySupply, NoPtBeforeStart
<1> QED BY <1>1, <1>3, <1>5, CollectTreasurySyType DEF IInv

(* The initial state satisfies the invariant.                              *)
LEMMA InitInv == Init => IInv
<1> SUFFICES ASSUME Init PROVE IInv
    OBVIOUS
<1>1. TypeOK
    BY InitType
<1>2. RateOrder /\ ZeroRateNeverRecorded
    BY DEF Init, RateOrder, ZeroRateNeverRecorded, NoVault, NoPosition
<1>3. EscrowInSync
    <2>1. sy.position = 0 /\ vault.total = 0 /\ wallet.sy = InitialSy
          /\ treasuryTokens = 0
        BY DEF Init, NoVault
    <2> QED BY <2>1, VaultAssumptions DEF EscrowInSync
<1>4. PySupply /\ NoPtBeforeStart
    BY DEF Init, PySupply, NoPtBeforeStart, NoVault, NoPosition, Positions
<1> QED BY <1>1, <1>2, <1>3, <1>4 DEF IInv

(* The clock and the environment only: no vault field moves.               *)
LEMMA EnvironmentInv ==
    ASSUME IInv,
           Tick \/ SyRateMoves \/ SyEmissionAccrues \/ ModifyVaultSetting
                \/ ChangeClaimLimits
    PROVE  IInv'
<1>1. TypeOK /\ TypeOK'
    BY EnvironmentType DEF IInv
<1>2. UNCHANGED <<vault, pos, wallet, escrowYt, treasuryTokens>>
    BY DEF Tick, SyRateMoves, SyEmissionAccrues, ModifyVaultSetting,
           ChangeClaimLimits
<1>3. sy'.position = sy.position
    BY <1>1 DEF Tick, SyRateMoves, SyEmissionAccrues, ModifyVaultSetting,
                ChangeClaimLimits, TypeOK, SyRecord
<1>4. now' = now \/ now' = now + 1
    BY DEF Tick, SyRateMoves, SyEmissionAccrues, ModifyVaultSetting,
           ChangeClaimLimits
<1>5. RateOrder' /\ ZeroRateNeverRecorded'
    BY <1>2, RatesKept
<1>6. EscrowInSync' /\ PySupply' /\ NoPtBeforeStart'
    BY <1>1, <1>2, <1>3, <1>4, BalancesNat, VaultAssumptions
       DEF IInv, EscrowInSync, PySupply, NoPtBeforeStart
<1> QED BY <1>1, <1>5, <1>6 DEF IInv

(* Collecting emissions touches no vault field the invariant relates.      *)
LEMMA EmissionInv ==
    ASSUME IInv, TypeOK', sy'.position = sy.position,
           UNCHANGED <<now, vault, pos, wallet, escrowYt, treasuryTokens>>
    PROVE  IInv'
<1>1. RateOrder' /\ ZeroRateNeverRecorded'
    BY RatesKept
<1>2. EscrowInSync' /\ PySupply' /\ NoPtBeforeStart'
    BY BalancesKept
<1> QED BY <1>1, <1>2 DEF IInv

(* Every step preserves the invariant.                                     *)
LEMMA NextInv == IInv /\ [Next]_vars => IInv'
<1> SUFFICES ASSUME IInv, [Next]_vars PROVE IInv'
    OBVIOUS
<1>0. TypeOK /\ TypeOK'
    BY NextType DEF IInv
<1>1. CASE UNCHANGED vars
    BY <1>0, <1>1, EmissionInv DEF vars
<1>2. CASE Tick \/ SyRateMoves \/ SyEmissionAccrues \/ ModifyVaultSetting
                \/ ChangeClaimLimits
    BY <1>2, EnvironmentInv
<1>3. ASSUME NEW n \in Amounts, Strip(n) PROVE IInv'
    BY <1>3, StripInv
<1>4. ASSUME NEW n \in Amounts, Merge(n) PROVE IInv'
    BY <1>4, MergeInv
<1>5. ASSUME NEW u \in Users, StageYield(u) PROVE IInv'
    BY <1>5, StageYieldInv
<1>6. ASSUME NEW u \in Users, NEW n \in Amounts, DepositYt(u, n) PROVE IInv'
    BY <1>6, DepositYtInv
<1>7. ASSUME NEW u \in Users, NEW n \in Amounts, WithdrawYt(u, n) PROVE IInv'
    BY <1>7, WithdrawYtInv
<1>8. ASSUME NEW u \in Users, NEW n \in Requests(pos[u].staged),
             CollectInterest(u, n)
      PROVE  IInv'
    <2>1. n \in Nat
        BY <1>0, RequestsNat DEF TypeOK, Positions, PositionRecord
    <2> QED BY <1>8, <2>1, CollectInterestInv
<1>9. ASSUME NEW u \in Users, NEW i \in EmissionIds,
             NEW n \in Requests(trackers[u][i].staged), CollectEmission(u, i, n)
      PROVE  IInv'
    BY <1>0, <1>9, EmissionInv DEF CollectEmission, TypeOK, SyRecord
<1>10. ASSUME NEW n \in Requests(pos[Robot].staged), CollectRobotInterest(n)
       PROVE  IInv'
    <2>1. n \in Nat
        BY <1>0, RequestsNat DEF TypeOK, Positions, PositionRecord
    <2> QED BY <1>10, <2>1, CollectRobotInterestInv
<1>11. ASSUME NEW n \in Requests(vault.treasury), CollectTreasurySy(n)
       PROVE  IInv'
    <2>1. n \in Nat
        BY <1>0, RequestsNat DEF TypeOK, VaultRecord
    <2> QED BY <1>11, <2>1, CollectTreasurySyInv
<1>12. ASSUME NEW i \in EmissionIds, NEW n \in Requests(trackers[Robot][i].staged),
              CollectRobotEmission(i, n)
       PROVE  IInv'
    BY <1>0, <1>12, EmissionInv DEF CollectRobotEmission, TypeOK, SyRecord
<1>13. ASSUME NEW i \in EmissionIds, NEW n \in Requests(emissions[i].treasury),
              CollectTreasuryEmission(i, n)
       PROVE  IInv'
    BY <1>0, <1>13, EmissionInv DEF CollectTreasuryEmission, TypeOK, SyRecord
<1> QED BY <1>1, <1>2, <1>3, <1>4, <1>5, <1>6, <1>7, <1>8, <1>9, <1>10,
           <1>11, <1>12, <1>13 DEF Next

(* The invariant holds in every reachable state.                           *)
THEOREM InvariantHolds == Spec => []IInv
    BY InitInv, NextInv, PTL DEF Spec

(* Whatever rates the SY program reports, the all-time high bounds every   *)
(* rate the vault settles at.                                              *)
THEOREM RatesOrdered == Spec => []RateOrder
<1>1. IInv => RateOrder
    BY DEF IInv
<1> QED BY <1>1, InvariantHolds, PTL

(* The vault never records a zero rate, from which it could not recover.   *)
THEOREM PositiveRates == Spec => []ZeroRateNeverRecorded
<1>1. IInv => ZeroRateNeverRecorded
    BY DEF IInv
<1> QED BY <1>1, InvariantHolds, PTL

(* The vault's books agree with the SY program's, and SY is conserved.     *)
THEOREM SyConserved == Spec => []EscrowInSync
<1>1. IInv => EscrowInSync
    BY DEF IInv
<1> QED BY <1>1, InvariantHolds, PTL

(* PT and YT exist in the amounts the accounts state, in equal amounts     *)
(* until maturity.                                                         *)
THEOREM PyConserved == Spec => []PySupply
<1>1. IInv => PySupply
    BY DEF IInv
<1> QED BY <1>1, InvariantHolds, PTL

-----------------------------------------------------------------------------
(* What no step does.                                                      *)

(* The high-water mark and the freeze at maturity, as one step sees them.  *)
RateStep ==
    /\ vault'.ath >= vault.ath
    /\ IsExpired => vault'.final = vault.final

EmissionsFrozen ==
    IsExpired => \A i \in EmissionIds : emissions'[i].final = emissions[i].final

(* A step that takes over a rate respects both.                            *)
LEMMA SyncRateStep ==
    ASSUME TypeOK, TakesOverRate
    PROVE  RateStep
<1>1. vault.ath \in Nat /\ sy.rate \in Nat
    BY DEF TypeOK, VaultRecord, SyRecord
<1>2. IsExpired => ~IsActive
    BY DEF IsActive
<1> QED BY <1>1, <1>2 DEF TakesOverRate, RateStep, Larger

(* So does one that leaves the rates alone.                                *)
LEMMA KeptRateStep ==
    ASSUME TypeOK, vault'.ath = vault.ath, vault'.final = vault.final
    PROVE  RateStep
<1>1. vault.ath \in Nat
    BY DEF TypeOK, VaultRecord
<1> QED BY <1>1 DEF RateStep

(* Synchronised emission indexes are frozen at maturity.                   *)
LEMMA SyncedEmissionsFrozen ==
    ASSUME TypeOK, emissions' = SyncedEmissions \/ emissions' = emissions
    PROVE  EmissionsFrozen
<1>1. IsExpired => ~IsActive
    BY DEF IsActive
<1>2. CASE emissions' = SyncedEmissions
    BY <1>1, <1>2 DEF SyncedEmissions, EmissionsFrozen
<1>3. CASE emissions' = emissions
    BY <1>3 DEF EmissionsFrozen
<1> QED BY <1>2, <1>3

(* Paying out interest leaves the rates.                                   *)
LEMMA CollectInterestRates ==
    ASSUME TypeOK, NEW u \in Users, NEW n \in Nat, CollectInterest(u, n)
    PROVE  vault'.ath = vault.ath /\ vault'.final = vault.final
<1> DEFINE v == EarnVault(vault, pos[u])
<1>1. vault \in VaultRecord /\ pos[u] \in PositionRecord
    BY DEF TypeOK, Positions
<1>2. v.total >= n /\ v.uncollected >= n /\ vault' = InterestPaid(v, n)
    BY DEF CollectInterest
<1>3. v \in VaultRecord
      /\ v = [vault EXCEPT !.uncollected = @ + SyInterest(vault, pos[u])]
    BY <1>1, EarnTypes
<1> HIDE DEF v
<1>4. v.ath = vault.ath /\ v.final = vault.final
    BY <1>1, <1>3 DEF VaultRecord
<1> QED BY <1>2, <1>3, <1>4, InterestPaidType

(* Every step respects the high-water mark and the freeze.                 *)
LEMMA NextRates == TypeOK /\ [Next]_vars => RateStep /\ EmissionsFrozen
<1> SUFFICES ASSUME TypeOK, [Next]_vars PROVE RateStep /\ EmissionsFrozen
    OBVIOUS
<1>1. CASE UNCHANGED vars
    BY <1>1, KeptRateStep, SyncedEmissionsFrozen DEF vars
<1>2. CASE Tick \/ SyRateMoves \/ SyEmissionAccrues \/ ModifyVaultSetting
                \/ ChangeClaimLimits
    BY <1>2, KeptRateStep, SyncedEmissionsFrozen
       DEF Tick, SyRateMoves, SyEmissionAccrues, ModifyVaultSetting, ChangeClaimLimits
<1>3. ASSUME NEW n \in Amounts, Strip(n) PROVE RateStep /\ EmissionsFrozen
    BY <1>3, StripEffect, SyncRateStep, SyncedEmissionsFrozen DEF Strip
<1>4. ASSUME NEW n \in Amounts, Merge(n) PROVE RateStep /\ EmissionsFrozen
    BY <1>4, MergeEffect, SyncRateStep, SyncedEmissionsFrozen DEF Merge
<1>5. ASSUME NEW u \in Users, StageYield(u) PROVE RateStep /\ EmissionsFrozen
    BY <1>5, StageYieldEffect, SyncRateStep, SyncedEmissionsFrozen DEF StageYield
<1>6. ASSUME NEW u \in Users, NEW n \in Amounts, DepositYt(u, n) \/ WithdrawYt(u, n)
      PROVE  RateStep /\ EmissionsFrozen
    <2>1. CanSync /\ vault' = SetSyForPt(SettledVault(u))
          /\ emissions' = SyncedEmissions
        BY <1>6 DEF DepositYt, WithdrawYt
    <2>2. vault'.ath = Larger(sy.rate, vault.ath)
          /\ vault'.final = IF IsActive THEN sy.rate ELSE vault.final
        BY <2>1, SettledVaultFields
    <2>3. vault.ath \in Nat /\ sy.rate \in Nat
        BY DEF TypeOK, VaultRecord, SyRecord
    <2>4. IsExpired => ~IsActive
        BY DEF IsActive
    <2>5. RateStep
        BY <2>2, <2>3, <2>4 DEF RateStep, Larger
    <2> QED BY <2>1, <2>5, SyncedEmissionsFrozen
<1>7. ASSUME NEW u \in Users, NEW n \in Requests(pos[u].staged),
             CollectInterest(u, n)
      PROVE  RateStep /\ EmissionsFrozen
    <2>1. n \in Nat
        BY RequestsNat DEF TypeOK, Positions, PositionRecord
    <2>2. emissions' = emissions
        BY <1>7 DEF CollectInterest
    <2> QED BY <1>7, <2>1, <2>2, CollectInterestRates, KeptRateStep,
               SyncedEmissionsFrozen
<1>8. ASSUME NEW n \in Requests(pos[Robot].staged), CollectRobotInterest(n)
      PROVE  RateStep /\ EmissionsFrozen
    <2>1. n \in Nat /\ vault \in VaultRecord
        BY RequestsNat DEF TypeOK, Positions, PositionRecord
    <2>2. vault'.ath = vault.ath /\ vault'.final = vault.final
        BY <1>8, <2>1, InterestPaidType DEF CollectRobotInterest
    <2> QED BY <1>8, <2>2, KeptRateStep, SyncedEmissionsFrozen
               DEF CollectRobotInterest
<1>9. ASSUME NEW n \in Requests(vault.treasury), CollectTreasurySy(n)
      PROVE  RateStep /\ EmissionsFrozen
    <2>1. vault'.ath = vault.ath /\ vault'.final = vault.final
        BY <1>9 DEF CollectTreasurySy, TypeOK, VaultRecord
    <2> QED BY <1>9, <2>1, KeptRateStep, SyncedEmissionsFrozen
               DEF CollectTreasurySy
<1>10. ASSUME NEW u \in Users, NEW i \in EmissionIds,
              NEW n \in Requests(trackers[u][i].staged), CollectEmission(u, i, n)
       PROVE  RateStep /\ EmissionsFrozen
    BY <1>10, KeptRateStep, SyncedEmissionsFrozen DEF CollectEmission
<1>11. ASSUME NEW i \in EmissionIds, NEW n \in Requests(trackers[Robot][i].staged),
              CollectRobotEmission(i, n)
       PROVE  RateStep /\ EmissionsFrozen
    BY <1>11, KeptRateStep, SyncedEmissionsFrozen DEF CollectRobotEmission
<1>12. ASSUME NEW i \in EmissionIds, NEW n \in Requests(emissions[i].treasury),
              CollectTreasuryEmission(i, n)
       PROVE  RateStep /\ EmissionsFrozen
    <2>1. \A j \in EmissionIds : emissions'[j].final = emissions[j].final
        BY <1>12 DEF CollectTreasuryEmission, TypeOK, EmissionRecord
    <2> QED BY <1>12, <2>1, KeptRateStep DEF CollectTreasuryEmission, EmissionsFrozen
<1> QED BY <1>1, <1>2, <1>3, <1>4, <1>5, <1>6, <1>7, <1>8, <1>9, <1>10,
           <1>11, <1>12 DEF Next

(* I-V3: the all-time high never decreases.                                *)
THEOREM HighWater == Spec => HighWaterMark
<1>1. TypeOK /\ [Next]_vars => [vault'.ath >= vault.ath]_vars
    BY NextRates DEF RateStep
<1> QED BY <1>1, TypeCorrect, PTL DEF Spec, HighWaterMark

(* I-V4: the final rate, and the emission indexes positions settle at, are *)
(* frozen at maturity.                                                     *)
THEOREM Frozen == Spec => FrozenAtMaturity
<1>1. TypeOK /\ [Next]_vars =>
        [IsExpired => /\ vault'.final = vault.final
                      /\ \A i \in EmissionIds :
                              emissions'[i].final = emissions[i].final]_vars
    BY NextRates DEF RateStep, EmissionsFrozen
<1> QED BY <1>1, TypeCorrect, PTL DEF Spec, FrozenAtMaturity

-----------------------------------------------------------------------------
(* The books.                                                              *)

(* Outside an emergency the robot is settled up to the final rate.         *)
RobotFollows == ~EmergencyMode(vault) => pos[Robot].index = vault.final

(* Before the start no rate has been taken over.                           *)
NoRateBeforeStart == now < StartTs => vault.final = 0

(* The order of settlement.                                                *)
SettledInOrder == RobotFollows /\ NoRateBeforeStart /\ NoIntervalEarnedTwice

(* The inductive invariant of the books.                                   *)
BooksInv ==
    /\ IInv
    /\ StakedYtEscrowed
    /\ UncollectedIsStaged
    /\ ClaimsCapped
    /\ SettledInOrder

-----------------------------------------------------------------------------
(* Sums.                                                                   *)

(* Changing one value changes the sum by as much.                          *)
LEMMA OneMoves ==
    ASSUME NEW S, IsFiniteSet(S), NEW x \in S, NEW f \in [S -> Nat],
           NEW g \in [S -> Nat], NEW d \in Int, g[x] = f[x] + d,
           \A y \in S \ {x} : g[y] = f[y]
    PROVE  Total(S, g) = Total(S, f) + d
<1>1. Total(S, f) \in Nat /\ Total(S, g) \in Nat
    BY TotalNat
<1>2. Total(S, g) + f[x] = Total(S, f) + g[x]
    BY TotalUpdate
<1>3. f[x] \in Nat /\ g[x] = f[x] + d /\ d \in Int
    OBVIOUS
<1>4. PICK k \in Nat : k = f[x]
    BY <1>3
<1>5. Total(S, g) + k = Total(S, f) + (k + d)
    BY <1>2, <1>3, <1>4
<1> QED BY ONLY <1>1, <1>3, <1>4, <1>5

(* Changing two values changes the sum by both.                            *)
LEMMA TwoMove ==
    ASSUME NEW S, IsFiniteSet(S), NEW x \in S, NEW y \in S, x # y,
           NEW f \in [S -> Nat], NEW g \in [S -> Nat], NEW a \in Int, NEW b \in Int,
           g[x] = f[x] + a, g[y] = f[y] + b,
           \A z \in S \ {x, y} : g[z] = f[z]
    PROVE  Total(S, g) = Total(S, f) + a + b
<1> DEFINE h == [z \in S |-> IF z = x THEN g[x] ELSE f[z]]
<1>1. h \in [S -> Nat] /\ h[x] = f[x] + a /\ \A z \in S \ {x} : h[z] = f[z]
    OBVIOUS
<1>2. g[y] = h[y] + b /\ \A z \in S \ {y} : g[z] = h[z]
    OBVIOUS
<1> HIDE DEF h
<1>3. Total(S, h) = Total(S, f) + a
    BY <1>1, OneMoves
<1>4. Total(S, g) = Total(S, h) + b
    BY <1>1, <1>2, OneMoves
<1>5. Total(S, f) \in Nat
    BY TotalNat
<1> QED BY <1>3, <1>4, <1>5

(* The owners of positions are finitely many.                              *)
LEMMA PositionsFinite ==
    /\ IsFiniteSet(Users)
    /\ IsFiniteSet(Positions)
    /\ Robot \in Positions
    /\ Users \subseteq Positions
    /\ \A u \in Users : u # Robot
<1>1. IsFiniteSet(Users) /\ Robot \notin Users
    BY VaultAssumptions
<1>2. IsFiniteSet(Users \cup {Robot})
    BY <1>1, FS_AddElement
<1> QED BY <1>1, <1>2 DEF Positions

(* The parts of a position that are summed up.                             *)
LEMMA PositionNumbers ==
    ASSUME TypeOK, NEW p \in Positions
    PROVE  /\ pos[p] \in PositionRecord
           /\ pos[p].yt \in Nat /\ pos[p].staged \in Nat /\ pos[p].index \in Nat
    BY DEF TypeOK, PositionRecord

(* Interest staged in, or paid from, one position is booked for the vault. *)
LEMMA StagedInOne ==
    ASSUME TypeOK, TypeOK', UncollectedIsStaged, NEW p \in Positions, NEW d \in Int,
           pos'[p].staged = pos[p].staged + d,
           \A q \in Positions \ {p} : pos'[q].staged = pos[q].staged,
           vault'.uncollected = vault.uncollected + d
    PROVE  UncollectedIsStaged'
<1> DEFINE f == [q \in Positions |-> pos[q].staged]
           g == [q \in Positions |-> pos'[q].staged]
<1>1. f \in [Positions -> Nat] /\ g \in [Positions -> Nat]
    BY DEF TypeOK, PositionRecord
<1>2. g[p] = f[p] + d /\ \A q \in Positions \ {p} : g[q] = f[q]
    OBVIOUS
<1>3. Total(Positions, f) = vault.uncollected
    BY DEF UncollectedIsStaged
<1> HIDE DEF f, g
<1>4. Total(Positions, g) = Total(Positions, f) + d
    BY <1>1, <1>2, OneMoves, PositionsFinite
<1>5. Total(Positions, g) = vault'.uncollected
    BY <1>3, <1>4
<1> QED BY <1>5 DEF UncollectedIsStaged, g

(* The same for the robot and a user in one instruction.                   *)
LEMMA StagedInTwo ==
    ASSUME TypeOK, TypeOK', UncollectedIsStaged, NEW u \in Users,
           NEW a \in Int, NEW b \in Int,
           pos'[Robot].staged = pos[Robot].staged + a,
           pos'[u].staged = pos[u].staged + b,
           \A q \in Positions \ {u, Robot} : pos'[q] = pos[q],
           vault'.uncollected = vault.uncollected + a + b
    PROVE  UncollectedIsStaged'
<1> DEFINE f == [q \in Positions |-> pos[q].staged]
           g == [q \in Positions |-> pos'[q].staged]
<1>1. f \in [Positions -> Nat] /\ g \in [Positions -> Nat]
    BY DEF TypeOK, PositionRecord
<1>2. g[Robot] = f[Robot] + a /\ g[u] = f[u] + b
      /\ \A q \in Positions \ {Robot, u} : g[q] = f[q]
    BY PositionsFinite
<1>3. Total(Positions, f) = vault.uncollected
    BY DEF UncollectedIsStaged
<1> HIDE DEF f, g
<1>4. Total(Positions, g) = Total(Positions, f) + a + b
    BY <1>1, <1>2, TwoMove, PositionsFinite
<1>5. Total(Positions, g) = vault'.uncollected
    BY <1>3, <1>4
<1> QED BY <1>5 DEF UncollectedIsStaged, g

(* YT that enters or leaves a user's position enters or leaves the escrow. *)
LEMMA YtMoves ==
    ASSUME TypeOK, TypeOK', StakedYtEscrowed, NEW u \in Users, NEW d \in Int,
           pos'[u].yt = pos[u].yt + d,
           \A q \in Users \ {u} : pos'[q].yt = pos[q].yt,
           escrowYt' = escrowYt + d
    PROVE  StakedYtEscrowed'
<1> DEFINE f == [q \in Users |-> pos[q].yt]
           g == [q \in Users |-> pos'[q].yt]
<1>1. f \in [Users -> Nat] /\ g \in [Users -> Nat]
    BY PositionsFinite DEF TypeOK, PositionRecord
<1>2. g[u] = f[u] + d /\ \A q \in Users \ {u} : g[q] = f[q]
    OBVIOUS
<1>3. Total(Users, f) = escrowYt
    BY DEF StakedYtEscrowed
<1> HIDE DEF f, g
<1>4. Total(Users, g) = Total(Users, f) + d
    BY <1>1, <1>2, OneMoves, PositionsFinite
<1>5. Total(Users, g) = escrowYt'
    BY <1>3, <1>4
<1> QED BY <1>5 DEF StakedYtEscrowed, g

(* Steps that leave the staked YT alone.                                   *)
LEMMA YtKept ==
    ASSUME StakedYtEscrowed, \A q \in Users : pos'[q].yt = pos[q].yt,
           escrowYt' = escrowYt
    PROVE  StakedYtEscrowed'
<1> DEFINE f == [q \in Users |-> pos[q].yt]
           g == [q \in Users |-> pos'[q].yt]
<1>1. f = g
    OBVIOUS
<1>2. Total(Users, f) = escrowYt
    BY DEF StakedYtEscrowed
<1> HIDE DEF f, g
<1>3. Total(Users, g) = escrowYt'
    BY <1>1, <1>2
<1> QED BY <1>3 DEF StakedYtEscrowed, g

-----------------------------------------------------------------------------
(* What synchronising and settling add to the books.                       *)

(* The vault's own position settles with the update of the vault.          *)
LEMMA SyncedBooks ==
    ASSUME TypeOK, CanSync
    PROVE  \E d \in Nat :
             /\ SyncedVault.uncollected = vault.uncollected + d
             /\ SyncedRobot.staged = pos[Robot].staged + d
             /\ SyncedRobot.index = IF EmergencyMode(SyncedVault)
                                    THEN pos[Robot].index ELSE SyncedVault.final
<1>1. pos[Robot] \in PositionRecord
    BY PositionNumbers, PositionsFinite
<1>2. UpdatedVault \in VaultRecord /\ UpdatedVault.uncollected = vault.uncollected
    BY UpdatedVaultFields
<1> DEFINE d == SyInterest(UpdatedVault, pos[Robot])
<1>3. /\ d \in Nat
      /\ SyncedVault = [UpdatedVault EXCEPT !.uncollected = @ + d]
      /\ SyncedRobot.staged = pos[Robot].staged + d
    BY <1>1, <1>2, EarnTypes DEF SyncedVault, SyncedRobot
<1>4. SyncedRobot.index = IF EmergencyMode(UpdatedVault) THEN pos[Robot].index
                          ELSE UpdatedVault.final
    BY <1>1 DEF SyncedRobot, EarnPosition, PositionRecord
<1> HIDE DEF d
<1>5. /\ SyncedVault.uncollected = vault.uncollected + d
      /\ SyncedVault.last = UpdatedVault.last
      /\ SyncedVault.ath = UpdatedVault.ath
      /\ SyncedVault.final = UpdatedVault.final
    BY <1>2, <1>3 DEF VaultRecord
<1> QED BY <1>3, <1>4, <1>5 DEF EmergencyMode

(* A user's position settles after that.                                   *)
LEMMA SettledBooks ==
    ASSUME TypeOK, CanSync, NEW u \in Users
    PROVE  \E d \in Nat :
             /\ SettledVault(u).uncollected = SyncedVault.uncollected + d
             /\ SettledPosition(u).staged = pos[u].staged + d
             /\ SettledPosition(u).index = IF EmergencyMode(SyncedVault)
                                           THEN pos[u].index ELSE SyncedVault.final
<1>1. pos[u] \in PositionRecord
    BY PositionNumbers, PositionsFinite
<1>2. SyncedVault \in VaultRecord
    BY SyncedTypes
<1> DEFINE d == SyInterest(SyncedVault, pos[u])
<1>3. /\ d \in Nat
      /\ SettledVault(u) = [SyncedVault EXCEPT !.uncollected = @ + d]
      /\ SettledPosition(u).staged = pos[u].staged + d
    BY <1>1, <1>2, EarnTypes DEF SettledVault, SettledPosition
<1>4. SettledPosition(u).index = IF EmergencyMode(SyncedVault) THEN pos[u].index
                                 ELSE SyncedVault.final
    BY <1>1 DEF SettledPosition, EarnPosition, PositionRecord
<1> HIDE DEF d
<1>5. SettledVault(u).uncollected = SyncedVault.uncollected + d
    BY <1>2, <1>3 DEF VaultRecord
<1> QED BY <1>3, <1>4, <1>5

(* Recomputing the backing leaves the uncollected interest alone.          *)
LEMMA SetSyForPtKeepsUncollected ==
    ASSUME NEW v \in VaultRecord
    PROVE  SetSyForPt(v).uncollected = v.uncollected
    BY SetSyForPtType DEF VaultRecord

(* What a synchronising step does to the indexes of all positions.         *)
SyncsIndexes ==
    /\ TakesOverRate
    /\ now' = now
    /\ pos'[Robot].index = IF EmergencyMode(vault') THEN pos[Robot].index
                           ELSE vault'.final
    /\ \A q \in Users :
         \/ pos'[q].index = pos[q].index
         \/ ~EmergencyMode(vault') /\ pos'[q].index = vault'.final

(* The rates as numbers.                                                   *)
LEMMA RatesNat ==
    ASSUME TypeOK
    PROVE  /\ vault.last \in Nat /\ vault.ath \in Nat /\ vault.final \in Nat
           /\ sy.rate \in Nat /\ now \in Nat
           /\ StartTs \in Nat /\ Duration \in Nat
    BY VaultAssumptions DEF TypeOK, VaultRecord, SyRecord

(* No synchronising step lets a user overtake the robot.                   *)
LEMMA OrderAfterSync ==
    ASSUME IInv, TypeOK', SettledInOrder, SyncsIndexes
    PROVE  SettledInOrder'
<1>1. TypeOK /\ RateOrder
    BY DEF IInv
<1>2. RobotFollows'
    BY DEF SyncsIndexes, RobotFollows
<1>3. now >= StartTs
    <2> SUFFICES ASSUME now < StartTs PROVE FALSE
        BY <1>1, RatesNat
    <2>1. ~IsActive
        BY <1>1, RatesNat DEF IsActive
    <2>2. vault'.final = 0
        BY <2>1 DEF SettledInOrder, NoRateBeforeStart, SyncsIndexes, TakesOverRate
    <2>3. vault'.final > 0
        BY DEF SyncsIndexes, TakesOverRate
    <2> QED BY <2>2, <2>3
<1>4. NoRateBeforeStart'
    BY <1>1, <1>3, RatesNat DEF NoRateBeforeStart, SyncsIndexes
<1>5. ASSUME now <= StartTs + Duration, NEW q \in Users
      PROVE  pos'[q].index <= pos'[Robot].index
    <2>1. pos[q].index \in Nat /\ pos[q].index <= vault.ath
          /\ pos[q].index <= pos[Robot].index
        BY <1>1, <1>5, PositionNumbers, PositionsFinite
           DEF RateOrder, SettledInOrder, NoIntervalEarnedTwice
    <2>2. CASE EmergencyMode(vault')
        BY <2>1, <2>2 DEF SyncsIndexes
    <2>3. CASE ~EmergencyMode(vault')
        <3>1. IsActive
            BY <1>1, <1>3, <1>5, RatesNat DEF IsActive, IsExpired
        <3>2. vault'.final = sy.rate /\ vault'.last = sy.rate
              /\ vault'.ath = Larger(sy.rate, vault.ath)
            BY <3>1 DEF SyncsIndexes, TakesOverRate
        <3>3. vault.ath <= sy.rate
            <4>1. ~(Larger(sy.rate, vault.ath) > sy.rate)
                BY <2>3, <3>2 DEF EmergencyMode
            <4>2. sy.rate \in Nat /\ vault.ath \in Nat
                BY <1>1, RatesNat
            <4> QED BY ONLY <4>1, <4>2 DEF Larger
        <3>4. pos'[Robot].index = sy.rate
            BY <2>3, <3>2 DEF SyncsIndexes
        <3>5. pos'[q].index = pos[q].index \/ pos'[q].index = sy.rate
            BY <3>2 DEF SyncsIndexes
        <3> QED BY <1>1, <2>1, <3>3, <3>4, <3>5, RatesNat
    <2> QED BY <2>2, <2>3
<1>6. NoIntervalEarnedTwice'
    BY <1>5 DEF NoIntervalEarnedTwice, SyncsIndexes
<1> QED BY <1>2, <1>4, <1>6 DEF SettledInOrder

(* Steps that change neither the rates nor an index.                       *)
LEMMA OrderKept ==
    ASSUME IInv, SettledInOrder, now' = now \/ now' = now + 1,
           vault'.last = vault.last, vault'.ath = vault.ath,
           vault'.final = vault.final,
           \A p \in Positions : pos'[p].index = pos[p].index
    PROVE  SettledInOrder'
<1>1. TypeOK
    BY DEF IInv
<1>2. RobotFollows'
    BY PositionsFinite DEF SettledInOrder, RobotFollows, EmergencyMode
<1>3. now' < StartTs => now < StartTs
    BY <1>1, RatesNat
<1>4. NoRateBeforeStart'
    BY <1>3 DEF SettledInOrder, NoRateBeforeStart
<1>5. now' <= StartTs + Duration => now <= StartTs + Duration
    BY <1>1, RatesNat
<1>6. NoIntervalEarnedTwice'
    BY <1>5, PositionsFinite DEF SettledInOrder, NoIntervalEarnedTwice
<1> QED BY <1>2, <1>4, <1>6 DEF SettledInOrder

-----------------------------------------------------------------------------
(* The steps.                                                              *)

(* What a step must show beside IInv'.                                     *)
BooksKept ==
    /\ StakedYtEscrowed'
    /\ UncollectedIsStaged'
    /\ ClaimsCapped'
    /\ SettledInOrder'

(* A strip or a merge: only the vault's own position changes.              *)
LEMMA RobotStep ==
    ASSUME BooksInv, TypeOK', CanSync, TakesOverRate,
           NEW total \in Nat, NEW pts \in Nat, NEW yt \in Int,
           vault' = SetSyForPt(WithBalances(SyncedVault, total, pts)),
           pos' = [pos EXCEPT ![Robot] = [SyncedRobot EXCEPT !.yt = yt]],
           now' = now, escrowYt' = escrowYt, limits' = limits
    PROVE  BooksKept
<1>1. TypeOK /\ IInv /\ Robot \in Positions /\ \A u \in Users : u # Robot
    BY PositionsFinite DEF BooksInv, IInv
<1>2. /\ SyncedVault \in VaultRecord /\ SyncedRobot \in PositionRecord
    BY <1>1, SyncedTypes
<1> DEFINE w == WithBalances(SyncedVault, total, pts)
           robot == [SyncedRobot EXCEPT !.yt = yt]
<1>3. /\ w \in VaultRecord
      /\ w.uncollected = SyncedVault.uncollected
      /\ w.last = SyncedVault.last /\ w.ath = SyncedVault.ath
      /\ w.final = SyncedVault.final
    BY ONLY <1>2, total \in Nat, pts \in Nat, BalancesType DEF WithBalances, VaultRecord
<1>4. robot.staged = SyncedRobot.staged /\ robot.index = SyncedRobot.index
    BY ONLY <1>2, yt \in Int DEF PositionRecord
<1>5. vault' = SetSyForPt(w) /\ pos' = [pos EXCEPT ![Robot] = robot]
    OBVIOUS
<1> HIDE DEF w, robot
<1>6. /\ vault'.uncollected = SyncedVault.uncollected
      /\ vault'.last = SyncedVault.last /\ vault'.ath = SyncedVault.ath
      /\ vault'.final = SyncedVault.final
    BY ONLY <1>3, <1>5, SetSyForPtFields, SetSyForPtKeepsUncollected
<1>7. pos'[Robot] = robot /\ \A q \in Positions \ {Robot} : pos'[q] = pos[q]
    BY <1>1, <1>5 DEF TypeOK
<1>8. PICK d \in Nat :
             /\ SyncedVault.uncollected = vault.uncollected + d
             /\ SyncedRobot.staged = pos[Robot].staged + d
             /\ SyncedRobot.index = IF EmergencyMode(SyncedVault)
                                    THEN pos[Robot].index ELSE SyncedVault.final
    BY <1>1, SyncedBooks
<1>9. UncollectedIsStaged'
    BY <1>1, <1>4, <1>6, <1>7, <1>8, StagedInOne DEF BooksInv
<1>10. \A u \in Users : pos'[u] = pos[u]
    BY <1>1, <1>7, PositionsFinite
<1>11. StakedYtEscrowed'
    BY <1>10, YtKept DEF BooksInv
<1>12. ClaimsCapped'
    BY DEF BooksInv, ClaimsCapped
<1>13. EmergencyMode(vault') <=> EmergencyMode(SyncedVault)
    BY <1>6 DEF EmergencyMode
<1>14. SyncsIndexes
    BY <1>4, <1>6, <1>7, <1>8, <1>10, <1>13 DEF SyncsIndexes
<1>15. SettledInOrder'
    BY <1>1, <1>14, OrderAfterSync DEF BooksInv
<1> QED BY <1>9, <1>11, <1>12, <1>15 DEF BooksKept

(* strip.                                                                  *)
LEMMA StripBooks ==
    ASSUME BooksInv, TypeOK', NEW n \in Amounts, Strip(n)
    PROVE  BooksKept
<1> DEFINE py == SyToPy(SyncedVault.last, n)
<1>1. TypeOK /\ n \in Nat /\ CanSync /\ TakesOverRate
    BY VaultAssumptions, StripEffect DEF BooksInv, IInv, Strip
<1>2. SyncedVault \in VaultRecord /\ SyncedRobot \in PositionRecord
    BY <1>1, SyncedTypes
<1>3. py \in Nat
    BY <1>1, <1>2, ConversionNat DEF VaultRecord
<1>4. /\ vault' = SetSyForPt([SyncedVault EXCEPT !.total = @ + n, !.pts = @ + py])
      /\ pos' = [pos EXCEPT ![Robot] = [SyncedRobot EXCEPT !.yt = @ + py]]
      /\ UNCHANGED <<now, limits, escrowYt>>
    BY DEF Strip
<1> HIDE DEF py
<1>5. /\ SyncedVault.total + n \in Nat /\ SyncedVault.pts + py \in Nat
      /\ SyncedRobot.yt + py \in Int
    BY <1>1, <1>2, <1>3 DEF VaultRecord, PositionRecord
<1>6. vault' = SetSyForPt(WithBalances(SyncedVault, SyncedVault.total + n,
                                       SyncedVault.pts + py))
    BY ONLY <1>4 DEF WithBalances
<1> QED BY <1>1, <1>4, <1>5, <1>6, RobotStep

(* merge.                                                                  *)
LEMMA MergeBooks ==
    ASSUME BooksInv, TypeOK', NEW n \in Amounts, Merge(n)
    PROVE  BooksKept
<1> DEFINE out == Redemption(SyncedVault, n)
           burned == BurnedYt(n)
<1>1. /\ TypeOK /\ n \in Nat /\ CanSync /\ TakesOverRate /\ burned \in Nat
    BY VaultAssumptions, MergeEffect DEF BooksInv, IInv, Merge, BurnedYt
<1>2. SyncedVault \in VaultRecord /\ SyncedRobot \in PositionRecord
    BY <1>1, SyncedTypes
<1>3. out \in Nat
    BY <1>1, <1>2, RedemptionNat
<1>4. /\ vault' = SetSyForPt([SyncedVault EXCEPT !.total = @ - out, !.pts = @ - n])
      /\ pos' = [pos EXCEPT ![Robot] = [SyncedRobot EXCEPT !.yt = @ - burned]]
      /\ UNCHANGED <<now, limits, escrowYt>>
      /\ SyncedVault.total >= out /\ SyncedVault.pts >= n
    BY DEF Merge
<1> HIDE DEF out, burned
<1>5. /\ SyncedVault.total - out \in Nat /\ SyncedVault.pts - n \in Nat
      /\ SyncedRobot.yt - burned \in Int
    BY <1>1, <1>2, <1>3, <1>4 DEF VaultRecord, PositionRecord
<1>6. vault' = SetSyForPt(WithBalances(SyncedVault, SyncedVault.total - out,
                                       SyncedVault.pts - n))
    BY ONLY <1>4 DEF WithBalances
<1> QED BY <1>1, <1>4, <1>5, <1>6, RobotStep

(* A user's position settles, and n YT may move between it and the robot.  *)
LEMMA UserStep ==
    ASSUME BooksInv, TypeOK', CanSync, NEW u \in Users, NEW n \in Int,
           vault' = SetSyForPt(SettledVault(u)),
           pos'[Robot].staged = SyncedRobot.staged,
           pos'[Robot].index = SyncedRobot.index,
           pos'[u].staged = SettledPosition(u).staged,
           pos'[u].index = SettledPosition(u).index,
           pos'[u].yt = pos[u].yt + n,
           \A q \in Positions \ {u, Robot} : pos'[q] = pos[q],
           TakesOverRate, escrowYt' = escrowYt + n, now' = now, limits' = limits
    PROVE  BooksKept
<1>1. TypeOK /\ IInv /\ Robot \in Positions /\ u \in Positions /\ u # Robot
    BY PositionsFinite DEF BooksInv, IInv
<1>2. /\ SettledVault(u) \in VaultRecord
      /\ SettledVault(u).last = SyncedVault.last
      /\ SettledVault(u).ath = SyncedVault.ath
      /\ SettledVault(u).final = SyncedVault.final
    BY <1>1, SettledTypes
<1>3. /\ vault'.uncollected = SettledVault(u).uncollected
      /\ vault'.last = SyncedVault.last /\ vault'.ath = SyncedVault.ath
      /\ vault'.final = SyncedVault.final
    BY <1>2, SetSyForPtFields, SetSyForPtKeepsUncollected
<1>4. PICK a \in Nat :
             /\ SyncedVault.uncollected = vault.uncollected + a
             /\ SyncedRobot.staged = pos[Robot].staged + a
             /\ SyncedRobot.index = IF EmergencyMode(SyncedVault)
                                    THEN pos[Robot].index ELSE SyncedVault.final
    BY <1>1, SyncedBooks
<1>5. PICK b \in Nat :
             /\ SettledVault(u).uncollected = SyncedVault.uncollected + b
             /\ SettledPosition(u).staged = pos[u].staged + b
             /\ SettledPosition(u).index = IF EmergencyMode(SyncedVault)
                                           THEN pos[u].index ELSE SyncedVault.final
    BY <1>1, SettledBooks
<1>6. vault'.uncollected = vault.uncollected + a + b
    BY <1>3, <1>4, <1>5
<1>7. a \in Int /\ b \in Int
    OBVIOUS
<1>8. UncollectedIsStaged'
    <2>1. UncollectedIsStaged
        BY DEF BooksInv
    <2>2. pos'[Robot].staged = pos[Robot].staged + a
          /\ pos'[u].staged = pos[u].staged + b
        BY <1>4, <1>5
    <2> QED BY <1>1, <1>6, <1>7, <2>1, <2>2, StagedInTwo
<1>9. \A q \in Users \ {u} : pos'[q] = pos[q]
    BY PositionsFinite
<1>10. StakedYtEscrowed'
    BY <1>1, <1>9, YtMoves DEF BooksInv
<1>11. ClaimsCapped'
    BY DEF BooksInv, ClaimsCapped
<1>12. EmergencyMode(vault') <=> EmergencyMode(SyncedVault)
    BY <1>3 DEF EmergencyMode
<1>13. SyncsIndexes
    <2>1. pos'[Robot].index = IF EmergencyMode(vault') THEN pos[Robot].index
                              ELSE vault'.final
        BY <1>3, <1>4, <1>12
    <2>2. ASSUME NEW q \in Users
          PROVE  \/ pos'[q].index = pos[q].index
                 \/ ~EmergencyMode(vault') /\ pos'[q].index = vault'.final
        <3>1. CASE q = u
            BY <3>1, <1>3, <1>5, <1>12
        <3>2. CASE q # u
            BY <3>2, <1>9
        <3> QED BY <3>1, <3>2
    <2> QED BY <2>1, <2>2 DEF SyncsIndexes
<1>14. SettledInOrder'
    BY <1>1, <1>13, OrderAfterSync DEF BooksInv
<1> QED BY <1>8, <1>10, <1>11, <1>14 DEF BooksKept

(* stage_yt_yield.                                                         *)
LEMMA StageYieldBooks ==
    ASSUME BooksInv, TypeOK', NEW u \in Users, StageYield(u)
    PROVE  BooksKept
<1>1. TypeOK /\ CanSync /\ TakesOverRate /\ u \in Positions /\ u # Robot
      /\ Robot \in Positions
    BY StageYieldEffect, PositionsFinite DEF BooksInv, IInv, StageYield
<1>2. /\ vault' = SetSyForPt(SettledVault(u))
      /\ pos' = [pos EXCEPT ![Robot] = SyncedRobot, ![u] = SettledPosition(u)]
      /\ UNCHANGED <<now, limits, escrowYt>>
    BY DEF StageYield
<1>3. /\ pos'[Robot] = SyncedRobot /\ pos'[u] = SettledPosition(u)
      /\ \A q \in Positions \ {u, Robot} : pos'[q] = pos[q]
    BY <1>1, <1>2 DEF TypeOK
<1>4. SettledPosition(u).yt = pos[u].yt
    BY <1>1, SettledTypes
<1>5. pos'[u].yt = pos[u].yt + 0 /\ escrowYt' = escrowYt + 0 /\ 0 \in Int
    BY <1>1, <1>2, <1>3, <1>4, PositionNumbers DEF TypeOK
<1> QED BY <1>1, <1>2, <1>3, <1>5, UserStep

(* The staged interest of both positions while YT moves between them.      *)
LEMMA StakeKeepsStaged ==
    ASSUME TypeOK, CanSync, NEW u \in Users, NEW n \in Int
    PROVE  /\ StakeMoved(u, n)[Robot].staged = SyncedRobot.staged
           /\ StakeMoved(u, n)[u].staged = SettledPosition(u).staged
<1>1. u \in Positions /\ Robot \in Positions /\ u # Robot
    BY PositionsFinite
<1>2. [SyncedRobot EXCEPT !.yt = @ - n].staged = SyncedRobot.staged
    BY SyncedTypes DEF PositionRecord
<1>3. [SettledPosition(u) EXCEPT !.yt = @ + n].staged = SettledPosition(u).staged
    BY SettledTypes DEF PositionRecord
<1> QED BY <1>1, <1>2, <1>3 DEF StakeMoved, TypeOK

(* deposit_yt and, with a negative amount, withdraw_yt.                    *)
LEMMA StakeBooks ==
    ASSUME BooksInv, TypeOK', CanSync, NEW u \in Users, NEW n \in Int,
           SyncedRobot.yt - n \in Nat, SettledPosition(u).yt + n \in Nat,
           vault' = SetSyForPt(SettledVault(u)), pos' = StakeMoved(u, n),
           escrowYt' = escrowYt + n, now' = now, limits' = limits
    PROVE  BooksKept
<1>1. TypeOK
    BY DEF BooksInv, IInv
<1>2. TakesOverRate
    BY <1>1, StakeEffect
<1>3. /\ pos'[u].yt = pos[u].yt + n
      /\ pos'[Robot].index = SyncedRobot.index
      /\ pos'[u].index = SettledPosition(u).index
      /\ \A p \in Positions \ {u, Robot} : pos'[p] = pos[p]
    BY <1>1, StakeMovedType
<1>4. /\ pos'[Robot].staged = SyncedRobot.staged
      /\ pos'[u].staged = SettledPosition(u).staged
    BY <1>1, StakeKeepsStaged
<1> QED BY <1>2, <1>3, <1>4, UserStep

(* deposit_yt.                                                             *)
LEMMA DepositYtBooks ==
    ASSUME BooksInv, TypeOK', NEW u \in Users, NEW n \in Amounts, DepositYt(u, n)
    PROVE  BooksKept
<1>1. TypeOK /\ n \in Nat /\ n \in Int /\ CanSync /\ SyncedRobot.yt >= n
    BY VaultAssumptions DEF BooksInv, IInv, DepositYt
<1>2. SyncedRobot.yt \in Nat /\ SettledPosition(u).yt \in Nat
    BY <1>1, SyncedTypes, SettledTypes DEF PositionRecord
<1>3. SyncedRobot.yt - n \in Nat /\ SettledPosition(u).yt + n \in Nat
    BY <1>1, <1>2
<1>4. /\ vault' = SetSyForPt(SettledVault(u)) /\ pos' = StakeMoved(u, n)
      /\ escrowYt' = escrowYt + n /\ UNCHANGED <<now, limits>>
    BY DEF DepositYt
<1> QED BY <1>1, <1>3, <1>4, StakeBooks

(* withdraw_yt.                                                            *)
LEMMA WithdrawYtBooks ==
    ASSUME BooksInv, TypeOK', NEW u \in Users, NEW n \in Amounts, WithdrawYt(u, n)
    PROVE  BooksKept
<1>1. TypeOK /\ n \in Nat /\ -n \in Int /\ CanSync /\ SettledPosition(u).yt >= n
      /\ escrowYt \in Nat
    BY VaultAssumptions DEF BooksInv, IInv, TypeOK, WithdrawYt
<1>2. SyncedRobot.yt \in Nat /\ SettledPosition(u).yt \in Nat
    BY <1>1, SyncedTypes, SettledTypes DEF PositionRecord
<1>3. SyncedRobot.yt - (-n) \in Nat /\ SettledPosition(u).yt + (-n) \in Nat
    BY <1>1, <1>2
<1>4. /\ vault' = SetSyForPt(SettledVault(u)) /\ pos' = StakeMoved(u, -n)
      /\ escrowYt' = escrowYt - n /\ UNCHANGED <<now, limits>>
    BY DEF WithdrawYt
<1>5. escrowYt' = escrowYt + (-n)
    BY <1>1, <1>4
<1> QED BY <1>1, <1>3, <1>4, <1>5, StakeBooks

(* collect_interest.                                                       *)
LEMMA CollectInterestBooks ==
    ASSUME BooksInv, TypeOK', NEW u \in Users, NEW n \in Nat, CollectInterest(u, n)
    PROVE  BooksKept
<1> DEFINE v == EarnVault(vault, pos[u])
           p == EarnPosition(vault, pos[u])
           d == SyInterest(vault, pos[u])
           paid == [p EXCEPT !.staged = @ - n]
<1>1. TypeOK /\ IInv /\ u \in Positions /\ u # Robot /\ Robot \in Positions
      /\ vault \in VaultRecord /\ pos[u] \in PositionRecord
    BY PositionsFinite DEF BooksInv, IInv, TypeOK
<1>2. /\ VerifyClaimLimits(n)
      /\ v.total >= n /\ v.uncollected >= n
      /\ vault' = InterestPaid(v, n)
      /\ pos' = [pos EXCEPT ![u] = paid]
      /\ UNCHANGED <<now, escrowYt>>
    BY SMTT(60) DEF CollectInterest
<1>3. /\ d \in Nat
      /\ v \in VaultRecord
      /\ v = [vault EXCEPT !.uncollected = @ + d]
      /\ p \in PositionRecord
      /\ p.yt = pos[u].yt
      /\ p.staged = pos[u].staged + d
    BY ONLY <1>1, EarnTypes
<1>4. p.index = IF EmergencyMode(vault) THEN pos[u].index ELSE vault.final
    BY <1>1 DEF EarnPosition, PositionRecord
<1> HIDE DEF v, p, d
<1>5. /\ v.uncollected = vault.uncollected + d
      /\ v.last = vault.last /\ v.ath = vault.ath /\ v.final = vault.final
    BY <1>1, <1>3 DEF VaultRecord
<1>6. /\ paid.yt = p.yt /\ paid.index = p.index /\ paid.staged = p.staged - n
    BY <1>3 DEF PositionRecord
<1> HIDE DEF paid
<1>7. /\ pos'[u] = paid
      /\ \A q \in Positions \ {u} : pos'[q] = pos[q]
    BY <1>1, <1>2 DEF TypeOK
<1>8. /\ vault'.last = vault.last /\ vault'.ath = vault.ath
      /\ vault'.final = vault.final
      /\ vault'.uncollected = v.uncollected - n
    BY <1>2, <1>3, <1>5, InterestPaidType
<1>9. UncollectedIsStaged'
    <2>1. pos[u].staged \in Nat /\ vault.uncollected \in Nat
        BY <1>1 DEF VaultRecord, PositionRecord
    <2>2. PICK k \in Int : k = d - n
        BY <1>3
    <2>3. pos'[u].staged = pos[u].staged + k
        <3>1. pos'[u].staged = p.staged - n
            BY <1>6, <1>7
        <3>2. p.staged - n = pos[u].staged + k
            BY <1>3, <2>1, <2>2
        <3> QED BY <3>1, <3>2
    <2>4. vault'.uncollected = vault.uncollected + k
        <3>1. v.uncollected - n = vault.uncollected + k
            BY <1>3, <1>5, <2>1, <2>2
        <3> QED BY <3>1, <1>8
    <2>5. UncollectedIsStaged
        BY DEF BooksInv
    <2> QED BY <1>1, <1>7, <2>3, <2>4, <2>5, StagedInOne
<1>10. StakedYtEscrowed'
    <2>1. \A q \in Users : pos'[q].yt = pos[q].yt
        BY <1>3, <1>6, <1>7, PositionsFinite
    <2> QED BY <1>2, <2>1, YtKept DEF BooksInv
<1>11. ClaimsCapped'
    <2>1. limits \in [start : Nat, used : Nat, max : Nat, duration : Nat]
        BY <1>1 DEF TypeOK
    <2> QED BY <1>2, <2>1 DEF VerifyClaimLimits, ClaimsCapped
<1>12. EmergencyMode(vault') <=> EmergencyMode(vault)
    BY <1>8 DEF EmergencyMode
<1>13. RobotFollows' /\ NoRateBeforeStart'
    BY <1>1, <1>2, <1>7, <1>8, <1>12
       DEF BooksInv, SettledInOrder, RobotFollows, NoRateBeforeStart
<1>14. ASSUME now <= StartTs + Duration, NEW q \in Users
       PROVE  pos'[q].index <= pos'[Robot].index
    <2>1. pos[q].index <= pos[Robot].index /\ pos'[Robot] = pos[Robot]
        BY <1>1, <1>7, <1>14 DEF BooksInv, SettledInOrder, NoIntervalEarnedTwice
    <2>2. CASE q # u
        BY <1>7, <2>1, <2>2, PositionsFinite
    <2>3. CASE q = u /\ EmergencyMode(vault)
        BY <1>4, <1>6, <1>7, <2>1, <2>3
    <2>4. CASE q = u /\ ~EmergencyMode(vault)
        <3>1. pos'[q].index = pos[Robot].index
            BY <1>4, <1>6, <1>7, <2>4 DEF BooksInv, SettledInOrder, RobotFollows
        <3>2. pos[Robot].index \in Nat
            BY <1>1, PositionNumbers
        <3> QED BY <2>1, <3>1, <3>2
    <2> QED BY <2>2, <2>3, <2>4
<1>15. NoIntervalEarnedTwice'
    BY <1>2, <1>14 DEF NoIntervalEarnedTwice
<1> QED BY <1>9, <1>10, <1>11, <1>13, <1>15 DEF BooksKept, SettledInOrder

(* treasury_collect of the robot's interest.                               *)
LEMMA CollectRobotInterestBooks ==
    ASSUME BooksInv, TypeOK', NEW n \in Nat, CollectRobotInterest(n)
    PROVE  BooksKept
<1>1. TypeOK /\ IInv /\ vault \in VaultRecord /\ Robot \in Positions
      /\ pos[Robot] \in PositionRecord
    BY PositionsFinite DEF BooksInv, IInv, TypeOK
<1>2. /\ vault' = InterestPaid(vault, n)
      /\ vault.total >= n /\ vault.uncollected >= n
      /\ pos' = [pos EXCEPT ![Robot].staged = @ - n]
      /\ UNCHANGED <<now, limits, escrowYt>>
    BY DEF CollectRobotInterest
<1>3. /\ vault'.last = vault.last /\ vault'.ath = vault.ath
      /\ vault'.final = vault.final
      /\ vault'.uncollected = vault.uncollected - n
    BY <1>1, <1>2, InterestPaidType
<1>4. /\ pos'[Robot].staged = pos[Robot].staged - n
      /\ pos'[Robot].index = pos[Robot].index
      /\ \A q \in Positions \ {Robot} : pos'[q] = pos[q]
    BY <1>1, <1>2 DEF TypeOK, PositionRecord
<1>5. UncollectedIsStaged'
    <2>1. /\ -n \in Int /\ UncollectedIsStaged
          /\ pos'[Robot].staged = pos[Robot].staged + (-n)
          /\ vault'.uncollected = vault.uncollected + (-n)
        BY <1>1, <1>3, <1>4 DEF BooksInv, VaultRecord, PositionRecord
    <2> QED BY <1>1, <1>4, <2>1, StagedInOne
<1>6. StakedYtEscrowed'
    BY <1>2, <1>4, YtKept, PositionsFinite DEF BooksInv
<1>7. ClaimsCapped'
    BY <1>2 DEF BooksInv, ClaimsCapped
<1>8. \A q \in Positions : pos'[q].index = pos[q].index
    BY <1>4
<1>9. SettledInOrder'
    BY <1>1, <1>2, <1>3, <1>8, OrderKept DEF BooksInv
<1> QED BY <1>5, <1>6, <1>7, <1>9 DEF BooksKept

(* Steps that leave positions, uncollected interest and rates alone.       *)
LEMMA BystanderBooks ==
    ASSUME BooksInv, now' = now \/ now' = now + 1,
           vault'.last = vault.last, vault'.ath = vault.ath,
           vault'.final = vault.final, vault'.uncollected = vault.uncollected,
           UNCHANGED <<pos, escrowYt>>, ClaimsCapped'
    PROVE  BooksKept
<1>1. IInv
    BY DEF BooksInv
<1>2. StakedYtEscrowed'
    BY YtKept DEF BooksInv
<1>3. UncollectedIsStaged'
    BY DEF BooksInv, UncollectedIsStaged
<1>4. SettledInOrder'
    BY <1>1, OrderKept DEF BooksInv
<1> QED BY <1>2, <1>3, <1>4 DEF BooksKept

(* The initial state.                                                      *)
LEMMA InitBooks == Init => BooksInv
<1> SUFFICES ASSUME Init PROVE BooksInv
    OBVIOUS
<1>1. \A p \in Positions : pos[p].yt = 0 /\ pos[p].staged = 0 /\ pos[p].index = 0
    BY DEF Init, NoPosition
<1>2. StakedYtEscrowed
    <2> DEFINE f == [u \in Users |-> pos[u].yt]
    <2>1. \A u \in Users : f[u] = 0
        BY <1>1, PositionsFinite
    <2> HIDE DEF f
    <2>2. Total(Users, f) = 0
        BY <2>1, TotalZero
    <2> QED BY <2>2 DEF Init, StakedYtEscrowed, f
<1>3. UncollectedIsStaged
    <2> DEFINE f == [p \in Positions |-> pos[p].staged]
    <2>1. \A p \in Positions : f[p] = 0
        BY <1>1
    <2> HIDE DEF f
    <2>2. Total(Positions, f) = 0
        BY <2>1, TotalZero
    <2> QED BY <2>2 DEF Init, NoVault, UncollectedIsStaged, f
<1>4. ClaimsCapped
    BY VaultAssumptions DEF Init, ClaimsCapped
<1>5. SettledInOrder
    BY <1>1, PositionsFinite
       DEF Init, NoVault, SettledInOrder, RobotFollows, NoRateBeforeStart,
           NoIntervalEarnedTwice
<1> QED BY <1>2, <1>3, <1>4, <1>5, InitInv DEF BooksInv

(* Every step keeps the books.                                             *)
LEMMA NextBooks == BooksInv /\ [Next]_vars => BooksInv'
<1> SUFFICES ASSUME BooksInv, [Next]_vars PROVE BooksInv'
    OBVIOUS
<1>0. TypeOK /\ IInv' /\ TypeOK' /\ ClaimsCapped
    BY NextInv DEF BooksInv, IInv
<1>1. CASE UNCHANGED vars
    BY <1>0, <1>1, BystanderBooks DEF vars, ClaimsCapped, BooksKept, BooksInv
<1> SUFFICES ASSUME Next PROVE BooksKept
    BY <1>0, <1>1 DEF BooksKept, BooksInv
<1>2. CASE Tick \/ SyRateMoves \/ SyEmissionAccrues \/ ModifyVaultSetting
    <2>1. UNCHANGED <<vault, pos, escrowYt, limits>> /\ (now' = now \/ now' = now + 1)
        BY <1>2 DEF Tick, SyRateMoves, SyEmissionAccrues, ModifyVaultSetting
    <2> QED BY <1>0, <2>1, BystanderBooks DEF ClaimsCapped
<1>3. CASE ChangeClaimLimits
    <2>1. UNCHANGED <<vault, pos, escrowYt, now>>
        BY <1>3 DEF ChangeClaimLimits
    <2>2. limits'.used = 0 /\ limits'.max \in Nat
        BY <1>3, VaultAssumptions DEF ChangeClaimLimits
    <2> QED BY <2>1, <2>2, BystanderBooks DEF ClaimsCapped
<1>4. ASSUME NEW n \in Amounts, Strip(n) PROVE BooksKept
    BY <1>0, <1>4, StripBooks
<1>5. ASSUME NEW n \in Amounts, Merge(n) PROVE BooksKept
    BY <1>0, <1>5, MergeBooks
<1>6. ASSUME NEW u \in Users, StageYield(u) PROVE BooksKept
    BY <1>0, <1>6, StageYieldBooks
<1>7. ASSUME NEW u \in Users, NEW n \in Amounts, DepositYt(u, n) PROVE BooksKept
    BY <1>0, <1>7, DepositYtBooks
<1>8. ASSUME NEW u \in Users, NEW n \in Amounts, WithdrawYt(u, n) PROVE BooksKept
    BY <1>0, <1>8, WithdrawYtBooks
<1>9. ASSUME NEW u \in Users, NEW n \in Requests(pos[u].staged),
             CollectInterest(u, n)
      PROVE  BooksKept
    <2>1. n \in Nat
        BY <1>0, RequestsNat DEF TypeOK, Positions, PositionRecord
    <2> QED BY <1>0, <1>9, <2>1, CollectInterestBooks
<1>10. ASSUME NEW n \in Requests(pos[Robot].staged), CollectRobotInterest(n)
       PROVE  BooksKept
    <2>1. n \in Nat
        BY <1>0, RequestsNat DEF TypeOK, Positions, PositionRecord
    <2> QED BY <1>0, <1>10, <2>1, CollectRobotInterestBooks
<1>11. ASSUME NEW n \in Requests(vault.treasury), CollectTreasurySy(n)
       PROVE  BooksKept
    <2>1. /\ vault'.last = vault.last /\ vault'.ath = vault.ath
          /\ vault'.final = vault.final /\ vault'.uncollected = vault.uncollected
        BY <1>0, <1>11 DEF CollectTreasurySy, TypeOK, VaultRecord
    <2>2. UNCHANGED <<now, pos, escrowYt, limits>>
        BY <1>11 DEF CollectTreasurySy
    <2> QED BY <1>0, <2>1, <2>2, BystanderBooks DEF ClaimsCapped
<1>12. ASSUME NEW u \in Users, NEW i \in EmissionIds,
              NEW n \in Requests(trackers[u][i].staged), CollectEmission(u, i, n)
       PROVE  BooksKept
    <2>1. UNCHANGED <<now, vault, pos, escrowYt, limits>>
        BY <1>12 DEF CollectEmission
    <2> QED BY <1>0, <2>1, BystanderBooks DEF ClaimsCapped
<1>13. ASSUME NEW i \in EmissionIds,
              NEW n \in Requests(trackers[Robot][i].staged) \cup
                        Requests(emissions[i].treasury),
              CollectRobotEmission(i, n) \/ CollectTreasuryEmission(i, n)
       PROVE  BooksKept
    <2>1. UNCHANGED <<now, vault, pos, escrowYt, limits>>
        BY <1>13 DEF CollectRobotEmission, CollectTreasuryEmission
    <2> QED BY <1>0, <2>1, BystanderBooks DEF ClaimsCapped
<1> QED BY <1>2, <1>3, <1>4, <1>5, <1>6, <1>7, <1>8, <1>9, <1>10, <1>11,
           <1>12, <1>13 DEF Next

(* The books are right in every reachable state.                           *)
THEOREM BooksHold == Spec => []BooksInv
    BY InitBooks, NextBooks, PTL DEF Spec

(* escrow_yt holds exactly the YT of the users' positions.                 *)
THEOREM StakesEscrowed == Spec => []StakedYtEscrowed
<1>1. BooksInv => StakedYtEscrowed
    BY DEF BooksInv
<1> QED BY <1>1, BooksHold, PTL

(* uncollected_sy is exactly the interest staged in all positions.         *)
THEOREM UncollectedStaged == Spec => []UncollectedIsStaged
<1>1. BooksInv => UncollectedIsStaged
    BY DEF BooksInv
<1> QED BY <1>1, BooksHold, PTL

(* The interest claimed in a window stays within the window's limit.       *)
THEOREM ClaimsWithinLimit == Spec => []ClaimsCapped
<1>1. BooksInv => ClaimsCapped
    BY DEF BooksInv
<1> QED BY <1>1, BooksHold, PTL

(* While the vault is active no user has settled further than the robot,   *)
(* from which staked YT comes and to which it returns.                     *)
THEOREM EarnedOnce == Spec => []NoIntervalEarnedTwice
<1>1. BooksInv => NoIntervalEarnedTwice
    BY DEF BooksInv, SettledInOrder
<1> QED BY <1>1, BooksHold, PTL

-----------------------------------------------------------------------------
(* What PT redeem for: the round trip of a strip and a merge, and the      *)
(* redemption of matured PT.                                               *)

(* PT never cost the escrow more than their share of the SY set aside for  *)
(* them, so never more than all of it.                                     *)
LEMMA RedeemedInShare ==
    ASSUME NEW v \in VaultRecord, v.pts > 0, NEW n \in Nat
    PROVE  /\ Redemption(v, n) \in Nat
           /\ Redemption(v, n) * v.pts <= n * v.forPt
           /\ n <= v.pts => Redemption(v, n) <= v.forPt
<1> DEFINE m == v.forPt
           d == v.pts
           r == SyToPy(FromRatio(m, d), n)
<1>1. m \in Nat /\ d \in Nat \ {0}
    BY DEF VaultRecord
<1>2. Redemption(v, n) = r
    BY DEF Redemption, SyToPy
<1> HIDE DEF m, d
<1>3. r \in Nat /\ r * d <= n * m
    BY ONLY <1>1, n \in Nat, ShareOfRatio
<1> HIDE DEF r
<1>4. ASSUME n <= d PROVE r <= m
    <2>1. n * m <= d * m /\ d * m = m * d
        BY ONLY <1>1, <1>4, n \in Nat, d \in Nat, Scaled
    <2>2. r * d <= m * d
        BY <1>1, <1>3, <2>1
    <2> QED BY ONLY <1>1, <1>3, <2>2, Cancel
<1> QED BY <1>2, <1>3, <1>4 DEF m, d

(* The SY set aside for PT are at most their value at par, and at most the *)
(* SY that nobody else has a claim on.                                     *)
LEMMA SetAside ==
    ASSUME NEW v \in VaultRecord
    PROVE  /\ SetSyForPt(v).forPt <= ActiveSy(v)
           /\ v.last > 0 => SetSyForPt(v).forPt <= PyToSy(v.last, v.pts)
<1>1. ActiveSy(v) \in Nat
    BY DEF ActiveSy, Larger, VaultRecord
<1>2. v.last > 0 => v.last # 0 /\ PyToSy(v.last, v.pts) \in Nat
    BY ConversionNat DEF VaultRecord
<1>3. v.last \in Nat /\ (v.last # 0 => PyToSy(v.last, v.pts) \in Nat)
    BY ConversionNat DEF VaultRecord
<1>4. SetSyForPt(v).forPt = IF v.last = 0 THEN 0
                            ELSE Smaller(PyToSy(v.last, v.pts), ActiveSy(v))
    BY DEF SetSyForPt, VaultRecord
<1> QED BY <1>1, <1>2, <1>3, <1>4 DEF Smaller

(* At a rate at which all PT are backed at par at most, PT redeem for no   *)
(* more than their value at par.                                           *)
LEMMA RedeemedAtPar ==
    ASSUME NEW rate \in Nat \ {0}, NEW v \in VaultRecord, v.pts > 0,
           v.forPt <= PyToSy(rate, v.pts), NEW n \in Nat
    PROVE  Redemption(v, n) \in Nat /\ Redemption(v, n) * rate <= n * ONE
<1> DEFINE d == v.pts
           m == v.forPt
           r == Redemption(v, n)
<1>1. ONE \in Nat \ {0} /\ d \in Nat \ {0} /\ m \in Nat
    BY ONEAssumption DEF VaultRecord
<1>2. m * rate <= d * ONE
    <2>1. PyToSy(rate, d) \in Nat /\ PyToSy(rate, d) * rate <= d * ONE
        BY ONLY <1>1, rate \in Nat \ {0}, ConvertedAtPar
    <2>2. m <= PyToSy(rate, d)
        OBVIOUS
    <2> HIDE DEF m, d
    <2>3. m * rate <= PyToSy(rate, d) * rate
        BY ONLY <1>1, <2>1, <2>2, rate \in Nat, Scaled
    <2>4. m * rate \in Nat /\ PyToSy(rate, d) * rate \in Nat /\ d * ONE \in Nat
        BY <1>1, <2>1
    <2> QED BY ONLY <2>1, <2>3, <2>4
<1>3. r \in Nat /\ r * d <= n * m
    BY RedeemedInShare
<1> HIDE DEF r, d, m
<1>4. (r * rate) * d <= (n * ONE) * d
    <2>1. (r * d) * rate <= (n * m) * rate
        <3>1. r * d \in Int /\ n * m \in Int
            BY <1>1, <1>3
        <3> QED BY ONLY <1>3, <3>1, rate \in Nat, Scaled
    <2>2. (m * rate) * n <= (d * ONE) * n
        <3>1. m * rate \in Int /\ d * ONE \in Int
            BY <1>1
        <3> QED BY ONLY <1>2, <3>1, n \in Nat, Scaled
    <2>3. (r * rate) * d = (r * d) * rate /\ (n * m) * rate = (m * rate) * n
          /\ (d * ONE) * n = (n * ONE) * d
        BY <1>1, <1>3
    <2>4. (r * d) * rate \in Nat /\ (m * rate) * n \in Nat /\ (d * ONE) * n \in Nat
        BY <1>1, <1>3
    <2> QED BY ONLY <2>1, <2>2, <2>3, <2>4
<1>5. r * rate \in Int /\ n * ONE \in Int
    BY <1>1, <1>3
<1>6. r * rate <= n * ONE
    BY ONLY <1>1, <1>4, <1>5, Cancel
<1> QED BY <1>3, <1>6 DEF r

(* PT stripped from n SY then redeem for no more than the n SY.            *)
LEMMA RoundTrip ==
    ASSUME NEW rate \in Nat \ {0}, NEW n \in Nat, NEW v \in VaultRecord,
           v.pts > 0, v.forPt <= PyToSy(rate, v.pts)
    PROVE  Redemption(v, SyToPy(rate, n)) <= n
<1>1. ONE \in Nat \ {0} /\ n * rate \in Nat
    BY ONEAssumption, ProductNat
<1>2. PICK py \in Nat : py = SyToPy(rate, n) /\ py * ONE <= n * rate
    <2>1. SyToPy(rate, n) = (n * rate) \div ONE
        BY SyToPyFloor
    <2> QED BY <1>1, <2>1, Quotient
<1>3. PICK r \in Nat : r = Redemption(v, py) /\ r * rate <= py * ONE
    BY RedeemedAtPar
<1>4. r * rate <= n * rate
    <2>1. r * rate \in Nat /\ py * ONE \in Nat
        BY <1>1
    <2> QED BY ONLY <1>1, <1>2, <1>3, <2>1
<1>5. r <= n
    BY ONLY <1>4, n \in Nat, r \in Nat, rate \in Nat \ {0}, Cancel
<1> QED BY <1>2, <1>3, <1>5

(* Only a strip adds to the PT in circulation.                             *)
LEMMA OnlyStripsMint ==
    TypeOK /\ [Next]_vars => vault'.pts <= vault.pts \/ \E n \in Amounts : Strip(n)
<1> SUFFICES ASSUME TypeOK, [Next]_vars, \A n \in Amounts : ~Strip(n)
             PROVE  vault'.pts <= vault.pts
    OBVIOUS
<1>0. vault \in VaultRecord /\ vault.pts \in Nat
    BY DEF TypeOK, VaultRecord
<1>1. ASSUME vault'.pts = vault.pts PROVE vault'.pts <= vault.pts
    BY <1>0, <1>1
<1>2. CASE UNCHANGED vars
    BY <1>1, <1>2 DEF vars
<1>3. CASE Tick \/ SyRateMoves \/ SyEmissionAccrues \/ ModifyVaultSetting
                \/ ChangeClaimLimits
    BY <1>1, <1>3
       DEF Tick, SyRateMoves, SyEmissionAccrues, ModifyVaultSetting, ChangeClaimLimits
<1>4. ASSUME NEW n \in Amounts, Merge(n) PROVE vault'.pts <= vault.pts
    <2>1. vault'.pts = vault.pts - n
        BY <1>4, MergeEffect
    <2>2. n \in Nat
        BY VaultAssumptions
    <2> QED BY <1>0, <2>1, <2>2
<1>5. ASSUME NEW u \in Users, StageYield(u) PROVE vault'.pts <= vault.pts
    BY <1>1, <1>5, StageYieldEffect
<1>6. ASSUME NEW u \in Users, NEW n \in Amounts, DepositYt(u, n) \/ WithdrawYt(u, n)
      PROVE  vault'.pts <= vault.pts
    <2>1. CanSync /\ vault' = SetSyForPt(SettledVault(u))
        BY <1>6 DEF DepositYt, WithdrawYt
    <2> QED BY <1>1, <2>1, SettledVaultFields
<1>7. ASSUME NEW u \in Users, NEW n \in Requests(pos[u].staged),
             CollectInterest(u, n)
      PROVE  vault'.pts <= vault.pts
    <2>1. pos[u] \in PositionRecord
        BY DEF TypeOK, Positions
    <2>2. EarnVault(vault, pos[u]) \in VaultRecord
          /\ EarnVault(vault, pos[u]).pts = vault.pts
        BY <1>0, <2>1, EarnTypes DEF VaultRecord
    <2>3. vault' = InterestPaid(EarnVault(vault, pos[u]), n)
        BY <1>7 DEF CollectInterest
    <2>4. vault'.pts = vault.pts
        BY <2>2, <2>3 DEF InterestPaid, VaultRecord
    <2> QED BY <1>1, <2>4
<1>8. ASSUME NEW n \in Nat, CollectRobotInterest(n) \/ CollectTreasurySy(n)
      PROVE  vault'.pts <= vault.pts
    <2>1. vault'.pts = vault.pts
        BY <1>0, <1>8
           DEF CollectRobotInterest, CollectTreasurySy, InterestPaid, VaultRecord
    <2> QED BY <1>1, <2>1
<1>9. ASSUME NEW n \in Requests(pos[Robot].staged), CollectRobotInterest(n)
      PROVE  vault'.pts <= vault.pts
    BY <1>8, <1>9, RequestsNat DEF TypeOK, Positions, PositionRecord
<1>10. ASSUME NEW n \in Requests(vault.treasury), CollectTreasurySy(n)
       PROVE  vault'.pts <= vault.pts
    BY <1>0, <1>8, <1>10, RequestsNat DEF VaultRecord
<1>11. ASSUME NEW u \in Users, NEW i \in EmissionIds,
              NEW n \in Requests(trackers[u][i].staged), CollectEmission(u, i, n)
       PROVE  vault'.pts <= vault.pts
    BY <1>1, <1>11 DEF CollectEmission
<1>12. ASSUME NEW i \in EmissionIds,
              NEW n \in Requests(trackers[Robot][i].staged) \cup
                        Requests(emissions[i].treasury),
              CollectRobotEmission(i, n) \/ CollectTreasuryEmission(i, n)
       PROVE  vault'.pts <= vault.pts
    BY <1>1, <1>12 DEF CollectRobotEmission, CollectTreasuryEmission
<1> QED BY <1>2, <1>3, <1>4, <1>5, <1>6, <1>7, <1>9, <1>10, <1>11, <1>12 DEF Next

(* A strip backs all PT at par at most, at the rate it mints the new ones. *)
LEMMA StripBacking ==
    ASSUME TypeOK, NEW n \in Amounts, Strip(n)
    PROVE  /\ sy.rate \in Nat \ {0} /\ n \in Nat
           /\ vault'.pts = vault.pts + SyToPy(sy.rate, n)
           /\ vault'.total = vault.total + n
           /\ vault'.forPt <= PyToSy(sy.rate, vault'.pts)
<1> DEFINE py == SyToPy(SyncedVault.last, n)
           w == [SyncedVault EXCEPT !.total = @ + n, !.pts = @ + py]
<1>1. CanSync /\ n \in Nat /\ sy.rate \in Nat \ {0}
    BY VaultAssumptions DEF Strip, SyStateValid, TypeOK, SyRecord
<1>2. /\ SyncedVault \in VaultRecord /\ SyncedVault.last = sy.rate
      /\ SyncedVault.total = vault.total /\ SyncedVault.pts = vault.pts
    BY <1>1, SyncedTypes
<1>3. py = SyToPy(sy.rate, n) /\ py \in Nat
    BY <1>1, <1>2, ConversionNat
<1>4. vault' = SetSyForPt(w)
    BY DEF Strip
<1> HIDE DEF py
<1>5. /\ w \in VaultRecord /\ w.last = sy.rate
      /\ w.total = vault.total + n /\ w.pts = vault.pts + py
    <2> DEFINE total == SyncedVault.total + n
               pts == SyncedVault.pts + py
    <2>1. w = WithBalances(SyncedVault, total, pts)
        BY DEF WithBalances
    <2>2. total \in Nat /\ pts \in Nat
          /\ total = vault.total + n /\ pts = vault.pts + py
        BY <1>1, <1>2, <1>3 DEF VaultRecord
    <2> HIDE DEF w, total, pts
    <2>3. /\ WithBalances(SyncedVault, total, pts) \in VaultRecord
          /\ WithBalances(SyncedVault, total, pts).last = SyncedVault.last
          /\ WithBalances(SyncedVault, total, pts).total = total
          /\ WithBalances(SyncedVault, total, pts).pts = pts
        BY ONLY <1>2, <2>2, BalancesType
    <2> QED BY <1>2, <2>1, <2>2, <2>3
<1> HIDE DEF w
<1>6. vault'.pts = w.pts /\ vault'.total = w.total
    BY <1>4, <1>5, SetSyForPtFields
<1>7. vault'.forPt <= PyToSy(w.last, w.pts)
    BY <1>1, <1>4, <1>5, SetAside
<1> QED BY <1>1, <1>3, <1>5, <1>6, <1>7

(* Stripping SY and merging the new PT and YT at once yields no profit, at *)
(* any rate and after any history: the rounding of both conversions is in  *)
(* favour of the vault.                                                    *)
THEOREM NoProfitInRoundTrip == Spec => NoRoundTripGain
<1>1. ASSUME TypeOK, TypeOK', [Next]_vars, vault'.pts > vault.pts
      PROVE  Redemption(vault', vault'.pts - vault.pts) <= vault'.total - vault.total
    <2>1. vault \in VaultRecord /\ vault' \in VaultRecord
        BY <1>1 DEF TypeOK
    <2>2. vault.pts \in Nat /\ vault'.pts \in Nat /\ vault.total \in Nat
        BY <2>1 DEF VaultRecord
    <2>3. PICK n \in Amounts : Strip(n)
        BY <1>1, <2>2, OnlyStripsMint
    <2>4. /\ sy.rate \in Nat \ {0} /\ n \in Nat
          /\ vault'.pts = vault.pts + SyToPy(sy.rate, n)
          /\ vault'.total = vault.total + n
          /\ vault'.forPt <= PyToSy(sy.rate, vault'.pts)
        BY <1>1, <2>3, StripBacking
    <2>5. SyToPy(sy.rate, n) \in Nat
        BY <2>4, ConversionNat
    <2>6. vault'.pts - vault.pts = SyToPy(sy.rate, n) /\ vault'.total - vault.total = n
        BY <2>2, <2>4, <2>5
    <2>7. vault'.pts > 0
        BY <1>1, <2>2
    <2> QED BY <2>1, <2>4, <2>6, <2>7, RoundTrip
<1>2. TypeOK /\ TypeOK' /\ [Next]_vars =>
        [vault'.pts > vault.pts =>
            Redemption(vault', vault'.pts - vault.pts) <= vault'.total - vault.total]_vars
    BY <1>1
<1> QED BY <1>2, TypeCorrect, PTL DEF Spec, NoRoundTripGain

(* There are no PT before a positive rate has been taken over.             *)
PtHaveRate == wallet.pt > 0 => vault.ath > 0

RedeemInv == IInv /\ PtHaveRate

(* The first PT come with the first rate, and neither is forgotten.        *)
LEMMA NextRedeem == RedeemInv /\ [Next]_vars => RedeemInv'
<1> SUFFICES ASSUME RedeemInv, [Next]_vars PROVE RedeemInv'
    OBVIOUS
<1>1. IInv /\ IInv' /\ TypeOK /\ TypeOK'
    BY NextInv DEF RedeemInv, IInv
<1>2. wallet.pt = vault.pts /\ wallet'.pt = vault'.pts
    BY <1>1 DEF IInv, PySupply
<1>3. vault.pts \in Nat /\ vault'.pts \in Nat /\ vault.ath \in Nat /\ vault'.ath \in Nat
    BY <1>1 DEF TypeOK, VaultRecord
<1>4. CASE vault'.pts <= vault.pts
    <2>1. vault'.ath >= vault.ath
        BY <1>1, NextRates DEF RateStep
    <2> QED BY <1>1, <1>2, <1>3, <1>4, <2>1 DEF RedeemInv, PtHaveRate
<1>5. ASSUME NEW n \in Amounts, Strip(n) PROVE RedeemInv'
    <2>1. vault'.final > 0
        BY <1>1, <1>5, StripEffect DEF TakesOverRate
    <2>2. vault'.final <= vault'.ath /\ vault'.final \in Nat
        BY <1>1 DEF IInv, RateOrder, TypeOK, VaultRecord
    <2>3. vault'.ath > 0
        BY <1>3, <2>1, <2>2
    <2> QED BY <1>1, <2>3 DEF RedeemInv, PtHaveRate
<1> QED BY <1>1, <1>4, <1>5, OnlyStripsMint

(* The backing that taking over a rate computes.                           *)
LEMMA UpdatedBacking ==
    ASSUME TypeOK
    PROVE  /\ UpdatedVault.forPt <= vault.total
           /\ sy.rate > 0 => UpdatedVault.forPt <= PyToSy(sy.rate, vault.pts)
<1> DEFINE w == [vault EXCEPT !.treasury = @ + SurplusSy(vault, sy.rate),
                              !.last = sy.rate,
                              !.ath = Larger(sy.rate, @),
                              !.final = IF IsActive THEN sy.rate ELSE @]
<1>1. vault \in VaultRecord /\ sy.rate \in Nat /\ UpdatedVault \in VaultRecord
    BY UpdatedVaultFields DEF TypeOK, SyRecord
<1>2. ActiveSy(vault) \in Nat
    BY <1>1 DEF ActiveSy, Larger, VaultRecord
<1>3. SurplusSy(vault, sy.rate) \in Nat
    BY <1>1, <1>2, AppreciationNat DEF SurplusSy, VaultRecord
<1>4. /\ w \in VaultRecord /\ w.total = vault.total /\ w.last = sy.rate
      /\ w.pts = vault.pts
    <2> DEFINE treasury == vault.treasury + SurplusSy(vault, sy.rate)
               ath == Larger(sy.rate, vault.ath)
               final == IF IsActive THEN sy.rate ELSE vault.final
    <2>1. treasury \in Nat /\ ath \in Nat /\ final \in Nat
        BY <1>1, <1>3 DEF VaultRecord, Larger
    <2> HIDE DEF treasury, ath, final
    <2>2. w = [vault EXCEPT !.treasury = treasury, !.last = sy.rate,
                            !.ath = ath, !.final = final]
        BY DEF treasury, ath, final
    <2> HIDE DEF w
    <2> QED BY <1>1, <2>1, <2>2 DEF VaultRecord
<1>5. UpdatedVault = SetSyForPt(w)
    BY DEF UpdatedVault, UpdateFromSyState
<1> HIDE DEF w
<1>6. /\ UpdatedVault.forPt <= ActiveSy(w)
      /\ w.last > 0 => UpdatedVault.forPt <= PyToSy(w.last, w.pts)
    BY <1>4, <1>5, SetAside
<1>7. ActiveSy(w) <= w.total /\ ActiveSy(w) \in Nat
    BY <1>4 DEF ActiveSy, Larger, VaultRecord
<1>8. UpdatedVault.forPt \in Nat /\ w.total \in Nat
    BY <1>1, <1>4 DEF VaultRecord
<1> QED BY <1>4, <1>6, <1>7, <1>8

(* Taking over a rate that is not below the all-time high of a matured     *)
(* vault leaves a backing for the PT that the escrow covers.               *)
LEMMA RedeemableThen ==
    ASSUME RedeemInv, IsExpired, sy.rate >= vault.ath, wallet.pt > 0
    PROVE  /\ ~EmergencyMode(SyncedVault)
           /\ CanSync
           /\ SyncedVault \in VaultRecord
           /\ SyncedVault.pts = wallet.pt
           /\ SyncedVault.total = sy.position
           /\ SyncedVault.forPt <= SyncedVault.total
<1>1. IInv /\ TypeOK /\ vault.ath > 0
    BY DEF RedeemInv, IInv, PtHaveRate
<1>2. /\ vault \in VaultRecord /\ sy.rate \in Nat /\ vault.ath \in Nat
      /\ pos[Robot] \in PositionRecord
    BY <1>1 DEF TypeOK, SyRecord, VaultRecord, Positions
<1>3. vault.final > 0 /\ ~IsActive
    BY <1>1 DEF IInv, ZeroRateNeverRecorded, IsActive
<1>4. CanSync
    BY <1>1, <1>3, UpdatedVaultFields DEF CanSync, FinalRateKnown
<1>5. /\ SyncedVault \in VaultRecord
      /\ SyncedVault.last = sy.rate
      /\ SyncedVault.ath = Larger(sy.rate, vault.ath)
      /\ SyncedVault.total = vault.total
      /\ SyncedVault.pts = vault.pts
    BY <1>1, <1>4, SyncedTypes
<1>6. ~EmergencyMode(SyncedVault)
    BY <1>2, <1>5 DEF EmergencyMode, Larger
<1>7. SyncedVault.forPt <= vault.total
    <2>1. UpdatedVault \in VaultRecord
        BY <1>1, UpdatedVaultFields
    <2>2. SyncedVault.forPt = UpdatedVault.forPt
        BY <1>2, <2>1, EarnTypes DEF SyncedVault, VaultRecord
    <2> QED BY <1>1, <2>2, UpdatedBacking
<1> QED BY <1>1, <1>4, <1>5, <1>6, <1>7 DEF IInv, PySupply, EscrowInSync

(* Once the vault has matured and the rate is not below its all-time high, *)
(* every holder of PT can redeem them: no bound of merge stands in the way.*)
THEOREM MaturedPtRedeem == Spec => []MaturityRedeemable
<1>1. Init => RedeemInv
    BY InitInv DEF RedeemInv, PtHaveRate, Init
<1>2. ASSUME RedeemInv PROVE MaturityRedeemable
    <2> SUFFICES ASSUME IsExpired, sy.rate >= vault.ath, wallet.pt > 0
                 PROVE  /\ ~EmergencyMode(SyncedVault)
                        /\ CanSync
                        /\ \A n \in Amounts : n <= wallet.pt =>
                             /\ BurnedYt(n) <= Smaller(wallet.yt, SyncedRobot.yt)
                             /\ Redemption(SyncedVault, n)
                                    <= Smaller(SyncedVault.total, sy.position)
                             /\ n <= SyncedVault.pts
        BY DEF MaturityRedeemable
    <2>1. /\ ~EmergencyMode(SyncedVault) /\ CanSync
          /\ SyncedVault \in VaultRecord
          /\ SyncedVault.pts = wallet.pt
          /\ SyncedVault.total = sy.position
          /\ SyncedVault.forPt <= SyncedVault.total
        BY <1>2, RedeemableThen
    <2>2. TypeOK /\ ~IsActive
        BY <1>2 DEF RedeemInv, IInv, IsActive
    <2>3. SyncedVault.forPt \in Nat /\ SyncedVault.total \in Nat
          /\ SyncedVault.pts \in Nat
        BY <2>1 DEF VaultRecord
    <2>4. wallet.yt \in Nat /\ SyncedRobot.yt \in Nat
        BY <2>1, <2>2, SyncedTypes DEF TypeOK, PositionRecord
    <2> SUFFICES ASSUME NEW n \in Amounts, n <= wallet.pt
                 PROVE  /\ BurnedYt(n) <= Smaller(wallet.yt, SyncedRobot.yt)
                        /\ Redemption(SyncedVault, n)
                                <= Smaller(SyncedVault.total, sy.position)
                        /\ n <= SyncedVault.pts
        BY <2>1
    <2>5. BurnedYt(n) <= Smaller(wallet.yt, SyncedRobot.yt)
        BY <2>2, <2>4 DEF BurnedYt, Smaller
    <2>6. Redemption(SyncedVault, n) \in Nat
          /\ Redemption(SyncedVault, n) <= SyncedVault.forPt
        <3>1. n \in Nat /\ SyncedVault.pts > 0 /\ n <= SyncedVault.pts
            BY <2>1, VaultAssumptions
        <3> QED BY <2>1, <3>1, RedeemedInShare
    <2>7. Redemption(SyncedVault, n) <= Smaller(SyncedVault.total, sy.position)
        BY <2>1, <2>3, <2>6 DEF Smaller
    <2> QED BY <2>1, <2>5, <2>7
<1> QED BY <1>1, <1>2, NextRedeem, PTL DEF Spec
=============================================================================
