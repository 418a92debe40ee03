------------------------------- MODULE Rewards -------------------------------
(***************************************************************************)
(* Reward farms for staked LP (periphery/clearstone_rewards).  A FarmState  *)
(* streams one reward token per farm to the stakers, pro rata, through an   *)
(* index per farm; a StakePosition keeps one tracker per farm, found by     *)
(* the farm's place in the list.  One action is one instruction; an         *)
(* instruction that fails is a disabled action.                             *)
(***************************************************************************)
EXTENDS FixedPoint, Sums, Sequences, SequencesExt

CONSTANTS
    Stakers,
    Mints,          \* reward mints a farm can be added for
    LpOf,           \* LP tokens each staker owns at first
    Amounts,        \* LP amounts of a stake or an unstake
    TokenRates,     \* reward tokens per second
    Expiries,       \* expiry timestamps
    Refills,        \* amounts of a refill
    MaxEscrow,      \* bound on the tokens of a reward escrow
    MaxAdded,       \* bound on the farms ever added
    Horizon         \* bound on the clock

ASSUME RewardsAssumptions ==
    /\ IsFiniteSet(Stakers)
    /\ LpOf \in [Stakers -> Nat]
    /\ Amounts \subseteq Nat \ {0}
    /\ TokenRates \subseteq Nat
    /\ Expiries \subseteq Nat
    /\ Refills \subseteq Nat \ {0}
    /\ MaxEscrow \in Nat
    /\ MaxAdded \in Nat
    /\ Horizon \in Nat

VARIABLES
    now,
    farms,          \* FarmState::farms
    lastUpdate,     \* FarmState::last_update_ts
    totalStaked,    \* FarmState::total_staked
    pos,            \* the StakePosition of each staker
    lp,             \* LP tokens: each staker's wallet
    lpEscrow,       \* LP tokens in the program's escrow
    escrow,         \* reward tokens of the FarmState, by mint
    paid,           \* history: reward tokens claimed, by staker and mint
    addedAt,        \* history: last_update_ts when a mint's farm was added
    removed         \* history: how many farms were decommissioned

vars == <<now, farms, lastUpdate, totalStaked, pos, lp, lpEscrow, escrow,
          paid, addedAt, removed>>

FarmRecord == [mint : Mints, rate : Nat, expiry : Nat, index : Nat]
Tracker == [seen : Nat, claimable : Nat]

(* The account of a position has room for `space` trackers.                *)
PositionRecord ==
    [open : BOOLEAN, staked : Nat, trackers : Seq(Tracker), space : Nat]

NoPosition == [open |-> FALSE, staked |-> 0, trackers |-> <<>>, space |-> 0]
NewTracker == [seen |-> 0, claimable |-> 0]

FarmMints == {farms[i].mint : i \in DOMAIN farms}

-----------------------------------------------------------------------------
(* Accrual.                                                                *)

ActiveTimeUnguarded(f, t) == Smaller(f.expiry, t) - lastUpdate

(* Seconds for which farm f still has to be accounted for at time t.       *)
ActiveTime(f, t) ==
    IF lastUpdate >= Smaller(f.expiry, t) THEN 0
    ELSE Smaller(f.expiry, t) - lastUpdate

(* update_indexes: without stake, the time simply passes.                  *)
Advanced(t) ==
    IF totalStaked = 0 THEN farms
    ELSE [i \in DOMAIN farms |->
            [farms[i] EXCEPT
                !.index = @ + FromRatio(farms[i].rate * ActiveTime(farms[i], t),
                                        totalStaked)]]

TrackerAt(p, i) == IF i \in DOMAIN p.trackers THEN p.trackers[i] ELSE NewTracker

SeenKept(t, index, staked) ==
    [t EXCEPT !.claimable = @ + ShareValue(t.seen, index, staked)]
CreditLost(t, index, staked) ==
    [seen |-> index, claimable |-> ShareValue(t.seen, index, staked)]

(* A tracker ahead of its index earns nothing and is set back to it.       *)
Credited(t, index, staked) ==
    [seen |-> index,
     claimable |-> t.claimable + ShareValue(t.seen, index, staked)]

(* settle_user: trackers beyond the farm list stay as they are.            *)
Settled(p, fs) ==
    [p EXCEPT !.trackers =
        [i \in 1..Larger(Len(p.trackers), Len(fs)) |->
            IF i \in DOMAIN fs
            THEN Credited(TrackerAt(p, i), fs[i].index, p.staked)
            ELSE p.trackers[i]]]

FitsExactly(p) == p.space = Len(farms)

(* require_position_fits.                                                  *)
Fits(p) == p.space >= Len(farms)

Brought(t) ==
    /\ farms' = Advanced(t)
    /\ lastUpdate' = t

-----------------------------------------------------------------------------
(* Stakers.                                                                *)

(* init_if_needed: a new account gets room for the farms there are, an     *)
(* existing one must have exactly that room.                               *)
Prepared(p) == IF p.open THEN p ELSE [p EXCEPT !.open = TRUE, !.space = Len(farms)]

StakeLp(u, amount) ==
    LET p == Settled(Prepared(pos[u]), Advanced(now)) IN
    /\ amount <= lp[u]
    /\ Prepared(pos[u]).space = Len(farms)
    /\ Fits(Prepared(pos[u]))
    /\ Brought(now)
    /\ pos' = [pos EXCEPT ![u] = [p EXCEPT !.staked = @ + amount]]
    /\ totalStaked' = totalStaked + amount
    /\ lp' = [lp EXCEPT ![u] = @ - amount]
    /\ lpEscrow' = lpEscrow + amount
    /\ UNCHANGED <<now, escrow, paid, addedAt, removed>>

TotalKept(amount) == totalStaked
TotalWithout(amount) == IF amount > totalStaked THEN 0 ELSE totalStaked - amount

UnstakeLp(u, amount) ==
    LET p == Settled(pos[u], Advanced(now)) IN
    /\ pos[u].open
    /\ Fits(pos[u])
    /\ amount <= pos[u].staked
    /\ amount <= lpEscrow
    /\ Brought(now)
    /\ pos' = [pos EXCEPT ![u] = [p EXCEPT !.staked = @ - amount]]
    /\ totalStaked' = TotalWithout(amount)
    /\ lp' = [lp EXCEPT ![u] = @ + amount]
    /\ lpEscrow' = lpEscrow - amount
    /\ UNCHANGED <<now, escrow, paid, addedAt, removed>>

(* The claim of the farm at place i of the list, paid from its escrow.     *)
ClaimFarmEmission(u, i) ==
    LET p == Settled(pos[u], Advanced(now))
        m == farms[i].mint
        amount == p.trackers[i].claimable
    IN  /\ pos[u].open
        /\ Fits(pos[u])
        /\ amount > 0
        /\ amount <= escrow[m]
        /\ Brought(now)
        /\ pos' = [pos EXCEPT ![u] = [p EXCEPT !.trackers[i].claimable = 0]]
        /\ escrow' = [escrow EXCEPT ![m] = @ - amount]
        /\ paid' = [paid EXCEPT ![u][m] = @ + amount]
        /\ UNCHANGED <<now, totalStaked, lp, lpEscrow, addedAt, removed>>

(* Anchor resizes the account to the farm list's length; a position whose  *)
(* trackers no longer fit fails to serialize.                              *)
ReallocStakePosition(u) ==
    /\ pos[u].open
    /\ Len(pos[u].trackers) <= Len(farms)
    /\ pos' = [pos EXCEPT ![u].space = Len(farms)]
    /\ UNCHANGED <<now, farms, lastUpdate, totalStaked, lp, lpEscrow, escrow,
                   paid, addedAt, removed>>

-----------------------------------------------------------------------------
(* The curator.                                                            *)

(* The indexes of the other farms are not brought up to date, so the new   *)
(* farm streams from the last update on.                                   *)
AddFarm(m, rate, expiry) ==
    /\ m \notin FarmMints
    /\ Len(farms) + removed < MaxAdded
    /\ farms' = Append(farms, [mint |-> m, rate |-> rate, expiry |-> expiry,
                               index |-> 0])
    /\ addedAt' = [addedAt EXCEPT ![m] = lastUpdate]
    /\ UNCHANGED <<now, lastUpdate, totalStaked, pos, lp, lpEscrow, escrow,
                   paid, removed>>

RefillFarm(m, amount) ==
    /\ m \in FarmMints
    /\ escrow[m] + amount <= MaxEscrow
    /\ escrow' = [escrow EXCEPT ![m] = @ + amount]
    /\ UNCHANGED <<now, farms, lastUpdate, totalStaked, pos, lp, lpEscrow,
                   paid, addedAt, removed>>

(* The escrow is swept and the farm cut out of the list.                   *)
DecommissionFarm(i) ==
    /\ now >= farms[i].expiry
    /\ farms' = RemoveAt(Advanced(now), i)
    /\ lastUpdate' = now
    /\ escrow' = [escrow EXCEPT ![farms[i].mint] = 0]
    /\ removed' = removed + 1
    /\ UNCHANGED <<now, totalStaked, pos, lp, lpEscrow, paid, addedAt>>

Tick ==
    /\ now < Horizon
    /\ now' = now + 1
    /\ UNCHANGED <<farms, lastUpdate, totalStaked, pos, lp, lpEscrow, escrow,
                   paid, addedAt, removed>>

-----------------------------------------------------------------------------

(* initialize_farm_state.                                                  *)
Init ==
    /\ now = 0
    /\ farms = <<>>
    /\ lastUpdate = now
    /\ totalStaked = 0
    /\ pos = [u \in Stakers |-> NoPosition]
    /\ lp = LpOf
    /\ lpEscrow = 0
    /\ escrow = [m \in Mints |-> 0]
    /\ paid = [u \in Stakers |-> [m \in Mints |-> 0]]
    /\ addedAt = [m \in Mints |-> 0]
    /\ removed = 0

Next ==
    \/ \E u \in Stakers, a \in Amounts : StakeLp(u, a) \/ UnstakeLp(u, a)
    \/ \E u \in Stakers, i \in DOMAIN farms : ClaimFarmEmission(u, i)
    \/ \E u \in Stakers : ReallocStakePosition(u)
    \/ \E m \in Mints, r \in TokenRates, e \in Expiries : AddFarm(m, r, e)
    \/ \E m \in Mints, a \in Refills : RefillFarm(m, a)
    \/ \E i \in DOMAIN farms : DecommissionFarm(i)
    \/ Tick

Spec == Init /\ [][Next]_vars

(* A staker who wants out resubmits: a realloc while the position is stale *)
(* and an unstake of all of the stake.  Nobody else is obliged to act.     *)
Leave(u) == \E a \in Amounts : a = pos[u].staked /\ UnstakeLp(u, a)

Persistence(u) == WF_vars(ReallocStakePosition(u)) /\ SF_vars(Leave(u))

FairSpec == Spec /\ \A u \in Stakers : Persistence(u)

-----------------------------------------------------------------------------

(* Every balance, index and tracker is a natural number.                   *)
TypeOK ==
    /\ now \in Nat
    /\ farms \in Seq(FarmRecord)
    /\ lastUpdate \in Nat
    /\ totalStaked \in Nat
    /\ pos \in [Stakers -> PositionRecord]
    /\ lp \in [Stakers -> Nat]
    /\ lpEscrow \in Nat
    /\ escrow \in [Mints -> Nat]
    /\ paid \in [Stakers -> [Mints -> Nat]]
    /\ addedAt \in [Mints -> Nat]
    /\ removed \in Nat

(* stake_lp, unstake_lp: the escrow, the total that divides every emission *)
(* and the stakes of all positions agree, so no unstake finds it short.    *)
StakesEscrowed ==
    /\ lpEscrow = totalStaked
    /\ totalStaked = Total(Stakers, [u \in Stakers |-> pos[u].staked])

(* What the stakers hold of the stream of the farm at place i, scaled by   *)
(* ONE: claimed, claimable, and earned since their last touch.             *)
Held(u, i) ==
    LET t == TrackerAt(pos[u], i) IN
    ONE * (paid[u][farms[i].mint] + t.claimable)
        + (farms[i].index - t.seen) * pos[u].staked

(* The tokens farm i has streamed up to the last update.                   *)
Streamed(i) ==
    LET end == Smaller(farms[i].expiry, lastUpdate)
        begin == addedAt[farms[i].mint]
    IN  IF end <= begin THEN 0 ELSE farms[i].rate * (end - begin)

(* update_indexes and settle_user: until a farm is decommissioned, all     *)
(* that stakers have claimed and can claim of a farm stays within its rate *)
(* times the time since it was added, whatever stakes came and went.       *)
StreamBounded ==
    removed = 0 =>
        \A i \in DOMAIN farms :
            Total(Stakers, [u \in Stakers |-> Held(u, i)]) <= ONE * Streamed(i)

(* What u would be credited in all if settled now.                         *)
Owed(u, m) ==
    paid[u][m] +
    IF m \in FarmMints
    THEN LET i == CHOOSE j \in DOMAIN farms : farms[j].mint = m
             p == Settled(pos[u], Advanced(now))
         IN  p.trackers[i].claimable
    ELSE 0

(* A step that takes no time neither earns nor costs anybody anything: a   *)
(* stake, an unstake, a claim, a refill or a change of rate leaves what    *)
(* every staker is owed and was paid in all exactly as it was.             *)
OnlyTimePays ==
    [][(now' = now /\ FarmMints' = FarmMints) =>
        \A u \in Stakers, m \in Mints : Owed(u, m)' = Owed(u, m)]_vars

(* The comment on decommission_farm promises that claimable buckets stay   *)
(* untouched: what a staker is owed by the farms that remain does not      *)
(* depend on the farm that goes.                                           *)
OthersKeepTheirClaims ==
    [][removed' # removed =>
        \A u \in Stakers, m \in FarmMints' : Owed(u, m)' = Owed(u, m)]_vars

(* A staker who persists gets the LP back, however often farms are added   *)
(* and removed meanwhile.                                                  *)
StakersCanLeave ==
    \A u \in Stakers : pos[u].staked > 0 ~> pos[u].staked = 0
=============================================================================
