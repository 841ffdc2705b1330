------------------------------ MODULE Staking ------------------------------
(***************************************************************************)
(* The staking contract of detta-core: stake, unstake, request_unstake,    *)
(* complete_unstake, claim_staking_rewards and the accrual of rewards.     *)
(***************************************************************************)
EXTENDS ContractState

StakingInvariantsHold(w, c) ==
    LET sum == SumOver(w, "StakeBalance", c)
    IN  Fits(sum) /\ sum = TotalStaked(w, c)

StakingPendingUnbondingInvariantsHold(w, c) ==
    LET sum == SumOver(w, "PendingUnbond", c)
    IN  Fits(sum) /\ sum = TotalPendingUnbond(w, c)

CheckStaking(w, c) ==
    Require(StakingInvariantsHold(w, c) /\ StakingPendingUnbondingInvariantsHold(w, c), w, Ok(w))

(* What a staker has earned since the last accrual.                        *)
Accrued(w, c, staker) ==
    StakeBalance(w, c, staker) * Kind(w, c).reward_per_block
        * SaturatingSub(w.height, UintAt(w, <<"StakingLastRewardHeight", c, staker>>))

(* Mutant: the height of the accrual is not recorded.                      *)
AccrueStakingRewardsAgain(w, c, staker) ==
    LET accrued == Accrued(w, c, staker)
        reward == StakingRewardBalance(w, c, staker) + accrued
    IN  Require(Fits(accrued) /\ Fits(reward), w,
                Ok(StateSet(w, <<"StakingRewardBalance", c, staker>>, reward)))

(* accrue_staking_rewards precedes every change of a stake.                *)
AccrueStakingRewards(w, c, staker) ==
    LET accrued == Accrued(w, c, staker)
        reward == StakingRewardBalance(w, c, staker) + accrued
        earned == IF accrued = 0 THEN w
                  ELSE StateSet(w, <<"StakingRewardBalance", c, staker>>, reward)
    IN  Require(Fits(accrued) /\ Fits(reward), w,
                Ok(StateSet(earned, <<"StakingLastRewardHeight", c, staker>>, w.height)))

(* apply_staking_penalty: the penalty is rounded down.                     *)
Penalty(amount, penalty_bps) == (amount * penalty_bps) \div BasisPoints

(* The stake is taken into custody, then booked.                           *)
AddStake(w, t) ==
    LET c == t.target
        stake == StakeBalance(w, c, t.sender) + t.amount
        total == TotalStaked(w, c) + t.amount
        Book(v) == Require(Fits(stake) /\ Fits(total), v,
                           CheckStaking(StateSet(StateSet(v, <<"StakeBalance", c, t.sender>>, stake),
                                                 <<"TotalStaked", c>>, total), c))
    IN  Then(TransferAsset(w, t.sender, c, t.asset, t.amount), Book)

Stake(w, t) ==
    LET c == t.target
    IN  Require(t.asset = Kind(w, c).asset /\ t.amount # 0, w,
                Then(AccrueStakingRewards(w, c, t.sender), LAMBDA v : AddStake(v, t)))

(* The part unstake and request_unstake share: the amount leaves the stake,*)
(* and its penalty stays with the contract.                                *)
ReduceStake(w, t) ==
    LET c == t.target
        k == Kind(w, c)
        stake == StakeBalance(w, c, t.sender)
        total == TotalStaked(w, c)
        penalty == Penalty(t.amount, k.penalty_bps)
        collected == StakingPenaltyCollected(w, c) + penalty
        reduced == StateSet(StateSet(w, <<"StakeBalance", c, t.sender>>, stake - t.amount),
                            <<"TotalStaked", c>>, total - t.amount)
    IN  Require(/\ stake >= t.amount /\ total >= t.amount
                /\ Fits(t.amount * k.penalty_bps) /\ Fits(collected),
                w, Ok(IF penalty = 0 THEN reduced
                      ELSE StateSet(reduced, <<"StakingPenaltyCollected", c>>, collected)))

Unstake(w, t) ==
    LET c == t.target
        k == Kind(w, c)
        released == t.amount - Penalty(t.amount, k.penalty_bps)
        Pay(v) == IF released = 0 THEN Ok(v)
                  ELSE TransferAsset(v, c, t.sender, t.asset, released)
    IN  Require(/\ k.unbonding_delay = 0
                /\ t.asset = k.asset /\ t.amount # 0,
                w, Then(Then(Then(AccrueStakingRewards(w, c, t.sender),
                                  LAMBDA v : Require(Resolves(v, t.asset), v, ReduceStake(v, t))),
                             Pay),
                        LAMBDA v : CheckStaking(v, c)))

(* Mutant: a staker with something pending keeps the first ready height.   *)
ReadyHeightKept(w, c, staker, unbonding_delay) ==
    IF PendingUnbond(w, c, staker) # 0
    THEN UintAt(w, <<"UnbondReadyHeight", c, staker>>)
    ELSE w.height + unbonding_delay

(* The ready height of all that a staker has pending is set anew by each   *)
(* request.                                                                *)
ReadyHeight(w, c, staker, unbonding_delay) == w.height + unbonding_delay

(* What is released is put to unbonding.                                   *)
Unbond(w, t, ready) ==
    LET c == t.target
        released == t.amount - Penalty(t.amount, Kind(w, c).penalty_bps)
        pending == PendingUnbond(w, c, t.sender) + released
        total == TotalPendingUnbond(w, c) + released
    IN  Require(Fits(pending) /\ Fits(total), w,
                CheckStaking(StateSet(StateSet(StateSet(w,
                                 <<"PendingUnbond", c, t.sender>>, pending),
                                 <<"TotalPendingUnbond", c>>, total),
                                 <<"UnbondReadyHeight", c, t.sender>>, ready), c))

RequestUnstake(w, t) ==
    LET c == t.target
        k == Kind(w, c)
        ready == ReadyHeight(w, c, t.sender, k.unbonding_delay)
    IN  Require(t.asset = k.asset /\ t.amount # 0, w,
                Then(Then(AccrueStakingRewards(w, c, t.sender),
                          LAMBDA v : Require(w.height + k.unbonding_delay <= MaxHeight, v,
                                             ReduceStake(v, t))),
                     LAMBDA v : Unbond(v, t, ready)))

CompleteUnstake(w, t) ==
    LET c == t.target
        pending == PendingUnbond(w, c, t.sender)
        total == TotalPendingUnbond(w, c)
        taken == StateSet(StateSet(w, <<"PendingUnbond", c, t.sender>>, pending - t.amount),
                          <<"TotalPendingUnbond", c>>, total - t.amount)
    IN  Require(/\ t.asset = Kind(w, c).asset /\ t.amount # 0
                /\ w.height >= UintAt(w, <<"UnbondReadyHeight", c, t.sender>>)
                /\ pending >= t.amount /\ total >= t.amount,
                w, Then(TransferAsset(taken, c, t.sender, t.asset, t.amount),
                        LAMBDA v : Require(StakingPendingUnbondingInvariantsHold(v, c), v, Ok(v))))

(* The booked rewards are cleared and minted to the staker.                *)
PayRewards(w, t) ==
    LET claimed == StakingRewardBalance(w, t.target, t.sender)
        cleared == StateSet(w, <<"StakingRewardBalance", t.target, t.sender>>, 0)
    IN  IF claimed = 0 THEN Ok(cleared)
        ELSE MintAsset(cleared, t.sender, t.asset, claimed)

ClaimStakingRewards(w, t) ==
    Require(t.asset = Kind(w, t.target).asset, w,
            Then(AccrueStakingRewards(w, t.target, t.sender), LAMBDA v : PayRewards(v, t)))

=============================================================================
