------------------------------ MODULE AmmPool ------------------------------
(***************************************************************************)
(* The constant-product pool of detta-core: add_liquidity and swap.  There *)
(* is no operation that removes liquidity.  msg_sender is t.sender: the    *)
(* pool is only called from outside.                                       *)
(***************************************************************************)
EXTENDS ContractState

AmmInvariantsHold(w, c) ==
    LET sum == SumOver(w, "LpBalance", c)
    IN  Fits(sum) /\ sum = LpSupply(w, c)

(* What a pool keeps up: the product of its reserves.                      *)
PoolProduct(w, c) ==
    Reserve(w, c, Kind(w, c).asset_a) * Reserve(w, c, Kind(w, c).asset_b)

(* Each counter is added to with overflow checks.                          *)
BookLiquidity(w, t, reserve_a, reserve_b, lp_supply, lp_balance) ==
    LET c == t.target
        k == Kind(w, c)
        minted_lp == t.amount + t.amount_b
        reserved == StateSet(StateSet(w, <<"Reserve", c, k.asset_a>>, reserve_a + t.amount),
                             <<"Reserve", c, k.asset_b>>, reserve_b + t.amount_b)
        booked == StateSet(StateSet(reserved, <<"LpSupply", c>>, lp_supply + minted_lp),
                           <<"LpBalance", c, t.sender>>, lp_balance + minted_lp)
    IN  Require(/\ Fits(reserve_a + t.amount) /\ Fits(reserve_b + t.amount_b)
                /\ Fits(lp_supply + minted_lp) /\ Fits(lp_balance + minted_lp),
                w, Require(AmmInvariantsHold(booked, c), booked, Ok(booked)))

(* The reserves and the shares are read before the transfers.              *)
AddLiquidity(w, t) ==
    LET c == t.target
        k == Kind(w, c)
    IN  Require(/\ t.amount # 0 /\ t.amount_b # 0 /\ Fits(t.amount + t.amount_b)
                /\ Resolves(w, k.asset_a) /\ Resolves(w, k.asset_b),
                w, Then(Then(TransferAsset(w, t.sender, c, k.asset_a, t.amount),
                             LAMBDA v : TransferAsset(v, t.sender, c, k.asset_b, t.amount_b)),
                        LAMBDA v : BookLiquidity(v, t, Reserve(w, c, k.asset_a),
                                                 Reserve(w, c, k.asset_b), LpSupply(w, c),
                                                 LpBalance(w, c, t.sender))))

(* amount_after_fee, rounded down: the remainder goes to the fee.          *)
AmountAfterFee(amount, fee_bps) == (amount * (BasisPoints - fee_bps)) \div BasisPoints

(* Mutant: the output is rounded up.                                       *)
AmountOutRoundedUp(reserve_in, reserve_out, in_with_fee) ==
    (reserve_out * in_with_fee + reserve_in + in_with_fee - 1) \div (reserve_in + in_with_fee)

(* The output of a swap, rounded down.                                     *)
AmountOut(reserve_in, reserve_out, in_with_fee) ==
    (reserve_out * in_with_fee) \div (reserve_in + in_with_fee)

BookSwap(w, t, output, reserve_in, reserve_out, fee_amount) ==
    LET c == t.target
        fee == AmmFeeCollected(w, c, t.asset) + fee_amount
        moved == StateSet(StateSet(w, <<"Reserve", c, t.asset>>, reserve_in),
                          <<"Reserve", c, output>>, reserve_out)
        booked == IF fee_amount = 0 THEN moved
                  ELSE StateSet(moved, <<"AmmFeeCollected", c, t.asset>>, fee)
    IN  Require(Fits(reserve_in) /\ Fits(fee), w,
                Require(AmmInvariantsHold(booked, c), booked, Ok(booked)))

Swap(w, t) ==
    LET c == t.target
        k == Kind(w, c)
        input == t.asset
        output == IF input = k.asset_a THEN k.asset_b ELSE k.asset_a
        reserve_in == Reserve(w, c, input)
        reserve_out == Reserve(w, c, output)
        in_with_fee == AmountAfterFee(t.amount, k.swap_fee_bps)
        amount_out == AmountOut(reserve_in, reserve_out, in_with_fee)
    IN  Require(/\ t.amount # 0
                /\ input \in {k.asset_a, k.asset_b}
                /\ Resolves(w, input) /\ Resolves(w, output)
                /\ reserve_in # 0 /\ reserve_out # 0
                /\ Fits(t.amount * (BasisPoints - k.swap_fee_bps))
                /\ Fits(reserve_out * in_with_fee) /\ Fits(reserve_in + in_with_fee)
                /\ amount_out # 0 /\ amount_out <= reserve_out
                /\ amount_out >= t.min_output,
                w, Then(Then(TransferAsset(w, t.sender, c, input, t.amount),
                             LAMBDA v : TransferAsset(v, c, t.sender, output, amount_out)),
                        LAMBDA v : BookSwap(v, t, output, reserve_in + t.amount,
                                            reserve_out - amount_out, t.amount - in_with_fee)))

=============================================================================
