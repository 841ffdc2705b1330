---------------------------- MODULE LendingVault ----------------------------
(***************************************************************************)
(* The price oracle and the lending vault of detta-core: submit_price,     *)
(* deposit_collateral, borrow, liquidate and the accrual of interest.      *)
(* Nothing repays a debt but a liquidation, and nothing returns collateral *)
(* to its depositor.  Lenders fund a vault by transferring to it.          *)
(***************************************************************************)
EXTENDS ContractState

(* Nothing orders the timestamps of successive updates.                    *)
SubmitPrice(w, t) ==
    LET c == t.target
    IN  Require(/\ t.asset = Kind(w, c).asset
                /\ t.price # 0
                /\ SaturatingAdd(t.timestamp, Kind(w, c).max_age) >= w.height
                /\ HasGrant(w, <<"OracleUpdater", c, t.sender>>),
                w, Ok(StateSet(StateSet(w, <<"OraclePrice", c, t.asset>>, t.price),
                               <<"OracleTimestamp", c, t.asset>>, t.timestamp)))

(* The price of a vault's collateral: zero when its oracle is one for      *)
(* another asset, which no deployment function refuses.                    *)
CollateralPrice(w, k) == OraclePrice(w, k.oracle, k.collateral_asset)

FreshLendingCollateralPrice(w, k) ==
    /\ SaturatingAdd(OracleTimestamp(w, k.oracle, k.collateral_asset), k.max_oracle_age) >= w.height
    /\ CollateralPrice(w, k) # 0

(* lending_debt_limit, rounded down, and its overflow checks.              *)
LendingDebtLimit(collateral, price, bps) == (collateral * price * bps) \div BasisPoints
LimitFits(collateral, price, bps) == Fits(collateral * price) /\ Fits(collateral * price * bps)

DivCeil(n, d) == (n + d - 1) \div d

Lower(a, b) == IF a < b THEN a ELSE b

Interest(w, c, borrower) ==
    LET debt == Debt(w, c, borrower)
        elapsed == SaturatingSub(w.height, UintAt(w, <<"DebtLastAccrualHeight", c, borrower>>))
    IN  (debt * Kind(w, c).interest_bps * elapsed) \div BasisPoints

(* accrue_lending_debt: the height is recorded even when the interest      *)
(* rounds down to zero.                                                    *)
AccrueLendingDebt(w, c, borrower) ==
    LET debt == Debt(w, c, borrower)
        elapsed == SaturatingSub(w.height, UintAt(w, <<"DebtLastAccrualHeight", c, borrower>>))
        interest == Interest(w, c, borrower)
        charged == IF interest = 0 THEN w ELSE StateSet(w, <<"Debt", c, borrower>>, debt + interest)
    IN  Require(/\ Fits(debt * Kind(w, c).interest_bps * elapsed)
                /\ Fits(debt + interest),
                w, Ok(StateSet(charged, <<"DebtLastAccrualHeight", c, borrower>>, w.height)))

DepositCollateral(w, t) ==
    LET c == t.target
        next == Collateral(w, c, t.sender) + t.amount
    IN  Require(t.asset = Kind(w, c).collateral_asset /\ t.amount # 0, w,
                Then(TransferAsset(w, t.sender, c, t.asset, t.amount),
                     LAMBDA v : Require(Fits(next), v,
                                        Ok(StateSet(v, <<"Collateral", c, t.sender>>, next)))))

(* Mutant: the limit is compared with the debt before its interest.        *)
BorrowBeforeInterest(w, t) ==
    LET c == t.target
        k == Kind(w, c)
        collateral == Collateral(w, c, t.sender)
        price == CollateralPrice(w, k)
        Lend(v) ==
            LET next_debt == Debt(v, c, t.sender) + t.amount
            IN  Require(/\ Fits(next_debt) /\ LimitFits(collateral, price, k.ltv_bps)
                        /\ Debt(w, c, t.sender) + t.amount
                              <= LendingDebtLimit(collateral, price, k.ltv_bps),
                        v, Then(TransferAsset(v, c, t.sender, k.debt_asset, t.amount),
                                LAMBDA u : Ok(StateSet(u, <<"Debt", c, t.sender>>, next_debt))))
    IN  Require(t.asset = k.debt_asset /\ t.amount # 0 /\ FreshLendingCollateralPrice(w, k), w,
                Then(AccrueLendingDebt(w, c, t.sender), Lend))

Borrow(w, t) ==
    LET c == t.target
        k == Kind(w, c)
        collateral == Collateral(w, c, t.sender)
        price == CollateralPrice(w, k)
        Lend(v) ==
            LET next_debt == Debt(v, c, t.sender) + t.amount
            IN  Require(/\ Fits(next_debt) /\ LimitFits(collateral, price, k.ltv_bps)
                        /\ next_debt <= LendingDebtLimit(collateral, price, k.ltv_bps),
                        v, Then(TransferAsset(v, c, t.sender, k.debt_asset, t.amount),
                                LAMBDA u : Ok(StateSet(u, <<"Debt", c, t.sender>>, next_debt))))
    IN  Require(t.asset = k.debt_asset /\ t.amount # 0 /\ FreshLendingCollateralPrice(w, k), w,
                Then(AccrueLendingDebt(w, c, t.sender), Lend))

(* lending_invariants_hold: every stored debt, as last accrued, is within  *)
(* the loan-to-value limit at the price the oracle now stores.             *)
LendingInvariantsHold(w, c) ==
    LET k == Kind(w, c)
        price == CollateralPrice(w, k)
    IN  \A key \in DOMAIN w.storage :
            (key[1] = "Debt" /\ key[2] = c /\ w.storage[key] # 0) =>
                LET collateral == Collateral(w, c, key[3])
                IN  /\ price # 0
                    /\ LimitFits(collateral, price, k.ltv_bps)
                    /\ w.storage[key] <= LendingDebtLimit(collateral, price, k.ltv_bps)

(* Mutant: the debt is cancelled without a trace.                          *)
WrittenOffNothing(debt_left, collateral_left) == 0

(* What a liquidation leaves: the debt that can no longer be covered is    *)
(* written off to the vault's bad debt once the collateral is gone.        *)
WrittenOff(debt_left, collateral_left) == IF collateral_left = 0 THEN debt_left ELSE 0

(* The repayment is taken, the seized collateral paid out, and both booked.*)
ExchangeForCollateral(w, t, repaid, seized) ==
    LET k == Kind(w, t.target)
    IN  Then(TransferAsset(w, t.sender, t.target, k.debt_asset, repaid),
             LAMBDA v : IF seized = 0 THEN Ok(v)
                        ELSE TransferAsset(v, t.target, t.sender, k.collateral_asset, seized))

BookLiquidation(w, t, debt_after, collateral_after) ==
    LET booked == StateSet(StateSet(w, <<"Debt", t.target, t.borrower>>, debt_after),
                           <<"Collateral", t.target, t.borrower>>, collateral_after)
    IN  Require(LendingInvariantsHold(booked, t.target), booked, Ok(booked))

Settle(w, t, price) ==
    LET c == t.target
        k == Kind(w, c)
        debt == Debt(w, c, t.borrower)
        collateral == Collateral(w, c, t.borrower)
        repaid == Lower(t.amount, debt)
        seized == Lower(DivCeil(repaid, price), collateral)
        collateral_after == collateral - seized
        closed == collateral_after = 0 /\ debt # repaid
        bad_debt == BadDebt(w, c) + WrittenOff(debt - repaid, collateral_after)
        debt_after == IF closed THEN 0 ELSE debt - repaid
        written == IF closed THEN StateSet(w, <<"BadDebt", c>>, bad_debt) ELSE w
    IN  Require(/\ debt # 0
                /\ LimitFits(collateral, price, k.threshold_bps)
                /\ debt > LendingDebtLimit(collateral, price, k.threshold_bps)
                /\ Fits(repaid + price - 1)
                /\ closed => Fits(bad_debt)
                /\ ~closed => /\ LimitFits(collateral_after, price, k.ltv_bps)
                              /\ debt_after <= LendingDebtLimit(collateral_after, price, k.ltv_bps)
                /\ Resolves(w, k.debt_asset) /\ Resolves(w, k.collateral_asset),
                w, Then(ExchangeForCollateral(written, t, repaid, seized),
                        LAMBDA v : BookLiquidation(v, t, debt_after, collateral_after)))

Liquidate(w, t) ==
    LET k == Kind(w, t.target)
        price == CollateralPrice(w, k)
    IN  Require(t.asset = k.debt_asset /\ t.amount # 0 /\ FreshLendingCollateralPrice(w, k), w,
                Then(AccrueLendingDebt(w, t.target, t.borrower), LAMBDA v : Settle(v, t, price)))

=============================================================================
