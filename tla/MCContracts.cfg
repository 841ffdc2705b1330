SPECIFICATION Spec
CONSTANTS
    MaxAmount = 1000000000
    MaxHeight = 9
    ChainId = "here"
    Geneses <- MCGeneses
    Transactions <- MCTransactions
    MaxCommitted = 4
    LastHeight = 3
INVARIANTS
    CustodyCoversClaims
    ManifestsAreTrue
    RewardsMatchStakeTime
    UnbondingDelayRespected
    RedeemedOnce
    EffectsAreDeclared
PROPERTIES
    PoolProductNeverFalls
    LenderAssetsNeverShrink
    TimelockRespected
    LoansStayWithinLimit
    PausedContractsStandStill
CHECK_DEADLOCK FALSE
