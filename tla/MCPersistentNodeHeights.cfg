SPECIFICATION Spec
CONSTANTS
    none = none
    NoExpiry = none
    Transactions <- MCTransactions
    Rank <- MCRank
    BlockResourceLimit = 2
    MaxPending = 3
    MaxPendingPerSender = 2
    ConsecutiveHeights = FALSE
    MaxHeight = 3
    MaxBlocks = 3
CHECK_DEADLOCK FALSE
INVARIANTS
    HeightsIncrease
