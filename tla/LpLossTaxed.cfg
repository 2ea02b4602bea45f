SPECIFICATION LpCommissionSpec
CONSTANTS
    MaxLpOps = 4
    LpShareSizes = {1, 2, 3}
    LpReserves = {3, 7, 10}
    OtherShares = 2
    LpFeeBps = 9000
    LpSlipBps = 0
    LpMerchantBps = 1000
INVARIANT LossTaxedNothing
\* The position may be closed and its bound reached.
CHECK_DEADLOCK FALSE
