SPECIFICATION LiquiditySpec
CONSTANTS
    MaxRows = 1
    Owner <- OneOwner
    Deposits = {1}
    Relays = {s1, s2}
    Sweepers = {o1}
    MaxResubmits = 2
    BatchSize = 1
    PerConsumer = 1
    RecheckMax = 1
    LpRequests = {r1, r2, r3}
    LpKeys = {"k"}
    LpShares = {"s1"}
    MaxLpRows = 3
    MaxLpSeq = 2
    LpRejects = 1
    MaxLpOps = 4
    LpShareSizes = {1, 2}
    LpReserves = {3, 20}
    OtherShares = 2
    LpFeeBps = 9000
    LpSlipBps = 5000
    LpMerchantBps = 1000
SYMMETRY AlikeRequests
INVARIANT SettledOnLedger
INVARIANT ResubmitsCapped
INVARIANT ExpiredNeverLanded
INVARIANT KeyBuildsOnce
 
INVARIANT CommissionBounded
\* Every row may be final and every handler done.
CHECK_DEADLOCK FALSE
