SPECIFICATION TransfersSpec
CONSTANTS
    MaxDeposits = 1
    Expected = 3
    DepositFee = 1
    MaxPaid = 4
    ForwardBatch = 1
    DepositFaults = 1
    MaxSwaps = 2
    SwapClients = {c1, c2}
    SwapTerms = {t1}
    Variants = {1}
    SwapObservers = {o1, o2}
    SwapFaults = 1
    MaxCross = 1
    CrossObservers = {o1}
    CrossDepositors = {w1}
    CrossBatch = 1
    CrossFaults = 1
    Transfers = {1}
    Usdt0Readers = {r1}
    Usdt0Submitters = {p1}
    Usdt0Faults = 1
INVARIANT OneSwapPerKey
 
 
PROPERTY LateLandingRescued
 
PROPERTY FinalStaysFinal
PROPERTY TransfersSettle
\* Every row may be settled and every request answered.
CHECK_DEADLOCK FALSE
