SPECIFICATION FairSpec
CONSTANTS
    Consumers = {c1}
    Terms <- OneTerms
    Payments <- OnePayment
    MaxIntents = 1
    MaxTxs = 1
    Api = {}
    Observers = {o1}
    Calls = {}
    PatchTo = {}
    RivalsMax = 5
    ScanMax = 2
PROPERTY SettledIsNotified
\* Every handler may be done, every intent final and every bound reached.
CHECK_DEADLOCK FALSE
