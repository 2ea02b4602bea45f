SPECIFICATION FairSpec
CONSTANTS
    Consumers = {c1}
    Terms <- OneTerms
    Payments <- OnePayment
    MaxIntents = 1
    MaxTxs = 2
    Api = {a1}
    Observers = {o1}
    Calls = {"patchHash", "patchStatus"}
    PatchTo = {"SUBMITTED", "EXPIRED"}
    RivalsMax = 5
    ScanMax = 1
INVARIANT ExpiredWasUnpaid
PROPERTY EveryIntentEnds
\* Every handler may be done, every intent final and every bound reached.
CHECK_DEADLOCK FALSE
