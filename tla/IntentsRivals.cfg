SPECIFICATION Spec
CONSTANTS
    Consumers = {c1, c2}
    Terms <- RivalTerms
    Payments <- BothPaid
    MaxIntents = 2
    MaxTxs = 1
    Api = {a1}
    Observers = {o1}
    Calls = {"validate", "settle", "remove"}
    PatchTo = {}
    RivalsMax = 1
    ScanMax = 2
INVARIANT SettledByOwnPayment
INVARIANT OlderRivalGaveUp
INVARIANT NotifiedOutcomeStands
PROPERTY IntentsKeepPromise
\* Every handler may be done, every intent final and every bound reached.
CHECK_DEADLOCK FALSE
