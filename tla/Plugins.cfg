SPECIFICATION PluginsSpec
CONSTANTS
    Funders = {f1, f2}
    Cancellers = {m1}
    MaxContracts = 2
    EscrowFaults = 1
    AutoPolicy = TRUE
    BuyerHoldsRole = FALSE
    MaxServerRows = 1
    PartyActs = {"APPROVED"}
    DeliveryFaults = 1
    BpCreators = {"c1", "c2"}
    BpHandlers = {"h1"}
    BpReaders = {"x1"}
    BpFinals = {"completed"}
    BpFaults = 1
INVARIANT NeverAheadOfContract
 
 
PROPERTY ContractReachesRow
PROPERTY AttachedRowStays
PROPERTY MirrorCatchesUp
\* Every row may be settled and every request answered.
CHECK_DEADLOCK FALSE
