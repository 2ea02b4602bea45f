SPECIFICATION FairSpec
CONSTANTS
    MaxRows = 1
    Owner <- OneOwner
    Deposits = {1}
    Relays = {s1}
    Sweepers = {o1}
    MaxResubmits = 1
    BatchSize = 1
    PerConsumer = 1
    RecheckMax = 1
PROPERTY DepositGetsBasis
PROPERTY EveryRowEnds
\* Every row may be final and every handler done.
CHECK_DEADLOCK FALSE
