SPECIFICATION FairSpec
CONSTANTS
    Events = {e1}
    Terminal = {e1}
    Endpoints = {p1}
    Buses = {b1}
    Sweepers = {s1, s2}
    Callers = {c1}
    MaxAttempts = 2
    BudgetCycles = 2
    BatchSize = 1
    Concurrency = 1
    StrandedAfter = 2
    Cooldown = 2
    AttemptLimit = 2
 
 
PROPERTY EveryDeliverySettles
\* Every delivery may be settled and every worker idle.
CHECK_DEADLOCK FALSE
