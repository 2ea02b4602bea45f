SPECIFICATION Spec
CONSTANTS
    Events = {e1, e2}
    Terminal = {e1}
    Endpoints = {p1}
    Buses = {b1, b2}
    Sweepers = {s1, s2}
    Callers = {}
    MaxAttempts = 1
    BudgetCycles = 2
    BatchSize = 2
    Concurrency = 1
    StrandedAfter = 3
    Cooldown = 3
    AttemptLimit = 0
SYMMETRY Replicas
INVARIANT OneRowPerEndpoint
INVARIANT PendingKeepsBody
 
\* Every delivery may be settled and every worker idle.
CHECK_DEADLOCK FALSE
