SPECIFICATION FairSpec
CONSTANTS
    d1 = d1
    d2 = d2
    k = k
    Calls <- MCCalls
    Depth <- MCDepth
    Weight <- MCWeight
    Retries <- MCRetries
    Budgets = {2}
    FirstBudget = 3
    MaxBudget = 3
    Headers = {1, 3}
    NoHeader = NoHeader
    Window = 2
    Slots = 1
    Threshold = 2
    Cooldown = 1
INVARIANTS
    WindowWithinBudget
PROPERTIES
    FailsFastInOutage
    EveryCallReturns
