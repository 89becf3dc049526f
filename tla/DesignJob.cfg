CONSTANTS
    j1 = j1
    j2 = j2
    Jobs = {j1, j2}
    Stored = {1, 3}
    MainLimit = 3
    LiteCap = 2
    Costs = {2}
    MaxCost = 2
    Direct = TRUE
    MaxRetries = 2
    MaxFaults = 1
SPECIFICATION FairSpec
INVARIANT OvershootBounded
 
INVARIANT MeteredOnce
INVARIANT NoLateTokens
INVARIANT DesignResultHonest
PROPERTY AttemptsEnd
CHECK_DEADLOCK FALSE
