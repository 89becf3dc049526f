CONSTANTS
    N = 2
    ExtractSpan = 1
    WaitMax = 2
    LockTTL = 2
    MaxTries = 2
    MaxFaults = 1
SPECIFICATION Spec
INVARIANT WritesUnderLock
INVARIANT PrdAfterCps
 
 
 
CHECK_DEADLOCK FALSE
