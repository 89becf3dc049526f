CONSTANTS
    Holders = {j1, j2}
    NoJob = NoJob
    Unlocked = {j2}
    LockTTL = 2
    WaitMax = 2
    HoldMax = 1
    MaxTries = 2
    MaxCrashes = 1
    MaxErrors = 1
SPECIFICATION LockFairSpec
 
PROPERTY LockReclaimed
CHECK_DEADLOCK FALSE
