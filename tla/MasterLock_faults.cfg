CONSTANTS
    Holders = {j1, j2}
    NoJob = NoJob
    Unlocked = {}
    LockTTL = 3
    WaitMax = 2
    HoldMax = 2
    MaxTries = 2
    MaxCrashes = 1
    MaxErrors = 1
SPECIFICATION LockSpec
SYMMETRY JobSymmetry
INVARIANT MutualExclusion
 
PROPERTY MasterIsSerial
CHECK_DEADLOCK FALSE
