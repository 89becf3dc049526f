CONSTANTS
    N = 2
    ExtractSpan = 1
    WaitMax = 2
    LockTTL = 2
    MaxTries = 1
    MaxFaults = 1
SPECIFICATION FairSpec
PROPERTY MeetingsEnd
CHECK_DEADLOCK FALSE
