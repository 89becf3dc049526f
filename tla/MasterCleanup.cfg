CONSTANTS
    j1 = j1
    j2 = j2
    Workloads <- Pairs
    Jobs = {j1, j2}
    Viewer = viewer
    NoTask = NoTask
    Repeats = {"label"}
    SizeThreshold = 2
    MaxTexts = 4
    MaxFaults = 1
SPECIFICATION FairSpec
INVARIANT UpdatesKept
INVARIANT ClutterNoticed
 
CHECK_DEADLOCK FALSE
