CONSTANTS
    r1 = r1
    r2 = r2
    r3 = r3
    t1 = t1
    t2 = t2
    t3 = t3
    alice = alice
    proj = proj
    Requests = {r1, r2, r3}
    Tasks = {t1, t2}
    Users = {alice}
    Projects = {proj}
    TaskOf <- DupTasks
    OwnerOf <- AllAlice
    ProjectOf <- AllProj
    KindOf <- MergeAndDesign
    Limit = 1
    StaleAge = 2
    JobSpan = 1
    ApiWindow = 2
    Retries = TRUE
    Tiered = FALSE
    Quota = TRUE
    MaxTries = 2
    MaxCrashes = 1
    MaxErrors = 1
SPECIFICATION Spec
INVARIANT NoOrphanSlot
INVARIANT NoOrphanMark
CHECK_DEADLOCK FALSE
