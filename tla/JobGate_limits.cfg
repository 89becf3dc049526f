CONSTANTS
    r1 = r1
    r2 = r2
    r3 = r3
    t1 = t1
    t2 = t2
    t3 = t3
    alice = alice
    proj = proj
    Requests = {r1, r2, r3}
    Tasks = {t1, t2, t3}
    Users = {alice}
    Projects = {proj}
    TaskOf <- OwnTasks
    OwnerOf <- AllAlice
    ProjectOf <- AllProj
    KindOf <- Mixed
    Limit = 1
    StaleAge = 2
    JobSpan = 1
    ApiWindow = 1
    Retries = FALSE
    Tiered = FALSE
    Quota = TRUE
    MaxTries = 1
    MaxCrashes = 1
    MaxErrors = 0
SPECIFICATION FairSpec
 
 
PROPERTY RequestsServed
CHECK_DEADLOCK FALSE
