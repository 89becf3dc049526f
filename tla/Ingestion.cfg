CONSTANTS
    gala = gala
    trot = trot
    concert = concert
    Records = {gala, trot, concert}
    Words <- Titles
    Boards = {dongjak, gunsan}
    WithDetail = {dongjak}
    PageInUrl = {dongjak}
    Apis = {festivals, tour}
    WithId = {tour}
    Pages = 2
    Requests = {r1, r2}
    MaxRequests = 2
    MaxRetries = 1
    MaxFaults = 1
    MaxChanges = 1
SPECIFICATION Spec
SYMMETRY Alike
 
INVARIANT InsertsAddUp
PROPERTY NoRegress
CHECK_DEADLOCK FALSE
