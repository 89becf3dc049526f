CONSTANTS
    alice = alice
    bob = bob
    p1 = p1
    p2 = p2
    p3 = p3
    NoPair = NoPair
    Users = {alice, bob}
    Pairs = {p1, p2, p3}
    Requests = {r1, r2}
    OwnerOf <- Owners
    AccessLife = 2
    RefreshLife = 3
    KillLife = 2
    Cooldown = 1
    MaxTime = 3
    MaxRequests = 3
    MaxFaults = 1
SPECIFICATION Spec
SYMMETRY SlotSymmetry
INVARIANT RevokedIsDead
INVARIANT LiveSessionListed
INVARIANT CutOffStaysOut
CHECK_DEADLOCK FALSE
