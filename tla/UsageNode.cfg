CONSTANTS
    c1 = c1
    c2 = c2
    Clients = {c1, c2}
    NoClient = NoClient
    Limit = 1
    Amounts = {1}
    MaxAttempts = 2
    MaxOps = 3
    MaxPeriods = 2
    MaxFaults = 2
SPECIFICATION Spec
INVARIANT CountersExact
INVARIANT UnderCountOnly
INVARIANT BonusBounded
 
PROPERTY NodeIsAtomic
SYMMETRY ClientSymmetry
CHECK_DEADLOCK FALSE
