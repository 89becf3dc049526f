CONSTANTS
    Emails = {alice, bob}
    Names = {n1, n2, n3}
    Founding = {n1, n2}
    Requests = {r1, r2}
    None = None
    AdminEmails = {bob}
    Limit = 1
    MaxRequests = 3
    MaxFaults = 1
SPECIFICATION Spec
SYMMETRY Alike
INVARIANT LoginKept
 
 
INVARIANT ProjectsBounded
CHECK_DEADLOCK FALSE
