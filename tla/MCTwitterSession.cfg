CONSTANTS
    s = s
    e = e
    r1 = r1
    r2 = r2
    Instances <- MCInstances
    Static <- s
    Requests <- MCRequests
    MaxSessions = 2
    MaxRotations = 1
    MaxFaults = 1
SPECIFICATION SessionSpec
SYMMETRY Overlap
INVARIANTS
    VerifiedIsPublished
CHECK_DEADLOCK FALSE
