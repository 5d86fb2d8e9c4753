CONSTANTS
    o1 = o1
    o2 = o2
    r1 = r1
    c1 = c1
    Candidates = {c1}
    Operators = {t1, t2}
    Original = event
    Operations = {o1, o2}
    Repairs = {r1}
    Requests <- Commands
    MaxCandidatesPerEvent = 2
    MaxFaults = 1
SYMMETRY Interchangeable
SPECIFICATION Spec
INVARIANTS
    FailedReplayIsResumable
CHECK_DEADLOCK FALSE
