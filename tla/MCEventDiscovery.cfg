SPECIFICATION Spec
CONSTANTS
    m1 = m1
    m2 = m2
    m3 = m3
    u1 = u1
    u2 = u2
    u3 = u3
    None = None
    Urls = {u1, u2, u3}
    Media = {m1, m2, m3}
    Contents <- MCContents
    Match <- ChainMatch
    Quality <- Rising
    MaxAttempts = 2
    MaxUnavailable = 1
    MaxFaults = 1
    MayRemove = TRUE
INVARIANTS
    NothingStranded
    DoneIsSettled
    AcceptedIsShown
PROPERTIES
    ImplementsLifecycle
    NothingAfterRemoval
    ChecklistCloses
CHECK_DEADLOCK FALSE
