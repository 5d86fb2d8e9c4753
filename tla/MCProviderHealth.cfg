CONSTANTS
    Fixtures <- Games
    Feed <- Reports
    GapLimit = 1
    InteriorStale = 2
    BoundaryStale = 3
    CorrelationWindow = 1
    MaxProbes = 3
    Enforce = TRUE
    MaxPolls = 6
    MaxMishaps = 1
SPECIFICATION HealthSpec
INVARIANTS
    FrozenIsRestricted
PROPERTIES
    StallNeedsProgress
    TrustIsEarned
CHECK_DEADLOCK FALSE
