SPECIFICATION Spec
CONSTANTS
    None = None
    Kickoffs = {1, 4}
    Window = 1
    Grace = 1
    MaxAttempts = 2
    MaxClock = 3
    MaxCorrections = 1
    MaxFaults = 1
    Casts <- EachCast
INVARIANTS
    ChangesAnnounced
PROPERTIES
    ObservationsInOrder
    KickoffActivates
CHECK_DEADLOCK FALSE
