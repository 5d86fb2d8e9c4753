SPECIFICATION Spec
CONSTANTS
    Events = {e1}
    None = None
    MaxInstances = 1
    MinAge = 2
    ReapTimeout = 1
    ProvisionAttempts = 2
    MaxRuns = 2
    MaxContainers = 2
    MaxFaults = 1
INVARIANTS
    PendingKeepsBrowser
