SPECIFICATION Spec
CONSTANTS
    t1 = t1
    t2 = t2
    Tweets = {t1, t2}
    Contents <- Kinds
    MaximumAttempts <- Attempts
    MaxProcesses = 1
    ChatConcurrencyCap = 1
    MaxFaults = 2
INVARIANTS
    VerdictIsContent
    FailedIsExhausted
PROPERTIES
    CandidatesFinish
CHECK_DEADLOCK FALSE
