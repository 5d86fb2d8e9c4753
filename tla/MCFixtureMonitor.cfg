SPECIFICATION MonitorSpec
CONSTANTS
    Players = {p1}
    MaxSequence = 2
    MaxClock = 4
    MaxLate = 1
    IngestTimes = {2}
    Threshold = 2
    Retention = 1
    MaxAttempts = 2
    Grace = 1
    Mode = "enforce"
    NoFeed = NoFeed
    Feeds <- CarefulFeeds
    ProviderPolicies = {"trusted", "positive_only"}
    FixturePolicies = {"trusted", "positive_only"}
INVARIANTS
    OneVotePerPoll
    ConfirmedByThreePolls
    RemovedByThreePolls
    CompletedIsSettled
    FreshPlanApplies
    EffectsFollowRows
PROPERTIES
    NegativeVotesAreTrusted
    DiscoveryContract
CHECK_DEADLOCK FALSE
