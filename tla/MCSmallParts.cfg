SPECIFICATION Spec
CONSTANTS
    Screen = 2
    MaxScrolls = 2
    SeenStop = 2
    Feeds <- FirstFeeds
    MaxPublish = 6
    MaxAttempts = 3
    MaxUnavailable = 1
    MaxCrashes = 1
    Moments <- MatchMoments
    Conventions <- AllConventions
    Tol = 1
    MaxFrames = 3
    Commands = {c1, c2}
    Services = {s1}
    Releases <- MCReleases
    Files <- MCFiles
    SchemaHash <- MCSchemaHash
    Baseline <- MCBaseline
    Manifest <- MCManifest
    Databases <- MCDatabases
    MaxDrift = 1
    Runs = {r1, r2}
    Scheduled = r1
    Leagues = {"A", "B"}
    Teams = {"t1", "t2", "t3"}
    Fixtures = {"f1", "f2"}
    TeamsOf <- MCTeamsOf
    Rosters <- MCRosters
    Schedules <- MCSchedules
    LastToday = 1
    MaxLookaheadDays = 3
    CacheDays = 1
    ActivityAttempts = 2
    ManualAttempts = 2
    MaxUpsets = 1
INVARIANTS
    RightClipKept
    WrongClipNotVerified
    CommittedIsRelease
    RunningChainIsPrefix
    FreshIsFetched
    UpcomingIsFetched
PROPERTIES
    ShortcutLosesNothing
CHECK_DEADLOCK FALSE
