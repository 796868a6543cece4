CONSTANTS
    Accounts = {i1}
    Attempts = {1, 2}
    MaxEdits = 1
    Runners = {r1, r2}
    MaxTasks = 2
    MaxStarts = 1
    NoRunner = NoRunner
    Positions = {1, 2, 3}
    Lanes = {l1, l2}
    Chunk = 2
    MaxMishaps = 1
    Ids = {1, 2, 3}
    Targets = {1, 2}
    Files = {f1, f2}
    Chunks = 2
    MaxRetry = 1
    MaxRuns = 2
    Channels = {c1}
    Clips = {p1}
    MaxWrites = 1
    MaxRecords = 1
    MaxFaults = 1
    Posts = {1, 2, 3}
    Limit = 2
    Days = 1
    MaxDay = 2
    MaxWorks = 2
    People = {a1}
    Plans = {s1}
    Runtimes = {b1, b2}
    MaxSessions = 3
    MaxEntries = 3
    MaxFolder = 3
    Target = 3
    MinRounds = 2
    MaxIdle = 3
    Visitors = {v1, v2}
    Homes = {h1, h2}
    NoHome = NoHome
    MaxVisits = 2
SPECIFICATION Spec
INVARIANTS
    TypeOK
    IdentityExclusive
    SchedulesKept
    DownloadsHonest
    FeedKept
    NothingLeftBehind
    SettingsHold
    WalkComplete
    VerdictsSound
PROPERTIES
    BatchSettles
    NothingStalls
CHECK_DEADLOCK FALSE
