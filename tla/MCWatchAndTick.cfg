SPECIFICATION MCSpec
CONSTANTS
    e1 = e1
    e2 = e2
    e3 = e3
    e4 = e4
    d1 = d1
    s1 = s1
    Event = {e1, e2, e3, e4}
    Signature = {s1}
    SigOf <- MCOneSigOf
    At <- MCAt
    Deploy = {d1}
    DeployedAt <- MCDeployedAt
    THRESHOLD = 2
    WINDOW = 1
    Daemon = TRUE
    RepairAuto = TRUE
    MaxPosting = 2
    MaxRestarts = 1
    Sig = {s, t}
    PlaceOf <- MCPlaceOf
    Sha = {a}
    Route = {r}
    BEFORE = 2
    AFTER = 2
    MIN_EVENTS = 1
    RATIO = 2
    DAY = 3
    MaxHour = 3
    MaxEvents = 2
    MaxReports = 1
    MaxTickDeaths = 1
    Issue = {u1, u2}
    LOOK_BACK = 1
    MaxHours = 2
    MaxReported = 2
    MaxRefusals = 1
    MaxReboots = 1
    Watcher = {w1, w2}
    MaxBeats = 1
    File <- MCFile
    Root <- MCRoot
    Started <- MCStarted
    MAX_ENTRIES = 2
    MaxSigned = 2
    MaxCommits = 2
    MaxFaults = 1
    Delivery <- MCDelivery
    MAX_RENDERED = 2
    EXCERPT_MAX = 3
    COMMENT_MAX = 2
    BODY_MAX = 7
    MaxPosts = 2
INVARIANTS
    FailuresAreTheBursts
    NoEventCountsTwice
    BroughtOnce
    TelemetryIsHonest
    NoWrongFile
    ReportsAreKept
PROPERTIES
    ShippedIsReopened
    BroughtInTheEnd
CHECK_DEADLOCK FALSE
