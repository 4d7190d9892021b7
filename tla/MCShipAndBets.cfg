SPECIFICATION MCSpec
CONSTANTS
    f1 = f1
    x1 = x1
    Failure = {f1}
    Release = {a, b}
    RepairSha <- MCRepairSha
    Command = {c1, c2}
    Fault = {"deploy_fails", "crash", "append_fails"}
    MaxDeploys = 3
    MaxDone = 2
    Reading = {0, 1, 3}
    Entries = {0, 2}
    MinEntries = 2
    MinEffect = 2
    Tolerances = {1, 2}
    Obs = {o1}
    Plans = {"record", "behavior", "none"}
    MaxHypotheses = 1
    MaxChanges = 1
    DAYS = 1
    HORIZONS = {1, 2}
    LastShip = 0
    LastDay = 2
    MaxMishaps = 1
    Person = {p, q}
    SECOND = 2
    Span = 2
    Revisited = {3}
    EVIDENCE = 1
    LastMoment = 5
    MaxEvents = 2
    MaxSamples = 3
INVARIANTS
    RecordedDeploysHappened
    RollsBackInHistory
    SupportIsEarned
    MeasuredOnceWhenDue
PROPERTIES
    BetsAddUp
    ReadingsAreComparable
CHECK_DEADLOCK FALSE
