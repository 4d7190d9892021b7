SPECIFICATION MCSpec
CONSTANTS
    PIPE = 2
    MaxWrites = 4
    CAP = 2
    MaxWritten = 4
    MaxPolls = 2
    TestFile = {t1, t2}
    MaxTests = 1
    Task = {i1, i2}
    Revision = {r1, r2}
    MaxRunnable = 0
    k1 = k1
    k2 = k2
    f1 = f1
    f2 = f2
    w1 = w1
    w2 = w2
    Class = {k1, k2}
    Writer = {w1, w2}
    PROMOTION_STREAK = 2
    MaxLines = 5
    LogLines = 4
    Hosted = {f1, f2}
    HostedClass <- MCHostedClass
    Captured = {f1}
    HostedCeiling = "act-alone"
    StartRecord <- MCStartRecord
    RepairDiff <- MCRepairDiff
    DIFF_MAX = 2
    PATHS_MAX = 1
    RemoteJob = {j1, j2}
    CiRun = {r1, r2}
    Delivery = {o1, o2}
INVARIANTS
    AutonomyIsEarned
    ActAloneIsLastWord
    UnaskedWasEarned
    ReportIsHonest
    RunShipsOnce
    SinceIsExact
    ReproducedByNewTrace
    RepairIsReviewable
    ReadyIsReviewable
PROPERTY
    CommandsSettle
CHECK_DEADLOCK FALSE
