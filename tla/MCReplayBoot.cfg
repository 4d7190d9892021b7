SPECIFICATION MCSpec
CONSTANTS
    PIPE = 1
    MaxWrites = 0
    CAP = 2
    MaxWritten = 1
    MaxPolls = 0
    TestFile = {t1}
    MaxTests = 0
    Task = {i1}
    Revision = {r1}
    MaxRunnable = 0
    k1 = k1
    k2 = k2
    f1 = f1
    f2 = f2
    w1 = w1
    w2 = w2
    Class = {k1}
    Writer = {w1, w2}
    PROMOTION_STREAK = 2
    MaxLines = 3
    LogLines = 0
    Hosted = {}
    HostedClass <- MCNoClass
    Captured = {}
    HostedCeiling = "propose"
    StartRecord <- MCStartRecord
    RepairDiff = {}
    DIFF_MAX = 1
    PATHS_MAX = 1
    RemoteJob = {}
    CiRun = {}
    Delivery = {}
INVARIANT
    BootIsNoEvidence
CHECK_DEADLOCK FALSE
