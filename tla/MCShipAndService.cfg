SPECIFICATION MCSpec
CONSTANTS
    f1 = f1
    f2 = f2
    x1 = x1
    x2 = x2
    Failure = {f1, f2}
    Release = {a, b}
    RepairSha <- MCRepairSha
    Command = {c1}
    Fault = {"deploy_fails"}
    MaxDeploys = 3
    MaxDone = 3
    Invocation = {i1, i2}
    Pid = {p1, p2, p3}
    NoPid = nopid
    Port = {t1, t2}
    Incident = {n1, n2}
    HasTests = TRUE
    OpensPr = TRUE
    AtHead <- MCAtHead
    Candidate <- MCCandidate
    MaxDeaths = 1
    Login = {l1, l2}
    Client = {w1}
    Console = {k1, k2}
    MaxPolls = 2
    LastDay = 1
INVARIANTS
    ServiceIsAccountedFor
    VerifiedIsEarned
    CredentialsAreGood
PROPERTIES
    KeepsPromise
    DeploysAreRecorded
    CommandsEnd
CHECK_DEADLOCK FALSE
