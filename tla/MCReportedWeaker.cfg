SPECIFICATION IssueRepairSpec
CONSTANTS
    Task = {i1}
    Revision = {r1, r2}
    MaxRunnable = 1
INVARIANT NoFewerTests
CHECK_DEADLOCK FALSE
