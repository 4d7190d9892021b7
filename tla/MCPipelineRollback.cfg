SPECIFICATION MCSpec
CONSTANTS
    f1 = f1
    f2 = f2
    k1 = k1
    Class = {k1}
    Failure = {f1, f2}
    ClassOf <- MCClassOf
    Replayable = {f1}
    Mode = "auto"
    InheritedRecord <- MCGranted
    Fault = {}
    PROMOTION_STREAK = 1
    MaxRungLines = 2
    Card = {v1, v2}
    MaxSent = 1
    Proposer = {p1, p2}
    Remote = {b}
    Page = {u1, u2}
    Story = {s1, s2}
    Since = 1
    MAX_REMEMBERED = 1
    MaxDays = 3
    MaxTold = 4
    Written <- MCWritten
    MAX = 3
    LastHour = 2
    MaxWritten = 3
    MaxTorn = 1
INVARIANT
    RollbackCostsAutonomy
CHECK_DEADLOCK FALSE
