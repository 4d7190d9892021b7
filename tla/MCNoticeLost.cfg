SPECIFICATION NoticeSpec
CONSTANTS
    Obs = {o1}
    Plans = {"record"}
    MaxHypotheses = 1
    MaxChanges = 1
    DAYS = 1
    HORIZONS = {2}
    LastShip = 0
    LastDay = 2
    MaxMishaps = 0
    MaxRepairs = 1
INVARIANT EveryEventHasItsAttempt
CHECK_DEADLOCK FALSE
