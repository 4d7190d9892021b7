SPECIFICATION MCSpec
CONSTANTS
    loop = loop
    command = command
    Line <- MCLine
    Courier <- MCCourier
    Loop = loop
    Tears = {"torn"}
    BATCH = 2
    MaxLines = 3
    MaxFailures = 1
    MaxLosses = 1
    Reader = {loop, command}
    EngineTick = loop
    Always = {command}
    MaxEntries = 3
    MaxSpoilt = 1
    s1 = s1
    s2 = s2
    Setter <- MCSetter
    Configured <- MCConfigured
    MaxEdits = 1
INVARIANTS
    MirrorIsPrefix
    AnchorNeverAhead
PROPERTIES
    IsMirror
    CopiesComplete
    SetUpIsTrue
CHECK_DEADLOCK FALSE
