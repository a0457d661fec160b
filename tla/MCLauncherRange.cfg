CONSTANTS
    d1 = d1
    d2 = d2
    notADir = notADir
    Dirs = {d1, d2, notADir}
    ValidDirs = {d1, d2}
    PortStart = 30000
    PortEnd = 30001
    OtherPorts = {30000, 30001, 30002}
    MaxArgs = 3
SPECIFICATION LSpec
\* Launch returns once its arguments are handled or the range is full.
CHECK_DEADLOCK FALSE
INVARIANTS
    LaunchedInRange
