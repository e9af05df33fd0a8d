CONSTANTS
    NoPid = NoPid
    Pid = {p1, p2}
    MAXJOBS = 2
    Commands = {"run", "run&"}
    Keys = {"INT", "TSTP"}
    MaxCmds = 2
    MaxKeys = 2
    MaxStops = 0
SPECIFICATION FairSpec
INVARIANTS OneForeground KeysForForeground
PROPERTIES Reaped WaitEnds KeyEndsWait
