CONSTANTS
    NoPid = NoPid
    Pid = {p1}
    MAXJOBS = 1
    Commands = {"run"}
    Keys = {"INT"}
    MaxCmds = 1
    MaxKeys = 0
    MaxStops = 0
SPECIFICATION Spec
INVARIANTS WaitFgReturns
