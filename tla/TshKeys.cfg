CONSTANTS
    NoPid = NoPid
    Pid = {p1, p2, p3}
    MAXJOBS = 3
    Commands = {"run", "run&", "fg", "bg"}
    Keys = {"INT", "TSTP"}
    MaxCmds = 3
    MaxKeys = 2
    MaxStops = 1
SPECIFICATION Spec
INVARIANTS ShellInv Tracked JidsDistinct WaitsForForeground
PROPERTIES JobTransitions
SYMMETRY PidSymmetry
