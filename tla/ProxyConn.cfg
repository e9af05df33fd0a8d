CONSTANTS
    Threads = {1, 2}
    MaxConn = 3
    OpenMax = 5
    Inherited = 1
    Cells = {1, 2}
    Addrs = {2}
SPECIFICATION FairSpec
INVARIANTS OwnDescriptors NothingElseLeaks
PROPERTY ThreadsEnd
