CONSTANTS
    t1 = t1  t2 = t2  t3 = t3  u1 = u1  u2 = u2  u3 = u3  o1 = o1  o2 = o2  o3 = o3  o4 = o4
    NULL = NULL
    Worker = {t1, t2, t3}
    Obj = {o1, o2, o3}
    Uri = {u1, u2, u3}
    MaxCacheSize = 3
    MaxObjectSize = 3
    RespSizes = {3}
    Requests <- AnyRequest
    ReallocMoves = TRUE
    MaxConn = 4
SPECIFICATION WarmSpec
INVARIANTS LockInv SomeoneMoves
PROPERTIES StableWhileRead
SYMMETRY SharedSymmetry
