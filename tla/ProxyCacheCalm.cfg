\* Two threads that ask for a common URI, a cache smaller than what is requested.
CONSTANTS
    t1 = t1  t2 = t2  t3 = t3  u1 = u1  u2 = u2  u3 = u3  o1 = o1  o2 = o2  o3 = o3  o4 = o4
    NULL = NULL
    Worker = {t1, t2}
    Obj = {o1, o2, o3, o4}
    Uri = {u1, u2, u3}
    MaxCacheSize = 4
    MaxObjectSize = 3
    RespSizes = {1, 3, 4}
    Requests <- Overlapping
    ReallocMoves = FALSE
    MaxConn = 5
SPECIFICATION Spec
CONSTRAINT Undisturbed
INVARIANTS WellLinked TotalIsSum NothingLost
PROPERTIES ImplementsLru
SYMMETRY ObjSymmetry
