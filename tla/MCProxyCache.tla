---------------------------- MODULE MCProxyCache ----------------------------
(* Instances of ProxyCache for TLC.                                        *)
EXTENDS ProxyCache, TLC

CONSTANTS t1, t2, t3, u1, u2, u3, o1, o2, o3, o4

\* Every thread may be asked for every URI.
AnyRequest == Worker \X Uri
\* Two threads whose clients share one of three URIs.
Overlapping == {<<t1, u1>>, <<t1, u2>>, <<t2, u2>>, <<t2, u3>>}

ObjSymmetry == Permutations(Obj)
SharedSymmetry == Permutations(Obj) \cup Permutations(Worker)

\* The cache when n connections have been served, each for another URI and with
\* a response of size 1: what two and three of them leave.
Objects == <<o1, o2, o3>>
Filled(n) ==
    LET used == {Objects[i] : i \in 1 .. n}
        pos(o) == CHOOSE i \in 1 .. n : Objects[i] = o
    IN  /\ head = Objects[1] /\ tail = Objects[n] /\ total_size = n
        /\ live = used /\ dangling = {}
        /\ next = [o \in Obj |-> IF o \in used \ {tail} THEN Objects[pos(o) + 1] ELSE NULL]
        /\ prev = [o \in Obj |-> IF o \in used \ {head} THEN Objects[pos(o) - 1] ELSE NULL]
        /\ size = [o \in Obj |-> IF o \in used THEN 1 ELSE 0]
        /\ key = [o \in Obj |-> IF o \in used THEN <<u1, u2, u3>>[pos(o)] ELSE NULL]
        /\ valid = [o \in Obj |-> o \in used]

WarmInit == /\ \E n \in {2, 3} : Filled(n)
            /\ reader_cnt = 0 /\ reader_mutex = 1 /\ writer_mutex = 1
            /\ pc = [t \in Worker |-> "idle"]
            /\ uri = [t \in Worker |-> NULL] /\ cache = [t \in Worker |-> NULL]
            /\ accepted = 0 /\ proxy = "running"

WarmSpec == WarmInit /\ [][Next]_vars

=============================================================================
