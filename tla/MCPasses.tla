------------------------------ MODULE MCPasses ------------------------------
(* Traces of three requests, and those of five that fill the heap first.   *)
EXTENDS Passes

Requests == {o \in Op : o.type = "f" => o.size = Min(Sizes)}
TracesOf[n \in Nat] ==
    IF n = 0 THEN {<<>>}
    ELSE {t \in {Append(s, o) : s \in TracesOf[n - 1], o \in Requests} : WellFormed(t)}

MCTraces == TracesOf[3] \cup {t \in TracesOf[MaxOps] :
               /\ t[1] = [type |-> "a", index |-> 1, size |-> Min(Sizes)]
               /\ t[2] = [type |-> "a", index |-> 2, size |-> Max(Sizes)]
               /\ t[3].type = "f"}
=============================================================================
