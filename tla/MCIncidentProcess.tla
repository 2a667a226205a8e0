------------------------- MODULE MCIncidentProcess -------------------------
(* Two gunicorn processes, one of them with two request threads. *)
EXTENDS IncidentProcess

CONSTANTS p1, p2, t1, t2, t3

MCProcs == {p1, p2}
MCThreads == {t1, t2, t3}
MCProcOf == [t \in MCThreads |-> IF t = t3 THEN p2 ELSE p1]
=============================================================================
