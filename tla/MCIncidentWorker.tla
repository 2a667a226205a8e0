-------------------------- MODULE MCIncidentWorker --------------------------
(* Two incidents that may share a correlation key, and the evidence that   *)
(* takes each branch of the lifecycle at least once.  Quiet evidence has   *)
(* one key, since keys are interchangeable.                                *)
EXTENDS IncidentWorker

Quiet(k) == [key |-> k, quantum |-> "not_required", recovery |-> "NOT_ATTEMPTED",
             rollback |-> FALSE, severe |-> FALSE]

MCQuiet == {Quiet(k) : k \in Keys}

MCMessages ==
    {Quiet("k1"),
     [Quiet("k1") EXCEPT !.quantum = "success", !.recovery = "SUCCESS"],
     [Quiet("k2") EXCEPT !.quantum = "failed", !.recovery = "FAILED",
                         !.rollback = TRUE, !.severe = TRUE]}
=============================================================================
