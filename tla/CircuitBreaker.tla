--------------------------- MODULE CircuitBreaker ---------------------------
(***************************************************************************)
(* QuantumCircuitBreaker (src/routing/circuit_breaker.py): one backend's   *)
(* state as a record and each method as a function of it.  Every method    *)
(* holds the breaker's lock, so a caller applies it in one step.  Time is  *)
(* kept as the ticks since the breaker opened, up to the cooldown: the     *)
(* code asks no more of now_fn() - opened_at.                              *)
(***************************************************************************)
EXTENDS Integers

CONSTANTS FailureThreshold,     (* circuit_breaker.failure_threshold         *)
          Cooldown              (* circuit_breaker.cooldown_seconds, in ticks *)

ASSUME BreakerAssumption == /\ FailureThreshold \in Nat \ {0}
                            /\ Cooldown \in Nat \ {0}

Breaker == [state : {"CLOSED", "OPEN", "HALF_OPEN"},
            failures : 0..FailureThreshold,     (* consecutive_failures      *)
            openFor : 0..Cooldown,
            trial : BOOLEAN]                    (* half_open_trial_in_flight *)

ClosedBreaker == [state |-> "CLOSED", failures |-> 0, openFor |-> 0, trial |-> FALSE]

Tripped(b) == [b EXCEPT !.state = "OPEN", !.openFor = 0]

(* Mutant: HALF_OPEN lets everyone through. *)
AllowsInHalfOpen(b) == \/ b.state = "CLOSED"
                       \/ b.state = "OPEN" /\ b.openFor >= Cooldown
                       \/ b.state = "HALF_OPEN"

(* allow_request's answer ... *)
Allows(b) == \/ b.state = "CLOSED"
             \/ b.state = "OPEN" /\ b.openFor >= Cooldown
             \/ b.state = "HALF_OPEN" /\ ~b.trial

(* ... and the state it leaves behind when it answers True. *)
Admitted(b) == IF b.state = "CLOSED" THEN b
               ELSE [b EXCEPT !.state = "HALF_OPEN", !.trial = TRUE]

(* Mutant: success resets the count and the trial, and forgets the state. *)
RecordSuccessStaysOpen(b) == [b EXCEPT !.failures = 0, !.trial = FALSE]

RecordSuccess(b) ==
    CASE b.state = "HALF_OPEN" -> ClosedBreaker
      [] b.state = "CLOSED"    -> [b EXCEPT !.failures = 0]
      [] OTHER                 -> b

(* Mutant: the breaker trips one failure late. *)
RecordFailureLate(b) ==
    CASE b.state = "HALF_OPEN" ->
             [Tripped(b) EXCEPT !.trial = FALSE, !.failures = FailureThreshold]
      [] b.state = "CLOSED"    ->
             LET counted == [b EXCEPT !.failures = @ + 1]
             IN  IF counted.failures > FailureThreshold THEN Tripped(counted) ELSE counted
      [] OTHER                 -> b

(* Mutant: a failed trial leaves half_open_trial_in_flight set. *)
RecordFailureKeepsTrial(b) ==
    CASE b.state = "HALF_OPEN" -> [Tripped(b) EXCEPT !.failures = FailureThreshold]
      [] b.state = "CLOSED"    ->
             LET counted == [b EXCEPT !.failures = @ + 1]
             IN  IF counted.failures >= FailureThreshold THEN Tripped(counted) ELSE counted
      [] OTHER                 -> b

RecordFailure(b) ==
    CASE b.state = "HALF_OPEN" ->
             [Tripped(b) EXCEPT !.trial = FALSE, !.failures = FailureThreshold]
      [] b.state = "CLOSED"    ->
             LET counted == [b EXCEPT !.failures = @ + 1]
             IN  IF counted.failures >= FailureThreshold THEN Tripped(counted) ELSE counted
      [] OTHER                 -> b

(* One tick of now_fn(). *)
Elapse(b) == IF b.state = "OPEN" /\ b.openFor < Cooldown
             THEN [b EXCEPT !.openFor = @ + 1] ELSE b
=============================================================================
