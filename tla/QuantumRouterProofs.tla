------------------------ MODULE QuantumRouterProofs ------------------------
(***************************************************************************)
(* Proofs about the router and its breaker for every number of callers,    *)
(* failure threshold, retry policy and timing, under the two relations     *)
(* between the timings that the properties depend on.                      *)
(***************************************************************************)
EXTENDS QuantumRouter, TLAPS

(* A breaker's fields have their types, and a closed one is below the      *)
(* threshold.                                                              *)
WellFormed(b) == /\ b \in Breaker
                 /\ b.state = "CLOSED" => b.failures < FailureThreshold

(* The methods as updates of the fields. *)
LEMMA BreakerFields ==
    ASSUME NEW b, WellFormed(b)
    PROVE  /\ b.state # "CLOSED" => Admitted(b) =
                [state |-> "HALF_OPEN", failures |-> b.failures,
                 openFor |-> b.openFor, trial |-> TRUE]
           /\ b.state = "CLOSED" => Admitted(b) = b
           /\ b.state = "HALF_OPEN" => RecordFailure(b) =
                [state |-> "OPEN", failures |-> FailureThreshold,
                 openFor |-> 0, trial |-> FALSE]
           /\ b.state = "CLOSED" /\ b.failures + 1 >= FailureThreshold => RecordFailure(b) =
                [state |-> "OPEN", failures |-> b.failures + 1,
                 openFor |-> 0, trial |-> b.trial]
           /\ b.state = "CLOSED" /\ b.failures + 1 < FailureThreshold => RecordFailure(b) =
                [state |-> "CLOSED", failures |-> b.failures + 1,
                 openFor |-> b.openFor, trial |-> b.trial]
           /\ b.state = "OPEN" => RecordFailure(b) = b /\ RecordSuccess(b) = b
           /\ b.state = "HALF_OPEN" => RecordSuccess(b) = ClosedBreaker
           /\ b.state = "CLOSED" => RecordSuccess(b) =
                [state |-> "CLOSED", failures |-> 0,
                 openFor |-> b.openFor, trial |-> b.trial]
           /\ b.state = "OPEN" /\ b.openFor < Cooldown => Elapse(b) =
                [state |-> "OPEN", failures |-> b.failures,
                 openFor |-> b.openFor + 1, trial |-> b.trial]
           /\ ~(b.state = "OPEN" /\ b.openFor < Cooldown) => Elapse(b) = b
<1> USE DEF WellFormed, Breaker
<1>1. b.failures \in Nat /\ FailureThreshold \in Nat
  BY BreakerAssumption
<1>2. b = [state |-> b.state, failures |-> b.failures, openFor |-> b.openFor,
           trial |-> b.trial]
  OBVIOUS
<1>3. b.state = "HALF_OPEN" => RecordFailure(b) =
                [state |-> "OPEN", failures |-> FailureThreshold,
                 openFor |-> 0, trial |-> FALSE]
  BY DEF RecordFailure, Tripped
<1>4. b.state = "CLOSED" => RecordFailure(b) =
         LET counted == [b EXCEPT !.failures = @ + 1]
         IN  IF b.failures + 1 >= FailureThreshold THEN Tripped(counted) ELSE counted
  BY DEF RecordFailure
<1>5. b.state = "CLOSED" /\ b.failures + 1 >= FailureThreshold => RecordFailure(b) =
                [state |-> "OPEN", failures |-> b.failures + 1,
                 openFor |-> 0, trial |-> b.trial]
  BY <1>1, <1>4 DEF Tripped
<1>6. b.state = "CLOSED" /\ b.failures + 1 < FailureThreshold => RecordFailure(b) =
                [state |-> "CLOSED", failures |-> b.failures + 1,
                 openFor |-> b.openFor, trial |-> b.trial]
  BY <1>1, <1>4
<1>7. b.state = "OPEN" => RecordFailure(b) = b /\ RecordSuccess(b) = b
  BY DEF RecordFailure, RecordSuccess
<1>8. /\ b.state = "HALF_OPEN" => RecordSuccess(b) = ClosedBreaker
      /\ b.state = "CLOSED" => RecordSuccess(b) =
                [state |-> "CLOSED", failures |-> 0,
                 openFor |-> b.openFor, trial |-> b.trial]
  BY DEF RecordSuccess
<1>9. /\ b.state = "OPEN" /\ b.openFor < Cooldown => Elapse(b) =
                [state |-> "OPEN", failures |-> b.failures,
                 openFor |-> b.openFor + 1, trial |-> b.trial]
      /\ ~(b.state = "OPEN" /\ b.openFor < Cooldown) => Elapse(b) = b
  BY DEF Elapse
<1>10. /\ b.state # "CLOSED" => Admitted(b) =
                [state |-> "HALF_OPEN", failures |-> b.failures,
                 openFor |-> b.openFor, trial |-> TRUE]
       /\ b.state = "CLOSED" => Admitted(b) = b
  BY DEF Admitted
<1> QED
  BY <1>3, <1>5, <1>6, <1>7, <1>8, <1>9, <1>10

LEMMA BreakerStaysWellFormed ==
    ASSUME NEW b, WellFormed(b)
    PROVE  /\ WellFormed(ClosedBreaker)
           /\ WellFormed(Admitted(b))
           /\ WellFormed(RecordSuccess(b))
           /\ WellFormed(RecordFailure(b))
           /\ WellFormed(Elapse(b))
<1> USE BreakerAssumption DEF Breaker
<1>1. WellFormed(ClosedBreaker)
  BY DEF WellFormed, ClosedBreaker
<1>2. WellFormed(Admitted(b))
  <2>1. CASE b.state = "CLOSED"
    BY <2>1, BreakerFields
  <2>2. CASE b.state # "CLOSED"
    <3>1. Admitted(b) = [state |-> "HALF_OPEN", failures |-> b.failures,
                         openFor |-> b.openFor, trial |-> TRUE]
      BY <2>2, BreakerFields
    <3> QED
      BY <3>1 DEF WellFormed
  <2> QED
    BY <2>1, <2>2
<1>3. WellFormed(RecordSuccess(b))
  <2>1. CASE b.state = "CLOSED"
    <3>1. RecordSuccess(b) = [state |-> "CLOSED", failures |-> 0,
                              openFor |-> b.openFor, trial |-> b.trial]
      BY <2>1, BreakerFields
    <3> QED
      BY <3>1 DEF WellFormed
  <2>2. CASE b.state # "CLOSED"
    <3>1. b.state \in {"OPEN", "HALF_OPEN"}
      BY <2>2 DEF WellFormed
    <3> QED
      BY <1>1, <3>1, BreakerFields
  <2> QED
    BY <2>1, <2>2
<1>4. WellFormed(RecordFailure(b))
  <2>1. CASE b.state = "HALF_OPEN"
    <3>1. RecordFailure(b) = [state |-> "OPEN", failures |-> FailureThreshold,
                              openFor |-> 0, trial |-> FALSE]
      BY <2>1, BreakerFields
    <3> QED
      BY <3>1 DEF WellFormed
  <2>2. CASE b.state = "CLOSED" /\ b.failures + 1 >= FailureThreshold
    <3>1. RecordFailure(b) = [state |-> "OPEN", failures |-> b.failures + 1,
                              openFor |-> 0, trial |-> b.trial]
      BY <2>2, BreakerFields
    <3> QED
      BY <2>2, <3>1 DEF WellFormed
  <2>3. CASE b.state = "CLOSED" /\ b.failures + 1 < FailureThreshold
    <3>1. RecordFailure(b) = [state |-> "CLOSED", failures |-> b.failures + 1,
                              openFor |-> b.openFor, trial |-> b.trial]
      BY <2>3, BreakerFields
    <3> QED
      BY <2>3, <3>1 DEF WellFormed
  <2>4. CASE b.state = "OPEN"
    BY <2>4, BreakerFields
  <2>5. b.failures \in Nat /\ b.state \in {"OPEN", "CLOSED", "HALF_OPEN"}
    BY DEF WellFormed
  <2> QED
    BY <2>1, <2>2, <2>3, <2>4, <2>5
<1>5. WellFormed(Elapse(b))
  <2>1. CASE b.state = "OPEN" /\ b.openFor < Cooldown
    <3>1. Elapse(b) = [state |-> "OPEN", failures |-> b.failures,
                       openFor |-> b.openFor + 1, trial |-> b.trial]
      BY <2>1, BreakerFields
    <3> QED
      BY <2>1, <3>1 DEF WellFormed
  <2>2. CASE ~(b.state = "OPEN" /\ b.openFor < Cooldown)
    BY <2>2, BreakerFields
  <2> QED
    BY <2>1, <2>2
<1> QED
  BY <1>1, <1>2, <1>3, <1>4, <1>5
-----------------------------------------------------------------------------
(* Types *)

TypeInv == TypeOK /\ WellFormed(breaker)

LEMMA TypeInit == Init => TypeInv
BY BreakerAssumption, RouterAssumption
   DEF Init, TypeInv, TypeOK, Job, NoJob, Decision, WellFormed, Breaker, ClosedBreaker

LEMMA TypeNext == TypeInv /\ [Next]_vars => TypeInv'
<1> SUFFICES ASSUME TypeInv, [Next]_vars
             PROVE  TypeInv'
  OBVIOUS
<1>1. /\ WellFormed(breaker)
      /\ breaker \in Breaker
      /\ job \in [Callers -> Job]
      /\ decision \in [Callers -> Decision]
      /\ healthy \in BOOLEAN
      /\ WaitBudget \in Nat
  BY RouterAssumption DEF TypeInv, TypeOK
<1>2. ASSUME NEW b, breaker' = b, WellFormed(b)
      PROVE  WellFormed(breaker)' /\ breaker' \in Breaker
  BY <1>2 DEF WellFormed
<1>3. NoJob \in Job
  BY <1>1 DEF NoJob, Job
<1>4. ASSUME NEW c \in Callers, Deny(c) PROVE TypeInv'
  BY <1>1, <1>2, <1>4 DEF Deny, TypeInv, TypeOK, Decision
<1>5. ASSUME NEW c \in Callers, Submit(c) PROVE TypeInv'
  <2>1. [status |-> "running", age |-> 0, sound |-> healthy] \in Job
    BY <1>1 DEF Job
  <2>2. job' \in [Callers -> Job]
    BY <1>1, <1>5, <2>1 DEF Submit
  <2> QED
    BY <1>1, <1>2, <1>5, <2>2, BreakerStaysWellFormed DEF Submit, TypeInv, TypeOK
<1>6. ASSUME NEW c \in Callers, Complete(c) PROVE TypeInv'
  <2>1. PICK outcome \in {"success", "failed"} :
           job' = [job EXCEPT ![c].status = outcome]
    BY <1>6 DEF Complete
  <2>2. [job[c] EXCEPT !.status = outcome] \in Job
    BY <1>1 DEF Job
  <2>3. job' \in [Callers -> Job]
    BY <1>1, <2>1, <2>2
  <2> QED
    BY <1>1, <1>2, <1>6, <2>3 DEF Complete, TypeInv, TypeOK
<1>7. ASSUME NEW c \in Callers, Resolve(c) PROVE TypeInv'
  <2>1. WellFormed(breaker)' /\ breaker' \in Breaker
    BY <1>1, <1>2, <1>7, BreakerStaysWellFormed DEF Resolve
  <2>2. decision' \in [Callers -> Decision]
    BY <1>1, <1>7 DEF Resolve, Decision
  <2>3. job' \in [Callers -> Job] /\ healthy' \in BOOLEAN
    BY <1>1, <1>3, <1>7 DEF Resolve
  <2> QED
    BY <2>1, <2>2, <2>3 DEF TypeInv, TypeOK
<1>8. ASSUME NEW c \in Callers, GiveUp(c) PROVE TypeInv'
  <2>1. job' \in [Callers -> Job] /\ decision' \in [Callers -> Decision]
    BY <1>1, <1>3, <1>8 DEF GiveUp, Decision
  <2> QED
    BY <1>1, <1>2, <1>8, <2>1 DEF GiveUp, TypeInv, TypeOK
<1>9. CASE Tick
  <2>1. ASSUME NEW c \in Callers
        PROVE  (IF Running(c) THEN [job[c] EXCEPT !.age = @ + 1] ELSE job[c]) \in Job
    <3>1. CASE Running(c)
      <4>1. job[c].age < WaitBudget /\ job[c] \in Job
        BY <1>1, <1>9, <3>1 DEF Tick, MayWait
      <4>2. job[c].age + 1 \in 0..WaitBudget
        BY <1>1, <4>1 DEF Job
      <4> QED
        BY <3>1, <4>1, <4>2 DEF Job
    <3>2. CASE ~Running(c)
      BY <1>1, <3>2
    <3> QED
      BY <3>1, <3>2
  <2>2. job' \in [Callers -> Job]
    BY <1>9, <2>1 DEF Tick
  <2>3. WellFormed(breaker)' /\ breaker' \in Breaker
    BY <1>1, <1>2, <1>9, BreakerStaysWellFormed DEF Tick
  <2> QED
    BY <1>1, <1>9, <2>2, <2>3 DEF Tick, TypeInv, TypeOK
<1>10. CASE Outage \/ Repair \/ UNCHANGED vars
  BY <1>1, <1>2, <1>10 DEF Outage, Repair, vars, TypeInv, TypeOK
<1> QED
  BY <1>4, <1>5, <1>6, <1>7, <1>8, <1>9, <1>10 DEF Next

(* Every field keeps its type; in particular consecutive_failures never    *)
(* exceeds the threshold, however callers interleave.                      *)
THEOREM RouterTypeCorrect == Safety => []TypeOK
<1>1. Safety => []TypeInv
  BY TypeInit, TypeNext, PTL DEF Safety
<1> QED
  BY <1>1, PTL DEF TypeInv
-----------------------------------------------------------------------------
(* One trial at a time *)

(* While the breaker is open, every outstanding request is at least as old *)
(* as the opening: nothing has been admitted since.  A request older than  *)
(* the wait budget is no longer outstanding, so none is left when the      *)
(* cooldown ends.                                                          *)
OlderThanOpening == breaker.state = "OPEN" =>
                        \A c \in Callers : Waiting(c) => job[c].age >= breaker.openFor
HalfOpenIsTrial == breaker.state = "HALF_OPEN" => breaker.trial

TrialInv == TypeInv /\ OlderThanOpening /\ HalfOpenIsTrial /\ OneTrial

LEMMA TrialInit == Init => TrialInv
BY TypeInit DEF Init, TrialInv, OlderThanOpening, HalfOpenIsTrial, OneTrial, ClosedBreaker

LEMMA TrialNext ==
    ASSUME WaitBudget < Cooldown
    PROVE  TrialInv /\ [Next]_vars => TrialInv'
<1> SUFFICES ASSUME TrialInv, [Next]_vars
             PROVE  TrialInv'
  OBVIOUS
<1> USE DEF TrialInv
<1>1. /\ TypeInv' /\ WellFormed(breaker)
      /\ job \in [Callers -> Job]
      /\ WaitBudget \in Nat /\ Cooldown \in Nat
      /\ breaker.openFor \in 0..Cooldown
      /\ breaker.state \in {"OPEN", "CLOSED", "HALF_OPEN"}
      /\ \A c \in Callers : job[c].age \in 0..WaitBudget
  BY TypeNext, RouterAssumption, BreakerAssumption
     DEF TypeInv, TypeOK, WellFormed, Breaker, Job
<1> DEFINE Rest == OlderThanOpening' /\ HalfOpenIsTrial' /\ OneTrial'
<1> SUFFICES Rest
  BY <1>1
<1>2. ASSUME UNCHANGED breaker,
             \A c \in Callers : Waiting(c)' => Waiting(c) /\ job'[c].age = job[c].age
      PROVE  Rest
  BY <1>2 DEF OlderThanOpening, HalfOpenIsTrial, OneTrial
<1>3. ASSUME NEW c \in Callers, Submit(c) PROVE Rest
  <2>1. /\ ~Waiting(c) /\ Allows(breaker) /\ breaker' = Admitted(breaker)
        /\ \A d \in Callers : d # c => job'[d] = job[d]
    BY <1>1, <1>3 DEF Submit
  <2>2. CASE breaker.state = "CLOSED"
    <3>1. breaker' = breaker
      BY <1>1, <2>1, <2>2, BreakerFields
    <3> QED
      BY <2>2, <3>1 DEF OlderThanOpening, HalfOpenIsTrial, OneTrial
  <2>3. CASE breaker.state # "CLOSED"
    <3>1. breaker'.state = "HALF_OPEN" /\ breaker'.trial
      BY <1>1, <2>1, <2>3, BreakerFields
    <3>2. breaker.state = "OPEN" /\ breaker.openFor >= Cooldown
      BY <2>1, <2>3 DEF Allows, HalfOpenIsTrial
    <3>3. \A d \in Callers : ~Waiting(d)
      BY <1>1, <3>2 DEF OlderThanOpening
    <3>4. \A d \in Callers : d # c => ~Waiting(d)'
      BY <2>1, <3>3 DEF Waiting
    <3> QED
      BY <3>1, <3>4 DEF OlderThanOpening, HalfOpenIsTrial, OneTrial
  <2> QED
    BY <2>2, <2>3
<1>4. ASSUME NEW c \in Callers, Resolve(c) PROVE Rest
  <2>1. /\ Waiting(c) /\ ~Waiting(c)'
        /\ breaker' \in {RecordSuccess(breaker), RecordFailure(breaker)}
        /\ \A d \in Callers : d # c => job'[d] = job[d]
    BY <1>1, <1>4 DEF Resolve, Answered, Waiting, NoJob
  <2>2. CASE breaker.state = "HALF_OPEN"
    <3>1. \A d \in Callers : ~Waiting(d)'
      BY <2>1, <2>2 DEF OneTrial, Waiting
    <3>2. breaker'.state # "HALF_OPEN"
      BY <1>1, <2>1, <2>2, BreakerFields DEF ClosedBreaker
    <3> QED
      BY <3>1, <3>2 DEF OlderThanOpening, HalfOpenIsTrial, OneTrial
  <2>3. CASE breaker.state = "CLOSED"
    <3>1. \/ breaker'.state = "CLOSED"
          \/ breaker'.state = "OPEN" /\ breaker'.openFor = 0
      <4>1. breaker.failures + 1 >= FailureThreshold \/ breaker.failures + 1 < FailureThreshold
        BY <1>1, BreakerAssumption DEF WellFormed, Breaker
      <4> QED
        BY <1>1, <2>1, <2>3, <4>1, BreakerFields
    <3>2. \A d \in Callers : job'[d].age >= 0
      BY <1>1 DEF TypeInv, TypeOK, Job
    <3> QED
      BY <3>1, <3>2 DEF OlderThanOpening, HalfOpenIsTrial, OneTrial
  <2>4. CASE breaker.state = "OPEN"
    <3>1. breaker' = breaker
      BY <1>1, <2>1, <2>4, BreakerFields
    <3>2. \A d \in Callers : Waiting(d)' => Waiting(d) /\ job'[d] = job[d]
      BY <2>1 DEF Waiting
    <3> QED
      BY <1>2, <3>1, <3>2
  <2> QED
    BY <1>1, <2>2, <2>3, <2>4
<1>5. CASE Tick
  <2>1. \A c \in Callers : ~Answered(c)
    BY <1>5 DEF Tick
  <2>2. /\ breaker' = Elapse(breaker)
        /\ \A c \in Callers : job'[c] =
               IF Running(c) THEN [job[c] EXCEPT !.age = @ + 1] ELSE job[c]
    BY <1>5 DEF Tick
  <2>3. ASSUME NEW c \in Callers, Waiting(c)'
        PROVE  Waiting(c) /\ job'[c].age = job[c].age + 1
    <3>1. job[c] \in Job
      BY <1>1
    <3>2. CASE Running(c)
      BY <2>2, <3>1, <3>2 DEF Running, Waiting, Job
    <3>3. CASE ~Running(c)
      <4>1. job[c].status \in {"none", "running", "success", "failed"}
        BY <3>1 DEF Job
      <4>2. ~Waiting(c)
        BY <2>1, <3>3, <4>1 DEF Answered, Running, Waiting
      <4> QED
        BY <2>2, <2>3, <3>3, <4>2 DEF Waiting
    <3> QED
      BY <3>2, <3>3
  <2>4. CASE breaker.state = "OPEN" /\ breaker.openFor < Cooldown
    <3>1. breaker'.state = "OPEN" /\ breaker'.openFor = breaker.openFor + 1
      BY <1>1, <2>2, <2>4, BreakerFields
    <3>2. \A c \in Callers : Waiting(c)' => job'[c].age >= breaker'.openFor
      BY <1>1, <2>3, <2>4, <3>1 DEF OlderThanOpening
    <3> QED
      BY <3>1, <3>2 DEF OlderThanOpening, HalfOpenIsTrial, OneTrial
  <2>5. CASE ~(breaker.state = "OPEN" /\ breaker.openFor < Cooldown)
    <3>1. breaker' = breaker
      BY <1>1, <2>2, <2>5, BreakerFields
    <3>2. \A c \in Callers : Waiting(c)' => job'[c].age >= job[c].age
      BY <1>1, <2>3
    <3>3. OlderThanOpening'
      <4> SUFFICES ASSUME NEW c \in Callers, Waiting(c)', breaker.state = "OPEN"
                   PROVE  job'[c].age >= breaker.openFor
        BY <3>1 DEF OlderThanOpening
      <4>1. job[c].age >= breaker.openFor
        BY <2>3 DEF OlderThanOpening
      <4> QED
        BY <1>1, <2>3, <4>1
    <3> QED
      BY <2>3, <3>1, <3>3 DEF HalfOpenIsTrial, OneTrial
  <2> QED
    BY <2>4, <2>5
<1>6. ASSUME NEW c \in Callers, Complete(c) PROVE Rest
  <2>1. PICK outcome \in {"success", "failed"} : job' = [job EXCEPT ![c].status = outcome]
    BY <1>6 DEF Complete
  <2>2. \A d \in Callers : Waiting(d)' => Waiting(d) /\ job'[d].age = job[d].age
    BY <1>1, <1>6, <2>1 DEF Complete, Running, Waiting, Job
  <2> QED
    BY <1>2, <1>6, <2>2 DEF Complete
<1>7. ASSUME NEW c \in Callers, GiveUp(c) PROVE Rest
  <2>1. \A d \in Callers : Waiting(d)' => Waiting(d) /\ job'[d].age = job[d].age
    BY <1>1, <1>7 DEF GiveUp, Waiting, NoJob
  <2> QED
    BY <1>2, <1>7, <2>1 DEF GiveUp
<1>8. ASSUME (\E c \in Callers : Deny(c)) \/ Outage \/ Repair \/ UNCHANGED vars
      PROVE  Rest
  BY <1>2, <1>8 DEF Deny, Outage, Repair, vars, Waiting
<1> QED
  BY <1>3, <1>4, <1>5, <1>6, <1>7, <1>8 DEF Next

(* With a wait budget below the cooldown (10 s and 30 s as configured), at *)
(* most one request is outstanding while the breaker is half open, for any *)
(* number of callers: no late answer can close or reopen it for the trial. *)
THEOREM OneTrialAtATime ==
    ASSUME WaitBudget < Cooldown
    PROVE  Safety => []OneTrial
<1>1. TrialInv /\ [Next]_vars => TrialInv'
  BY TrialNext
<1>2. Safety => []TrialInv
  BY <1>1, TrialInit, PTL DEF Safety
<1> QED
  BY <1>2, PTL DEF TrialInv
-----------------------------------------------------------------------------
(* A trial always has somebody who reports its outcome *)

(* One attempt takes no longer than the whole job may. *)
LEMMA AttemptWithinJob == JobLimit \in Nat /\ Timeout <= JobLimit
<1>1. MaxRetries * Timeout \in Nat /\ MaxRetries * Backoff \in Nat
  BY RouterAssumption
<1>2. (MaxRetries + 1) * Timeout = MaxRetries * Timeout + Timeout
  BY RouterAssumption
<1> QED
  BY <1>1, <1>2, RouterAssumption DEF JobLimit

(* A running job is within its limit, no caller has been left without an   *)
(* answer, and the trial flag is set only while the trial is outstanding.  *)
WatchInv == /\ TypeInv
            /\ \A c \in Callers : Running(c) => job[c].age <= JobLimit
            /\ NoPendingDecision
            /\ breaker.trial => breaker.state = "HALF_OPEN"
            /\ TrialIsWatched

LEMMA WatchNext ==
    ASSUME JobLimit < WaitBudget
    PROVE  WatchInv /\ [Next]_vars => WatchInv'
<1> SUFFICES ASSUME WatchInv, [Next]_vars
             PROVE  WatchInv'
  OBVIOUS
<1>1. /\ TypeInv' /\ WellFormed(breaker)
      /\ job \in [Callers -> Job] /\ decision \in [Callers -> Decision]
      /\ WaitBudget \in Nat /\ JobLimit \in Nat /\ Timeout \in Nat
      /\ breaker.state \in {"OPEN", "CLOSED", "HALF_OPEN"}
      /\ \A c \in Callers : Running(c) => job[c].age <= JobLimit
      /\ \A c \in Callers : decision[c] # "pending"
      /\ breaker.trial => breaker.state = "HALF_OPEN"
      /\ breaker.trial => \E c \in Callers : Waiting(c)
  BY TypeNext, AttemptWithinJob, RouterAssumption
     DEF WatchInv, NoPendingDecision, TrialIsWatched, TypeInv, TypeOK, WellFormed, Breaker
<1> DEFINE InLimit == \A c \in Callers : Running(c)' => job'[c].age <= JobLimit
           NonePending == \A c \in Callers : decision'[c] # "pending"
           Flag == /\ breaker'.trial => breaker'.state = "HALF_OPEN"
                   /\ breaker'.trial => \E c \in Callers : Waiting(c)'
<1> SUFFICES InLimit /\ NonePending /\ Flag
  BY <1>1 DEF WatchInv, NoPendingDecision, TrialIsWatched
<1>2. ASSUME NEW c \in Callers, Submit(c) PROVE InLimit /\ NonePending /\ Flag
  <2>1. /\ breaker' = Admitted(breaker) /\ UNCHANGED decision
        /\ \A d \in Callers : d # c => job'[d] = job[d]
        /\ job'[c].age = 0 /\ job'[c].status = "running"
    BY <1>1, <1>2 DEF Submit
  <2>2. Flag
    BY <1>1, <2>1, BreakerFields DEF Waiting
  <2>3. InLimit
    BY <1>1, <2>1 DEF Running
  <2> QED
    BY <1>1, <2>1, <2>2, <2>3
<1>3. ASSUME NEW c \in Callers, Resolve(c) PROVE InLimit /\ NonePending /\ Flag
  <2>1. /\ Waiting(c) /\ ~Running(c)'
        /\ breaker' \in {RecordSuccess(breaker), RecordFailure(breaker)}
        /\ \A d \in Callers : d # c => job'[d] = job[d]
        /\ \A d \in Callers : decision'[d] # "pending"
    BY <1>1, <1>3 DEF Resolve, Answered, Running, Waiting, NoJob
  <2>2. ~breaker'.trial
    <3>1. breaker.state = "CLOSED" =>
              breaker.failures + 1 >= FailureThreshold \/ breaker.failures + 1 < FailureThreshold
      BY <1>1, BreakerAssumption DEF WellFormed, Breaker
    <3> QED
      BY <1>1, <2>1, <3>1, BreakerFields DEF ClosedBreaker
  <2>3. InLimit
    BY <1>1, <2>1 DEF Running
  <2> QED
    BY <2>1, <2>2, <2>3
<1>4. ASSUME NEW c \in Callers, GiveUp(c) PROVE FALSE
  BY <1>1, <1>4 DEF GiveUp
<1>5. CASE Tick
  <2>1. /\ breaker' = Elapse(breaker) /\ UNCHANGED decision
        /\ \A c \in Callers : job'[c] =
               IF Running(c) THEN [job[c] EXCEPT !.age = @ + 1] ELSE job[c]
        /\ \A c \in Callers : Running(c) => job[c].age < JobLimit \/ job[c].age < Timeout
    BY <1>5 DEF Tick, MayWait
  <2>2. ASSUME NEW c \in Callers
        PROVE  /\ Running(c)' => job'[c].age <= JobLimit
               /\ Waiting(c) => Waiting(c)'
    <3>1. job[c] \in Job
      BY <1>1
    <3>2. CASE Running(c)
      <4>1. job'[c].age = job[c].age + 1 /\ job'[c].status = "running"
        BY <2>1, <3>1, <3>2 DEF Job, Running
      <4>2. job[c].age < JobLimit
        BY <1>1, <2>1, <3>1, <3>2, AttemptWithinJob DEF Job
      <4> QED
        BY <1>1, <3>1, <4>1, <4>2 DEF Waiting, Job
    <3>3. CASE ~Running(c)
      BY <2>1, <3>3 DEF Running, Waiting
    <3> QED
      BY <3>2, <3>3
  <2>3. breaker'.trial = breaker.trial /\ breaker'.state = breaker.state
    BY <1>1, <2>1, BreakerFields
  <2> QED
    BY <1>1, <2>1, <2>2, <2>3
<1>6. ASSUME NEW c \in Callers, Complete(c) PROVE InLimit /\ NonePending /\ Flag
  <2>1. PICK outcome \in {"success", "failed"} : job' = [job EXCEPT ![c].status = outcome]
    BY <1>6 DEF Complete
  <2>2. ASSUME NEW d \in Callers
        PROVE  /\ Waiting(d) => Waiting(d)'
               /\ Running(d)' => Running(d) /\ job'[d] = job[d]
    BY <1>1, <2>1 DEF Running, Waiting, Job
  <2>3. breaker' = breaker /\ decision' = decision
    BY <1>6 DEF Complete
  <2>4. ASSUME NEW d \in Callers PROVE Running(d)' => job'[d].age <= JobLimit
    <3>1. Running(d)' => Running(d) /\ job'[d] = job[d]
      BY <2>2
    <3>2. Running(d) => job[d].age <= JobLimit
      BY <1>1
    <3> QED
      BY <3>1, <3>2
  <2>5. NonePending
    BY <1>1, <2>3
  <2>6. Flag
    <3>1. ASSUME breaker.trial PROVE \E d \in Callers : Waiting(d)'
      <4>1. PICK d \in Callers : Waiting(d)
        BY <1>1, <3>1
      <4>2. Waiting(d)'
        BY <2>2, <4>1
      <4> QED
        BY <4>2
    <3> QED
      BY <1>1, <2>3, <3>1
  <2>7. InLimit
    BY <2>4
  <2> QED
    BY <2>5, <2>6, <2>7
<1>7. ASSUME NEW c \in Callers, Deny(c) PROVE InLimit /\ NonePending /\ Flag
  BY <1>1, <1>7 DEF Deny, Running, Waiting
<1>8. CASE Outage \/ Repair \/ UNCHANGED vars
  BY <1>1, <1>8 DEF Outage, Repair, vars, Running, Waiting
<1> QED
  BY <1>2, <1>3, <1>4, <1>5, <1>6, <1>7, <1>8 DEF Next

LEMMA WatchInit == Init => WatchInv
<1> SUFFICES ASSUME Init PROVE WatchInv
  OBVIOUS
<1>1. TypeInv
  BY TypeInit
<1>2. \A c \in Callers : ~Running(c) /\ decision[c] = "none"
  BY DEF Init, Running, NoJob
<1>3. ~breaker.trial
  BY DEF Init, ClosedBreaker
<1> QED
  BY <1>1, <1>2, <1>3 DEF WatchInv, NoPendingDecision, TrialIsWatched

(* When a job cannot outlast the callers' wait (4 s and 10 s for VQC), no  *)
(* caller ever receives a pending decision.                                *)
THEOREM AlwaysDecided ==
    ASSUME JobLimit < WaitBudget
    PROVE  Safety => []NoPendingDecision
<1>1. WatchInv /\ [Next]_vars => WatchInv'
  BY WatchNext
<1>2. Safety => []WatchInv
  BY <1>1, WatchInit, PTL DEF Safety
<1> QED
  BY <1>2, PTL DEF WatchInv

(* ... and the half-open flag is never set with nobody left to clear it.   *)
THEOREM TrialAlwaysWatched ==
    ASSUME JobLimit < WaitBudget
    PROVE  Safety => []TrialIsWatched
<1>1. WatchInv /\ [Next]_vars => WatchInv'
  BY WatchNext
<1>2. Safety => []WatchInv
  BY <1>1, WatchInit, PTL DEF Safety
<1> QED
  BY <1>2, PTL DEF WatchInv
-----------------------------------------------------------------------------
(* What can lose a trial its reporter, for any timeouts *)

FlagInv == TypeInv /\ (breaker.trial => breaker.state = "HALF_OPEN")

(* One request's exhausted wait. *)
SomeoneWaitedOut == \E c \in Callers : Running(c) /\ job[c].age = WaitBudget

LEMMA FlagNext ==
    FlagInv /\ [Next]_vars =>
        FlagInv' /\ (TrialIsWatched => TrialIsWatched' \/ SomeoneWaitedOut)
<1> SUFFICES ASSUME FlagInv, [Next]_vars
             PROVE  FlagInv' /\ (TrialIsWatched => TrialIsWatched' \/ SomeoneWaitedOut)
  OBVIOUS
<1>1. /\ TypeInv' /\ WellFormed(breaker)
      /\ job \in [Callers -> Job]
      /\ breaker.state \in {"OPEN", "CLOSED", "HALF_OPEN"}
      /\ breaker.trial => breaker.state = "HALF_OPEN"
  BY TypeNext DEF FlagInv, TypeInv, TypeOK, WellFormed, Breaker
<1> DEFINE Flag == breaker'.trial => breaker'.state = "HALF_OPEN"
           Watch == TrialIsWatched => TrialIsWatched' \/ SomeoneWaitedOut
<1> SUFFICES Flag /\ Watch
  BY <1>1 DEF FlagInv
<1>2. ASSUME breaker'.trial = breaker.trial, breaker'.state = breaker.state,
             \A c \in Callers : Waiting(c) => Waiting(c)'
      PROVE  Flag /\ Watch
  BY <1>1, <1>2 DEF TrialIsWatched
<1>3. ASSUME NEW c \in Callers, Submit(c) PROVE Flag /\ Watch
  <2>1. Waiting(c)' /\ breaker' = Admitted(breaker)
    BY <1>1, <1>3 DEF Submit, Waiting
  <2> QED
    BY <1>1, <2>1, BreakerFields DEF TrialIsWatched
<1>4. ASSUME NEW c \in Callers, Resolve(c) PROVE Flag /\ Watch
  <2>1. breaker' \in {RecordSuccess(breaker), RecordFailure(breaker)}
    BY <1>4 DEF Resolve
  <2>2. breaker.state = "CLOSED" =>
            breaker.failures + 1 >= FailureThreshold \/ breaker.failures + 1 < FailureThreshold
    BY <1>1, BreakerAssumption DEF WellFormed, Breaker
  <2>3. ~breaker'.trial
    BY <1>1, <2>1, <2>2, BreakerFields DEF ClosedBreaker
  <2> QED
    BY <2>3 DEF TrialIsWatched
<1>5. ASSUME NEW c \in Callers, GiveUp(c) PROVE Flag /\ Watch
  BY <1>1, <1>5 DEF GiveUp, SomeoneWaitedOut
<1>6. CASE Tick
  <2>1. breaker'.trial = breaker.trial /\ breaker'.state = breaker.state
    BY <1>1, <1>6, BreakerFields DEF Tick
  <2>2. ASSUME NEW c \in Callers, Waiting(c) PROVE Waiting(c)'
    <3>1. job[c] \in Job
      BY <1>1
    <3> QED
      BY <1>6, <2>2, <3>1 DEF Tick, Running, Waiting, Job
  <2> QED
    BY <1>2, <2>1, <2>2
<1>7. ASSUME NEW c \in Callers, Complete(c) PROVE Flag /\ Watch
  <2>1. PICK outcome \in {"success", "failed"} : job' = [job EXCEPT ![c].status = outcome]
    BY <1>7 DEF Complete
  <2>2. ASSUME NEW d \in Callers, Waiting(d) PROVE Waiting(d)'
    BY <1>1, <2>1, <2>2 DEF Waiting, Job
  <2> QED
    BY <1>2, <1>7, <2>2 DEF Complete
<1>8. ASSUME (\E c \in Callers : Deny(c)) \/ Outage \/ Repair \/ UNCHANGED vars
      PROVE  Flag /\ Watch
  BY <1>2, <1>8 DEF Deny, Outage, Repair, vars, Waiting
<1> QED
  BY <1>3, <1>4, <1>5, <1>6, <1>7, <1>8 DEF Next

(* Whatever the timeouts, the half-open flag is left with nobody to clear  *)
(* it in one way only: the trial's caller waited as long as it was going   *)
(* to, and its job was still running.                                      *)
THEOREM LockOutHasOneCause == Safety => OnlyGivingUpLocksOut
<1>1. Init => FlagInv
  BY TypeInit DEF Init, FlagInv, ClosedBreaker
<1>2. FlagInv /\ [Next]_vars => FlagInv'
  BY FlagNext
<1>3. FlagInv /\ [Next]_vars =>
        [TrialIsWatched /\ ~TrialIsWatched' =>
            \E c \in Callers : Running(c) /\ job[c].age = WaitBudget]_vars
  BY FlagNext DEF SomeoneWaitedOut
<1> QED
  BY <1>1, <1>2, <1>3, PTL DEF Safety, OnlyGivingUpLocksOut
=============================================================================
