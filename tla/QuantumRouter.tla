--------------------------- MODULE QuantumRouter ---------------------------
(***************************************************************************)
(* QuantumRouter.route_and_wait (src/routing/router.py) as several threads *)
(* call it on one router: the circuit breaker, the job that each admitted  *)
(* request submits (src/routing/worker.py bounds how long it runs), and    *)
(* the caller's own wait budget.                                           *)
(*                                                                         *)
(* Time advances in ticks of half a second, the smallest unit of the       *)
(* configuration.  A thread reacts to a finished job or an exhausted wait  *)
(* within the tick it happens in.  Jobs do not queue: a router has at      *)
(* least as many job threads (queue.max_workers) as callers here.          *)
(***************************************************************************)
EXTENDS CircuitBreaker, FiniteSets

CONSTANTS Callers,      (* threads that call route_and_wait                   *)
          MaxRetries,   (* execution.max_retries                              *)
          Timeout,      (* execution.timeout_seconds[backend], in ticks       *)
          Backoff,      (* execution.backoff_seconds, in ticks                *)
          WaitBudget    (* the timeout the callers pass: 10 s, in ticks       *)

ASSUME RouterAssumption == /\ MaxRetries \in Nat
                           /\ Timeout \in Nat \ {0}
                           /\ Backoff \in Nat
                           /\ WaitBudget \in Nat

VARIABLES breaker,      (* the backend's circuit breaker                      *)
          job,          (* per caller, the job it waits for                   *)
          decision,     (* per caller, the last decision_status it was given  *)
          healthy       (* whether the backend answers                        *)

vars == <<breaker, job, decision, healthy>>

(* run_job gives up after max_retries + 1 attempts with a backoff between. *)
JobLimit == (MaxRetries + 1) * Timeout + MaxRetries * Backoff

(* A job submitted to a healthy backend succeeds at its first attempt; one *)
(* submitted during an outage may do anything run_job allows.              *)
Job == [status : {"none", "running", "success", "failed"},
        age : 0..WaitBudget,
        sound : BOOLEAN]

NoJob == [status |-> "none", age |-> 0, sound |-> TRUE]

Decision == {"none", "circuit_open", "success", "fallback", "pending"}

Running(c) == job[c].status = "running"
Answered(c) == job[c].status \in {"success", "failed"}
Waiting(c) == job[c].status # "none"

TypeOK == /\ breaker \in Breaker
          /\ job \in [Callers -> Job]
          /\ decision \in [Callers -> Decision]
          /\ healthy \in BOOLEAN

Init == /\ breaker = ClosedBreaker
        /\ job = [c \in Callers |-> NoJob]
        /\ decision = [c \in Callers |-> "none"]
        /\ healthy = TRUE

-----------------------------------------------------------------------------
(* route: the breaker denies the request ... *)
Deny(c) == /\ ~Waiting(c)
           /\ ~Allows(breaker)
           /\ decision' = [decision EXCEPT ![c] = "circuit_open"]
           /\ UNCHANGED <<breaker, job, healthy>>

(* ... or admits it and a job is submitted. *)
Submit(c) == /\ ~Waiting(c)
             /\ Allows(breaker)
             /\ breaker' = Admitted(breaker)
             /\ job' = [job EXCEPT ![c] =
                    [status |-> "running", age |-> 0, sound |-> healthy]]
             /\ UNCHANGED <<decision, healthy>>

(* run_job returns: a sound job with a success, another with any outcome.  *)
Complete(c) == /\ Running(c)
               /\ \E outcome \in {"success", "failed"} :
                     /\ job[c].sound => outcome = "success"
                     /\ job' = [job EXCEPT ![c].status = outcome]
               /\ UNCHANGED <<breaker, decision, healthy>>

(* get_result returned the record: _resolve_decision tells the breaker. *)
Resolve(c) ==
    /\ Answered(c)
    /\ LET ok == job[c].status = "success"
       IN  /\ breaker' = IF ok THEN RecordSuccess(breaker) ELSE RecordFailure(breaker)
           /\ decision' = [decision EXCEPT ![c] = IF ok THEN "success" ELSE "fallback"]
    /\ job' = [job EXCEPT ![c] = NoJob]
    /\ UNCHANGED healthy

(* The wait budget runs out first: route_and_wait returns the pending      *)
(* decision.  Nobody looks at the job again, and nobody tells the breaker. *)
GiveUp(c) ==
    /\ Running(c)
    /\ job[c].age = WaitBudget
    /\ decision' = [decision EXCEPT ![c] = "pending"]
    /\ job' = [job EXCEPT ![c] = NoJob]
    /\ UNCHANGED <<breaker, healthy>>

-----------------------------------------------------------------------------
(* Time passes, unless a thread has something to do right now. *)
MayWait(c) == Running(c) =>
                 /\ job[c].age < WaitBudget
                 /\ job[c].age < (IF job[c].sound THEN Timeout ELSE JobLimit)

Tick == /\ \A c \in Callers : ~Answered(c) /\ MayWait(c)
        /\ breaker' = Elapse(breaker)
        /\ job' = [c \in Callers |->
               IF Running(c) THEN [job[c] EXCEPT !.age = @ + 1] ELSE job[c]]
        /\ UNCHANGED <<decision, healthy>>

(* The backend goes down and comes back. *)
Outage == healthy /\ healthy' = FALSE /\ UNCHANGED <<breaker, job, decision>>
Repair == ~healthy /\ healthy' = TRUE /\ UNCHANGED <<breaker, job, decision>>

Next == \/ \E c \in Callers : Deny(c) \/ Submit(c) \/ Complete(c) \/ Resolve(c) \/ GiveUp(c)
        \/ Tick \/ Outage \/ Repair

(* Time diverges, jobs and threads run, and requests keep coming. *)
Fairness == /\ SF_vars(Tick)
            /\ \A c \in Callers : WF_vars(Submit(c)) /\ WF_vars(Complete(c))
                                  /\ WF_vars(Resolve(c)) /\ WF_vars(GiveUp(c))

Safety == Init /\ [][Next]_vars
Spec == Safety /\ Fairness

-----------------------------------------------------------------------------
(* Properties *)

(* "For HALF_OPEN, only one trial request is allowed through at a time"    *)
(* (allow_request): while the breaker probes the backend, the trial is the *)
(* only request whose outcome can still reach it, so no late answer to a   *)
(* request admitted before the breaker opened decides the trial.           *)
OneTrial == breaker.state = "HALF_OPEN" =>
                \A c, d \in Callers : Waiting(c) /\ Waiting(d) => c = d

(* A trial in flight has somebody who will report its outcome; otherwise   *)
(* half_open_trial_in_flight would never be cleared.                       *)
TrialIsWatched == breaker.trial => \E c \in Callers : Waiting(c)

(* route_and_wait never hands out a "pending" decision, which the hybrid   *)
(* stage refuses (hybrid_engine.py raises ValueError on it).               *)
NoPendingDecision == \A c \in Callers : decision[c] # "pending"

(* Whatever the timeouts are, a trial loses its reporter in one way only:  *)
(* its caller's wait runs out while the job is still running.              *)
OnlyGivingUpLocksOut ==
    [][TrialIsWatched /\ ~TrialIsWatched' =>
          \E c \in Callers : Running(c) /\ job[c].age = WaitBudget]_vars

(* Once the backend stays healthy, the breaker lets requests through again *)
(* and again: no history of outcomes and timeouts locks it out for good.   *)
Recovers == <>[]healthy => []<>(breaker.state = "CLOSED")

(* ... unless a trial was abandoned: nothing else, neither late answers    *)
(* nor callers that gave up on other requests, keeps the breaker open.     *)
RecoversUnlessLockedOut ==
    <>[]healthy => []<>(breaker.state = "CLOSED") \/ <>[]~TrialIsWatched
=============================================================================
