--------------------------- MODULE DefenseWorker ---------------------------
(***************************************************************************)
(* The defense worker (src/runtime/services/defense_worker.py) and its     *)
(* DefenseEngine: validate, execute, verify, retry, roll back, report.     *)
(* Everything is done to a simulated state the process keeps in memory     *)
(* only, so a restart forgets it.  The process is single-threaded.         *)
(*                                                                         *)
(* A message is a risk.assessed event: a sample, its evidence and what the *)
(* router said.  The sample_id is the target.  The stages in front are at  *)
(* least once: a sample may arrive more than once, as the same event or as *)
(* one the quantum stage produced anew, with another outcome.              *)
(***************************************************************************)
EXTENDS Contracts

CONSTANTS Samples,          (* sample_ids, which are also the targets       *)
          Observations,     (* the detector's evidence a sample may carry   *)
          QuantumAnswers,   (* the attack probabilities a verifier answers  *)
          MaxRetries,       (* recovery.max_retries                         *)
          MaxCopies,        (* bound: deliveries of one sample              *)
          MaxCrashes        (* bound: crashes in a run                      *)

ASSUME DefenseAssumption == /\ Observations \subseteq Evidence
                            /\ QuantumAnswers \subseteq 0..One
                            /\ MaxRetries \in Nat
                            /\ MaxCopies \in Nat \ {0}
                            /\ MaxCrashes \in Nat

VARIABLES evidence,     (* per sample, what the detector saw                *)
          inbox,        (* the messages delivered and not yet answered      *)
          sent,         (* per sample, the deliveries made                  *)
          sources,      (* SimulatedNetworkState._sources                   *)
          faulty,       (* SimulatedNetworkState._inject_failure_for        *)
          engine,       (* where the process stands in DefenseEngine.process*)
          results,      (* the defense.completed messages published         *)
          crashes

vars == <<evidence, inbox, sent, sources, faulty, engine, results, crashes>>

(* The fields of a SourceState.  `sessions' is its active sessions, of     *)
(* which a new source has one; `monitoring' its monitoring_level.          *)
SourceState == [blocked : BOOLEAN, isolated : BOOLEAN, rate_limited : BOOLEAN,
                monitored : BOOLEAN, increased : BOOLEAN,
                sessions : 0..1, suspended : 0..1]

Fresh == [blocked |-> FALSE, isolated |-> FALSE, rate_limited |-> FALSE,
          monitored |-> FALSE, increased |-> FALSE,
          sessions |-> 1, suspended |-> 0]

Unseen == [rf |-> -1, xgb |-> -1, anomaly |-> -1]
Seen(s) == evidence[s] # Unseen

Message == [sample : Samples, copy : 1..MaxCopies, routing : Routing]
Action(m) == SelectAction(evidence[m.sample], m.routing)

Idle == [at |-> "idle"]
Down == [at |-> "down"]
Busy == engine.at = "executed"

Result == [message : Message, life : 0..MaxCrashes, action : Actions,
           status : {"REJECTED", "EXECUTED", "FAILED"},
           recovery : {"NOT_ATTEMPTED", "SUCCESS", "FAILED"},
           health : {"HEALTHY", "UNHEALTHY"}]

TypeOK == /\ evidence \in [Samples -> Observations \cup {Unseen}]
          /\ inbox \subseteq Message
          /\ sent \in [Samples -> 0..MaxCopies]
          /\ sources \in [Samples -> SourceState]
          /\ faulty \subseteq Samples
          /\ \/ engine \in {Idle, Down}
             \/ engine \in [at : {"executed"}, message : inbox, action : Actions,
                            before : SourceState, retries : 0..MaxRetries]
          /\ results \subseteq Result
          /\ crashes \in 0..MaxCrashes

Init == /\ evidence = [s \in Samples |-> Unseen]
        /\ inbox = {}
        /\ sent = [s \in Samples |-> 0]
        /\ sources = [s \in Samples |-> Fresh]
        /\ faulty = {}
        /\ engine = Idle
        /\ results = {}
        /\ crashes = 0

-----------------------------------------------------------------------------
(* The executor and the verification *)

(* _apply_full *)
Effect(a, source) ==
    [monitored    |-> source.monitored \/ a \in {"MONITOR", "INCREASE_MONITORING"},
     increased    |-> source.increased \/ a = "INCREASE_MONITORING",
     rate_limited |-> source.rate_limited \/ a \in {"RATE_LIMIT", "BLOCK"},
     isolated     |-> source.isolated \/ a = "ISOLATE",
     blocked      |-> source.blocked \/ a = "BLOCK",
     suspended    |-> source.suspended + IF a = "ISOLATE" THEN source.sessions ELSE 0,
     sessions     |-> IF a \in CutsOff THEN 0 ELSE source.sessions]

(* Mutant: a failed ISOLATE suspends a session and keeps it active. *)
PartialKeepsSessions(a, source) ==
    [source EXCEPT !.monitored    = @ \/ a = "INCREASE_MONITORING",
                   !.rate_limited = @ \/ a = "BLOCK",
                   !.suspended    = @ + IF a = "ISOLATE" THEN source.sessions ELSE 0]

(* _apply_partial: an injected failure leaves the flag of the action       *)
(* unset, but not every other field untouched.                             *)
PartialEffect(a, source) ==
    [monitored    |-> source.monitored \/ a = "INCREASE_MONITORING",
     increased    |-> source.increased,
     rate_limited |-> source.rate_limited \/ a = "BLOCK",
     isolated     |-> source.isolated,
     blocked      |-> source.blocked,
     suspended    |-> source.suspended + IF a = "ISOLATE" THEN source.sessions ELSE 0,
     sessions     |-> IF a = "ISOLATE" THEN 0 ELSE source.sessions]

(* verify *)
InEffect(a, source) ==
    /\ a = "MONITOR" => source.monitored
    /\ a = "INCREASE_MONITORING" => source.increased
    /\ a = "RATE_LIMIT" => source.rate_limited
    /\ a = "ISOLATE" => source.isolated /\ source.sessions = 0 /\ source.suspended > 0
    /\ a = "BLOCK" => source.blocked /\ source.rate_limited /\ source.sessions = 0

(* _already_active looks at one flag per action; MONITOR may be repeated. *)
AlreadyActive(a, source) == \/ a = "INCREASE_MONITORING" /\ source.increased
                            \/ a = "RATE_LIMIT" /\ source.rate_limited
                            \/ a = "ISOLATE" /\ source.isolated
                            \/ a = "BLOCK" /\ source.blocked

(* The shipped policy; catalog actions other than TERMINATE are reversible.*)
simulation_mode == TRUE
disabled_actions == {}
Known == Actions \cup {"TERMINATE"}
Reversible(a) == a # "TERMINATE"

(* validate: the kill switch, the policy's mapping, the catalog and the    *)
(* policy's exclusions; then that the action is not in effect; then, for   *)
(* an uncertain decision, that it can be undone.  The sample_id, which is  *)
(* the target, is one field of the message here, and is not empty.         *)
Permitted(m, a) == /\ simulation_mode
                   /\ a = Action(m)
                   /\ a \in Known \ disabled_actions

Validated(m, a) ==
    /\ Permitted(m, a)
    /\ ~AlreadyActive(a, sources[m.sample])
    /\ Status(evidence[m.sample], m.routing) = "uncertain" => Reversible(a)

(* execute: the whole effect, or part of it when a failure is injected. *)
Execute(a, s) ==
    sources' = [sources EXCEPT ![s] = IF s \in faulty THEN PartialEffect(a, @)
                                                       ELSE Effect(a, @)]

-----------------------------------------------------------------------------
(* A sample arrives; later perhaps again, with the outcome it had or with  *)
(* the one of another run of the quantum stage.                            *)
Arrive(s) == /\ ~Seen(s)
             /\ \E e \in Observations : \E r \in Outcomes(e, QuantumAnswers) :
                   /\ evidence' = [evidence EXCEPT ![s] = e]
                   /\ inbox' = inbox \cup {[sample |-> s, copy |-> 1, routing |-> r]}
             /\ sent' = [sent EXCEPT ![s] = 1]
             /\ UNCHANGED <<sources, faulty, engine, results, crashes>>

Redeliver(s) == /\ Seen(s)
                /\ sent[s] < MaxCopies
                /\ sent' = [sent EXCEPT ![s] = @ + 1]
                /\ \E r \in Outcomes(evidence[s], QuantumAnswers) :
                      inbox' = inbox \cup {[sample |-> s, copy |-> sent'[s], routing |-> r]}
                /\ UNCHANGED <<evidence, sources, faulty, engine, results, crashes>>

(* inject_failure_for and clear_injected_failure, which tests call. *)
InjectFailure(s) == /\ s \notin faulty
                    /\ engine # Down
                    /\ faulty' = faulty \cup {s}
                    /\ UNCHANGED <<evidence, inbox, sent, sources, engine, results, crashes>>

ClearFailure(s) == /\ s \in faulty
                   /\ faulty' = faulty \ {s}
                   /\ UNCHANGED <<evidence, inbox, sent, sources, engine, results, crashes>>

(* The handler ends: it publishes what happened, or the publication fails  *)
(* and the stage submits a copy of the message in its place.               *)
Report(m, a, status, recovery, health) ==
    /\ engine' = Idle
    /\ \/ /\ results' = results \cup {[message |-> m, life |-> crashes, action |-> a,
                                       status |-> status, recovery |-> recovery,
                                       health |-> health]}
          /\ inbox' = inbox \ {m}
          /\ UNCHANGED sent
       \/ /\ sent[m.sample] < MaxCopies
          /\ sent' = [sent EXCEPT ![m.sample] = @ + 1]
          /\ inbox' = (inbox \ {m}) \cup {[m EXCEPT !.copy = sent'[m.sample]]}
          /\ UNCHANGED results

(* The validator refuses the action.  The source counts as healthy where   *)
(* the reason is that the action is already active.                        *)
Reject(m, a) ==
             /\ engine = Idle
             /\ ~Validated(m, a)
             /\ Report(m, a, "REJECTED", "NOT_ATTEMPTED",
                       IF Permitted(m, a) /\ AlreadyActive(a, sources[m.sample])
                       THEN "HEALTHY" ELSE "UNHEALTHY")
             /\ UNCHANGED <<evidence, sources, faulty, crashes>>

(* The action is selected, found safe, and executed. *)
Begin(m, a) ==
            /\ engine = Idle
            /\ Validated(m, a)
            /\ Execute(a, m.sample)
            /\ engine' = [at |-> "executed", message |-> m, action |-> a,
                          before |-> sources[m.sample], retries |-> 0]
            /\ UNCHANGED <<evidence, inbox, sent, faulty, results, crashes>>

Verified == InEffect(engine.action, sources[engine.message.sample])

(* The verification succeeds, at once or after a retry. *)
Confirm == /\ Busy
           /\ Verified
           /\ Report(engine.message, engine.action, "EXECUTED",
                     IF engine.retries = 0 THEN "NOT_ATTEMPTED" ELSE "SUCCESS", "HEALTHY")
           /\ UNCHANGED <<evidence, sources, faulty, crashes>>

(* Mutant: a retry is not counted. *)
RetryForever == /\ Busy
                /\ ~Verified
                /\ Execute(engine.action, engine.message.sample)
                /\ UNCHANGED <<evidence, inbox, sent, faulty, engine, results, crashes>>

(* Mutant: a retry takes a new snapshot, of what the failure left behind. *)
RetryFromPartial ==
    /\ Busy
    /\ ~Verified
    /\ engine.retries < MaxRetries
    /\ Execute(engine.action, engine.message.sample)
    /\ engine' = [engine EXCEPT !.retries = @ + 1, !.before = sources[engine.message.sample]]
    /\ UNCHANGED <<evidence, inbox, sent, faulty, results, crashes>>

(* It fails: attempt_recovery executes the action again. *)
Retry == /\ Busy
         /\ ~Verified
         /\ engine.retries < MaxRetries
         /\ Execute(engine.action, engine.message.sample)
         /\ engine' = [engine EXCEPT !.retries = @ + 1]
         /\ UNCHANGED <<evidence, inbox, sent, faulty, results, crashes>>

(* Mutant: a rollback resets the source instead of restoring the snapshot. *)
RollbackToFresh ==
    /\ Busy
    /\ ~Verified
    /\ engine.retries = MaxRetries
    /\ sources' = [sources EXCEPT ![engine.message.sample] = Fresh]
    /\ Report(engine.message, engine.action, "FAILED", "FAILED", "UNHEALTHY")
    /\ UNCHANGED <<evidence, faulty, crashes>>

(* Every retry failed: the state before the action is restored. *)
Rollback == /\ Busy
            /\ ~Verified
            /\ engine.retries = MaxRetries
            /\ sources' = [sources EXCEPT ![engine.message.sample] = engine.before]
            /\ Report(engine.message, engine.action, "FAILED", "FAILED", "UNHEALTHY")
            /\ UNCHANGED <<evidence, faulty, crashes>>

(* The process dies, and with it the state of every source. *)
Crash == /\ engine # Down
         /\ crashes < MaxCrashes
         /\ crashes' = crashes + 1
         /\ engine' = Down
         /\ sources' = [s \in Samples |-> Fresh]
         /\ faulty' = {}
         /\ UNCHANGED <<evidence, inbox, sent, results>>

Restart == /\ engine = Down
           /\ engine' = Idle
           /\ UNCHANGED <<evidence, inbox, sent, sources, faulty, results, crashes>>

Step == \/ \E m \in inbox : \E a \in {Action(m)} : Reject(m, a) \/ Begin(m, a)
        \/ Confirm \/ Retry \/ Rollback \/ Restart

Next == \/ Step
        \/ \E s \in Samples : \/ Arrive(s) \/ Redeliver(s)
                             \/ InjectFailure(s) \/ ClearFailure(s)
        \/ Crash

Safety == Init /\ [][Next]_vars
Spec == Safety /\ WF_vars(Step)

-----------------------------------------------------------------------------
(* Properties *)

(* A handler takes the whole effect of its action on the source, however   *)
(* many retries it needed, or none of it: to everyone else the engine      *)
(* implements AllOrNothing ("rollback has real partial state to restore    *)
(* from"; "the COMPLETE pre-action state").                                *)
Settled(s) == IF Busy /\ engine.message.sample = s THEN engine.before ELSE sources[s]

Promise == INSTANCE AllOrNothing WITH Sources <- Samples,
                                      state <- [s \in Samples |-> Settled(s)]
ImplementsAllOrNothing == Promise!Spec

(* What the process reported as healthy stays in effect as long as the     *)
(* process lives: neither a later, different action on the same source nor *)
(* that action's rollback takes it away, and a rejection for "already      *)
(* active" is only given where the whole action is in effect.              *)
HealthyStaysProtected ==
    \A r \in results : r.life = crashes /\ r.health = "HEALTHY"
                        => InEffect(r.action, sources[r.message.sample])

(* No message drives a stage into a constructor that raises, or past a     *)
(* clamp: what classifiers, verifier and router may report always makes a  *)
(* decision, an assessment and an action ("misconfigured policy fails      *)
(* loudly"), and the probability the risk engine reconstructs is the one   *)
(* the verifier computed.                                                  *)
ContractsHold ==
    \A m \in inbox : Admitted(evidence[m.sample], m.routing)

(* Losing the quantum verification never makes matters worse for a source: *)
(* nothing is blocked unless a verifier answered, and answered "attack".   *)
BlockNeedsQuantum ==
    \A r \in results : r.action = "BLOCK" => /\ Answered(r.message.routing)
                                             /\ LabelOf(r.message.routing.attack) = "attack"

(* A sample finally judged normal is never isolated or blocked, whatever   *)
(* the anomaly score, the disagreement and the conflict add up to.         *)
NormalIsNeverCutOff ==
    \A r \in results : r.action \in CutsOff =>
        Prediction(evidence[r.message.sample], r.message.routing) = "attack"

(* A quantum answer that confirms an attack never ranks below the fallback *)
(* that would have been used without it.                                   *)
ConfirmationOutranksFallback ==
    \A r \in results :
        LET e == evidence[r.message.sample]
            routing == r.message.routing
        IN  Answered(routing) /\ Agrees(e, routing) /\ Classical(e) = "attack"
            => Rank[RiskLevel(e, routing)] >= Rank[RiskLevel(e, Fallback)]

(* Evidence that points to an attack more, with the same kind of outcome,  *)
(* never gets the lower risk level or the milder action, although a        *)
(* settled conflict lowers the score.                                      *)
PointsAtMost(e, routing, f, other) ==
    /\ e.rf <= f.rf /\ e.xgb <= f.xgb /\ e.anomaly <= f.anomaly
    /\ routing.status = other.status /\ routing.attack <= other.attack

Severity == [MONITOR |-> 1, INCREASE_MONITORING |-> 2, RATE_LIMIT |-> 3,
             ISOLATE |-> 4, BLOCK |-> 5]

MoreEvidenceIsNotMilder ==
    \A r1, r2 \in results :
        LET e == evidence[r1.message.sample]
            f == evidence[r2.message.sample]
        IN  PointsAtMost(e, r1.message.routing, f, r2.message.routing)
            => /\ Rank[RiskLevel(e, r1.message.routing)]
                     <= Rank[RiskLevel(f, r2.message.routing)]
               /\ Severity[r1.action] <= Severity[r2.action]

(* What is done to a source follows from the evidence: the four rules      *)
(* above, for every answer and every way to do without one.                *)
ActionsFollowEvidence ==
    /\ BlockNeedsQuantum
    /\ NormalIsNeverCutOff
    /\ ConfirmationOutranksFallback
    /\ MoreEvidenceIsNotMilder

(* Every sample that arrives is answered, through crashes, failed          *)
(* publications and failing executions.                                    *)
EverySampleAnswered ==
    \A s \in Samples : Seen(s) ~> \E r \in results : r.message.sample = s

(* defense_worker.py: "Defense side-effect exactly-once is enforced by TWO *)
(* independent layers": one process executes one action per sample.        *)
DefendedOnce ==
    \A r1, r2 \in results :
        /\ r1.message.sample = r2.message.sample /\ r1.life = r2.life
        /\ r1.status = "EXECUTED" /\ r2.status = "EXECUTED"
        => r1.action = r2.action
=============================================================================
