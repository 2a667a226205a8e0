-------------------------- MODULE IncidentProcess --------------------------
(***************************************************************************)
(* IncidentManager.process (src/incident/incident_manager.py) and the      *)
(* experiments that call it (src/api/services/experiment_service.py), as   *)
(* the web server runs them: some gunicorn processes with some threads     *)
(* each (Procfile).  The threads of a process share one manager; the       *)
(* processes share nothing but the event store, which is a JSONL file or   *)
(* a Redis stream.                                                         *)
(*                                                                         *)
(* A sample's evidence is abstracted to what the defense did for it.  The  *)
(* lifecycle of events is abstracted to the first one, a rollback and the  *)
(* terminal one: IncidentLifecycle has the others.                         *)
(***************************************************************************)
EXTENDS Integers, FiniteSets, Sequences

CONSTANTS Procs,        (* the web server's processes                        *)
          Threads,      (* their request threads                             *)
          ProcOf,       (* the process of each thread                        *)
          Experimenters,(* bound: the threads that are asked for experiments *)
          MaxSamples,   (* bound: sample ids given out                       *)
          MaxSessions,  (* the largest n_sessions asked for                  *)
          MaxRepeats,   (* bound: calls that name a sample themselves        *)
          MaxFaults     (* bound: process deaths and failed appends          *)

ASSUME ProcessAssumption == /\ ProcOf \in [Threads -> Procs]
                            /\ Experimenters \subseteq Threads
                            /\ MaxSamples \in Nat \ {0}
                            /\ MaxSessions \in Nat \ {0}
                            /\ MaxRepeats \in Nat
                            /\ MaxFaults \in Nat

VARIABLES backend,      (* EVENT_STORE_BACKEND                               *)
          file,         (* the store: the events in the order appended       *)
          loaded,       (* per process, JsonlEventStore._events              *)
          snapshots,    (* per process, the event_ids of each _snapshots entry *)
          index,        (* per process, _sample_id_index                     *)
          inFlight,     (* per process, _in_flight                           *)
          rollbacks,    (* per process, DefenseEngine.metrics.rollbacks      *)
          call,         (* per thread, where it stands in process()          *)
          experiment,   (* per thread, the experiment it runs                *)
          born,         (* history: the sample and process of each incident  *)
          rolledBack,   (* history: the incidents whose action was undone    *)
          unheard,      (* history: incidents with an append stored unheard  *)
          answered,     (* history: the incidents returned to a caller       *)
          named,        (* how many sample ids have been given out           *)
          repeats, faults

manager == <<loaded, snapshots, index, inFlight>>
history == <<born, rolledBack, unheard, answered>>
bounds == <<named, repeats, faults>>
vars == <<backend, file, manager, rollbacks, call, experiment, history, bounds>>

Kinds == {"detected", "rollback", "settled", "skip"}
None == 0
Samples == 1..MaxSamples
Incidents == 1..Len(born)
Idle == [pc |-> "idle"]
NoExperiment == [status |-> "none"]

Numbers == Nat \ {0}
Call == [pc : {"chain", "leave"}, sample : Samples, incident : Numbers]
        \cup [pc : {"defend"}, sample : Samples, incident : Numbers, before : Nat]
        \cup [pc : {"measure"}, sample : Samples, incident : Numbers, before : Nat,
              recovered : BOOLEAN]
        \cup [pc : {"emit"}, sample : Samples, incident : Numbers, todo : Seq(Kinds)]
Experiment == [status : {"running", "completed", "failed"}, plan : Seq(Samples),
               incidents : SUBSET Numbers]

TypeOK == /\ backend \in {"jsonl", "redis"}
          /\ file \in Seq([incident : Incidents, kind : Kinds])
          /\ loaded \in [Procs -> SUBSET DOMAIN file]
          /\ snapshots \in [Procs -> [Incidents -> SUBSET DOMAIN file]]
          /\ index \in [Procs -> [Samples -> {None} \cup Incidents]]
          /\ inFlight \in [Procs -> SUBSET Samples]
          /\ rollbacks \in [Procs -> Nat]
          /\ call \in [Threads -> Call \cup {Idle}]
          /\ experiment \in [Threads -> Experiment \cup {NoExperiment}]
          /\ born \in Seq([sample : Samples, process : Procs])
          /\ rolledBack \in SUBSET Incidents
          /\ unheard \in SUBSET Incidents
          /\ answered \in SUBSET Incidents
          /\ named \in 0..MaxSamples
          /\ repeats \in 0..MaxRepeats
          /\ faults \in 0..MaxFaults

Init == /\ backend \in {"jsonl", "redis"}
        /\ file = << >>
        /\ loaded = [p \in Procs |-> {}]
        /\ snapshots = [p \in Procs |-> << >>]
        /\ index = [p \in Procs |-> [s \in Samples |-> None]]
        /\ inFlight = [p \in Procs |-> {}]
        /\ rollbacks = [p \in Procs |-> 0]
        /\ call = [t \in Threads |-> Idle]
        /\ experiment = [t \in Threads |-> NoExperiment]
        /\ born = << >>
        /\ rolledBack = {}
        /\ unheard = {}
        /\ answered = {}
        /\ named = 0
        /\ repeats = 0
        /\ faults = 0

-----------------------------------------------------------------------------
(* The stores. *)
Event(i, k) == [incident |-> i, kind |-> k]

(* read_all: a JSONL store answers from the memory of its process, *)
(* a Redis store from the stream.                                   *)
Reads(p) == IF backend = "redis" THEN DOMAIN file ELSE loaded[p]

EventsOf(i, positions) == {n \in positions : file[n].incident = i}

(* What the incident routes answer: the timeline is read from the store,   *)
(* the list holds the incidents of the store that the manager knows.       *)
Timeline(p, i) == EventsOf(i, Reads(p))
Listed(p) == {i \in Incidents : Timeline(p, i) # {} /\ snapshots[p][i] # {}}

(* The event is written, and a JSONL store also keeps it in memory. *)
Appended(p, e) ==
    /\ file' = Append(file, e)
    /\ loaded' = IF backend = "redis" THEN loaded
                 ELSE [loaded EXCEPT ![p] = @ \cup {Len(file) + 1}]
    /\ UNCHANGED <<unheard, faults>>

(* Mutant: the event is kept in memory before it is written. *)
AppendRemembers(p, e) ==
    /\ faults < MaxFaults
    /\ faults' = faults + 1
    /\ loaded' = [loaded EXCEPT ![p] = @ \cup {Len(file) + 1}]
    /\ UNCHANGED <<file, unheard>>

(* The call raises: the file cannot be written, or Redis does not answer, *)
(* with the event added to the stream or not.                             *)
AppendRaises(p, e) ==
    /\ faults < MaxFaults
    /\ faults' = faults + 1
    /\ \/ UNCHANGED <<file, unheard>>
       \/ /\ backend = "redis"
          /\ file' = Append(file, e)
          /\ unheard' = unheard \cup {e.incident}
    /\ UNCHANGED loaded

(* A snapshot is terminal if the events it was folded from are. *)
IsTerminal(snapshot) == \E n \in snapshot : file[n].kind = "settled"

-----------------------------------------------------------------------------
(* The end of a call: process() returns the incident, or raises (None), to *)
(* a caller that is done or to run_experiment.                             *)
Running(t) == experiment[t].status = "running"

(* The first exception ends the experiment as failed, the last session as *)
(* completed.                                                              *)
Accounted(t, i) ==
    IF i = None THEN [experiment[t] EXCEPT !.status = "failed"]
    ELSE [experiment[t] EXCEPT !.incidents = @ \cup {i},
                               !.plan = Tail(@),
                               !.status = IF Tail(experiment[t].plan) = << >>
                                          THEN "completed" ELSE "running"]

Returns(t, i) ==
    /\ call' = [call EXCEPT ![t] = Idle]
    /\ experiment' = IF Running(t) THEN [experiment EXCEPT ![t] = Accounted(t, i)]
                     ELSE experiment

-----------------------------------------------------------------------------
(* Entering process(), under the processing lock. *)
Ready(t) == call[t] = Idle

(* The sample's terminal incident, by _sample_id_index. *)
Existing(p, s) == index[p][s]
Known(p, s) == Existing(p, s) # None /\ IsTerminal(snapshots[p][Existing(p, s)])

(* Mutant: the index is consulted, the calls in flight are not. *)
NeverBusy(p, s) == FALSE

Busy(p, s) == s \in inFlight[p]

(* append_idempotent_skip: an event, and the snapshot folded anew. *)
Skip(t, s) ==
    LET p == ProcOf[t]
        i == Existing(p, s)
    IN  \/ /\ Appended(p, Event(i, "skip"))
           /\ snapshots' = [snapshots EXCEPT ![p][i] =
                                EventsOf(i, Reads(p)) \cup {Len(file) + 1}]
           /\ Returns(t, i)
        \/ /\ AppendRaises(p, Event(i, "skip"))
           /\ Returns(t, None)
           /\ UNCHANGED snapshots

Enter(t, s) ==
    LET p == ProcOf[t]
    IN  \/ /\ Known(p, s)
           /\ Skip(t, s)
           /\ UNCHANGED <<inFlight, born>>
        \/ /\ ~Known(p, s)
           /\ Busy(p, s)        (* ConcurrentProcessingError *)
           /\ Returns(t, None)
           /\ UNCHANGED <<file, loaded, snapshots, inFlight, born, unheard, faults>>
        \/ /\ ~Known(p, s)
           /\ ~Busy(p, s)
           /\ inFlight' = [inFlight EXCEPT ![p] = @ \cup {s}]
           /\ born' = Append(born, [sample |-> s, process |-> p])
           /\ snapshots' = [q \in Procs |-> Append(snapshots[q], {})]
           /\ call' = [call EXCEPT ![t] = [pc |-> "chain", sample |-> s,
                                           incident |-> Len(born) + 1]]
           /\ UNCHANGED <<file, loaded, experiment, unheard, faults>>

-----------------------------------------------------------------------------
(* _run_full_chain and record_full_lifecycle, outside the lock. *)

(* What is left of a call whose result is known or that raised. *)
Ending(t) == [pc |-> "leave", sample |-> call[t].sample, incident |-> call[t].incident]

(* Detection, routing, hybrid decision and risk; any of them may raise. *)
(* Then the rollbacks of the engine are counted.                        *)
Chain(t) ==
    LET c == call[t]
    IN  /\ c.pc = "chain"
        /\ call' = [call EXCEPT ![t] =
               [pc |-> "defend", sample |-> c.sample, incident |-> c.incident,
                before |-> rollbacks[ProcOf[t]]]]
        /\ UNCHANGED <<backend, file, manager, rollbacks, experiment, history, bounds>>

ChainRaises(t) ==
    /\ call[t].pc = "chain"
    /\ call' = [call EXCEPT ![t] = Ending(t)]
    /\ UNCHANGED <<backend, file, manager, rollbacks, experiment, history, bounds>>

(* defense_engine.process: done at once, by a retry, or undone. *)
Defend(t) ==
    LET c == call[t]
    IN  /\ c.pc = "defend"
        /\ \E outcome \in {"verified", "recovered", "rolled back"} :
              /\ call' = [call EXCEPT ![t] =
                     [pc |-> "measure", sample |-> c.sample, incident |-> c.incident,
                      before |-> c.before, recovered |-> outcome # "verified"]]
              /\ IF outcome = "rolled back"
                 THEN /\ rollbacks' = [rollbacks EXCEPT ![ProcOf[t]] = @ + 1]
                      /\ rolledBack' = rolledBack \cup {c.incident}
                 ELSE UNCHANGED <<rollbacks, rolledBack>>
        /\ UNCHANGED <<backend, file, manager, experiment, born, unheard, answered, bounds>>

(* Mutant: off by one. *)
MoreThanOne(t) == rollbacks[ProcOf[t]] > call[t].before + 1

(* rollback_occurred: the engine has counted one in the meantime. *)
RollbackOccurred(t) == rollbacks[ProcOf[t]] > call[t].before

(* The history that the evidence calls for. *)
History(t) ==
    IF call[t].recovered /\ RollbackOccurred(t)
    THEN <<"detected", "rollback", "settled">>
    ELSE <<"detected", "settled">>

Pending(t) == IF call[t].pc = "measure" THEN History(t) ELSE call[t].todo

Recording(t) == /\ call[t].pc \in {"measure", "emit"}
                /\ Pending(t) # << >>

(* What is left to append, once rollback_occurred is known. *)
Remaining(t) == [pc |-> "emit", sample |-> call[t].sample, incident |-> call[t].incident,
                 todo |-> Tail(Pending(t))]

(* _emit appends the next event, or raises out of the lifecycle. *)
Emit(t) ==
    /\ Recording(t)
    /\ LET e == Event(call[t].incident, Head(Pending(t)))
       IN  \/ /\ Appended(ProcOf[t], e)
              /\ call' = [call EXCEPT ![t] = Remaining(t)]
           \/ /\ AppendRaises(ProcOf[t], e)
              /\ call' = [call EXCEPT ![t] = Ending(t)]
    /\ UNCHANGED <<backend, snapshots, index, inFlight, rollbacks, experiment,
                   born, rolledBack, answered, named, repeats>>

(* The snapshot is folded from the store and becomes the sample's incident. *)
Finish(t) ==
    LET c == call[t]
        p == ProcOf[t]
    IN  /\ c.pc = "emit"
        /\ c.todo = << >>
        /\ snapshots' = [snapshots EXCEPT ![p][c.incident] = EventsOf(c.incident, Reads(p))]
        /\ index' = IF IsTerminal(snapshots'[p][c.incident])
                    THEN [index EXCEPT ![p][c.sample] = c.incident] ELSE index
        /\ answered' = answered \cup {c.incident}
        /\ call' = [call EXCEPT ![t] = Ending(t)]
        /\ UNCHANGED <<backend, file, loaded, inFlight, rollbacks, experiment,
                       born, rolledBack, unheard, bounds>>

(* Mutant: the mark is taken back where the result is returned, not in a *)
(* finally block.                                                        *)
LeaveOnSuccess(t) ==
    LET c == call[t]
        done == c.incident \in answered
    IN  /\ c.pc = "leave"
        /\ inFlight' = [inFlight EXCEPT ![ProcOf[t]] = IF done THEN @ \ {c.sample} ELSE @]
        /\ Returns(t, IF done THEN c.incident ELSE None)
        /\ UNCHANGED <<backend, file, loaded, snapshots, index, rollbacks, history, bounds>>

(* The finally block: the sample is no longer in flight. *)
Leave(t) ==
    LET c == call[t]
    IN  /\ c.pc = "leave"
        /\ inFlight' = [inFlight EXCEPT ![ProcOf[t]] = @ \ {c.sample}]
        /\ Returns(t, IF c.incident \in answered THEN c.incident ELSE None)
        /\ UNCHANGED <<backend, file, loaded, snapshots, index, rollbacks, history, bounds>>

-----------------------------------------------------------------------------
(* Callers. *)
(* A caller hands in a sample again, as the tests of the manager do. *)
Submit(t, s) ==
    /\ Ready(t) /\ t \notin Experimenters
    /\ s <= named
    /\ repeats < MaxRepeats
    /\ repeats' = repeats + 1
    /\ Enter(t, s)
    /\ UNCHANGED <<backend, index, rollbacks, rolledBack, answered, named>>

(* create_experiment: sample ids no one has used, one per session. *)
Start(t) ==
    /\ Ready(t) /\ ~Running(t)
    /\ t \in Experimenters
    /\ \E n \in 1..MaxSessions :
          /\ named + n <= MaxSamples
          /\ named' = named + n
          /\ experiment' = [experiment EXCEPT ![t] =
                 [status |-> "running", plan |-> [k \in 1..n |-> named + k], incidents |-> {}]]
    /\ UNCHANGED <<backend, file, manager, rollbacks, call, history, repeats, faults>>

Session(t) ==
    /\ Ready(t) /\ Running(t)
    /\ Enter(t, Head(experiment[t].plan))
    /\ UNCHANGED <<backend, index, rollbacks, rolledBack, answered, named, repeats>>

-----------------------------------------------------------------------------
(* A process dies and another takes its place; only the store survives. *)

(* The incidents of the store in the order of their first events. *)
Earlier(i, j) == \E n \in EventsOf(i, DOMAIN file) :
                    \A m \in EventsOf(j, DOMAIN file) : n < m

(* Mutant: the restarted manager does not fill _sample_id_index. *)
ForgetSamples == [s \in Samples |-> None]

(* _rebuild_snapshots_from_store: the last terminal incident of each sample. *)
RebuiltIndex ==
    LET ended(s) == {i \in Incidents : born[i].sample = s /\ IsTerminal(EventsOf(i, DOMAIN file))}
    IN  [s \in Samples |->
            IF ended(s) = {} THEN None
            ELSE CHOOSE i \in ended(s) : \A j \in ended(s) \ {i} : Earlier(j, i)]

Restart(p) ==
    /\ faults < MaxFaults
    /\ faults' = faults + 1
    /\ loaded' = IF backend = "redis" THEN loaded ELSE [loaded EXCEPT ![p] = DOMAIN file]
    /\ snapshots' = [snapshots EXCEPT ![p] = [i \in Incidents |-> EventsOf(i, DOMAIN file)]]
    /\ index' = [index EXCEPT ![p] = RebuiltIndex]
    /\ inFlight' = [inFlight EXCEPT ![p] = {}]
    /\ rollbacks' = [rollbacks EXCEPT ![p] = 0]
    /\ call' = [t \in Threads |-> IF ProcOf[t] = p THEN Idle ELSE call[t]]
    /\ experiment' = [t \in Threads |-> IF ProcOf[t] = p THEN NoExperiment ELSE experiment[t]]
    /\ UNCHANGED <<backend, file, history, named, repeats>>

-----------------------------------------------------------------------------
Step(t) == \/ Chain(t) \/ ChainRaises(t) \/ Defend(t)
           \/ Emit(t) \/ Finish(t) \/ Leave(t) \/ Session(t)

Next == \/ \E t \in Threads : Step(t) \/ Start(t) \/ \E s \in Samples : Submit(t, s)
        \/ \E p \in Procs : Restart(p)

Spec == Init /\ [][Next]_vars

-----------------------------------------------------------------------------
Settled(i) == IsTerminal(EventsOf(i, DOMAIN file))

(* process() is "idempotent on sample_id" (incident_manager.py:224): however *)
(* its threads race and however often it is restarted, one process settles   *)
(* one sample once.  Two processes may, and so may one that was not told     *)
(* that Redis had stored an event.                                           *)
SettledOnce ==
    \A i, j \in Incidents :
        (/\ i # j /\ born[i] = born[j]
         /\ Settled(i) /\ Settled(j)) => unheard \cap {i, j} # {}

(* An incident a caller was given is settled in the store, and the process *)
(* that gave it still has it, under its sample, lists it and shows how it  *)
(* ended, after any restart.                                               *)
AnswersSurvive ==
    \A i \in answered :
        /\ Settled(i)
        /\ IsTerminal(snapshots[born[i].process][i])
        /\ index[born[i].process][born[i].sample] # None
        /\ i \in Listed(born[i].process) /\ IsTerminal(Timeline(born[i].process, i))

(* A history that says how an incident ended also says that its action was *)
(* undone, whatever the other threads of the process roll back meanwhile   *)
(* and whichever process restarts.                                         *)
RollbackIsRecorded ==
    \A i \in rolledBack :
        Settled(i) => \E n \in EventsOf(i, DOMAIN file) : file[n].kind = "rollback"

(* The sample ids marked in flight are those of the calls past the lock,  *)
(* one call each: two threads never work on one sample, and no exception   *)
(* leaves a mark behind that would refuse the sample for ever.             *)
HeldByItsCall ==
    \A p \in Procs, s \in Samples :
        LET calls == {t \in Threads : /\ ProcOf[t] = p
                                     /\ call[t] # Idle
                                     /\ call[t].sample = s}
        IN  Cardinality(calls) = IF s \in inFlight[p] THEN 1 ELSE 0
=============================================================================
