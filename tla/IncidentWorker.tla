--------------------------- MODULE IncidentWorker ---------------------------
(***************************************************************************)
(* The incident worker (src/runtime/services/incident_worker.py) with its  *)
(* IncidentManager and JSONL event store: the stage that turns a delivered *)
(* result into an incident's history.  The store file survives a crash,    *)
(* the manager's snapshots and its repeated-incident tracker are rebuilt   *)
(* from it.  The deployment runs one such process.                         *)
(*                                                                         *)
(* The stream in front of it is the promise of AtLeastOnce: a result is    *)
(* delivered, delivered again after a crash or an exception, and sometimes *)
(* delivered twice.  Appending one event is atomic, except that a failed   *)
(* or interrupted append may leave part of a line in the file.             *)
(***************************************************************************)
EXTENDS IncidentLifecycle

CONSTANTS Messages,     (* the evidence that may arrive, a subset of Evidence *)
          MaxCopies,    (* bound: deliveries of one incident_id upstream makes *)
          MaxFaults     (* bound: crashes and failed appends in a run          *)

ASSUME WorkerAssumption == /\ IsFiniteSet(Incidents)
                           /\ Messages \subseteq Evidence
                           /\ MaxCopies \in Nat \ {0}
                           /\ MaxFaults \in Nat

VARIABLES message,      (* per incident, the evidence it arrived with         *)
          sent,         (* per incident, copies upstream has delivered        *)
          inbox,        (* per incident, copies not acknowledged yet          *)
          store,        (* the events appended, in order                      *)
          torn,         (* the JSONL file holds a line that does not parse    *)
          snapshots,    (* IncidentManager._snapshots                         *)
          tracker,      (* RepeatedIncidentTracker._counts                    *)
          worker,       (* where the process stands in handle()               *)
          updates,      (* the incident.updated messages published            *)
          faults

manager == <<snapshots, tracker>>
vars == <<message, sent, inbox, store, torn, manager, worker, updates, faults>>

NotArrived == [key |-> "NONE"]
Arrived(i) == message[i] # NotArrived
Idle == [at |-> "idle"]
Down == [at |-> "down"]

Snapshot == [state : States \cup {"NONE"}, events : Nat, escalations : Nat]
Update == [incident : Incidents, state : States, skipped : BOOLEAN]

(* No correlation key can be counted past one count per incident that      *)
(* arrived plus one per fault.                                             *)
CountBound == Cardinality(Incidents) + MaxFaults

TypeOK == /\ message \in [Incidents -> Messages \cup {NotArrived}]
          /\ sent \in [Incidents -> 0..MaxCopies]
          /\ inbox \in [Incidents -> 0..MaxCopies]
          /\ \A i \in Incidents : inbox[i] <= sent[i]
          /\ store \in Seq(Event)
          /\ torn \in BOOLEAN
          /\ snapshots \in [Incidents -> Snapshot]
          /\ tracker \in [Keys -> 0..CountBound]
          /\ \/ worker \in {Idle, Down}
             \/ worker \in [at : {"recording"}, incident : Incidents, state : States,
                            todo : Seq([type : EventTypes, to : States])]
          /\ updates \subseteq Update
          /\ faults \in 0..MaxFaults

Init == /\ message = [i \in Incidents |-> NotArrived]
        /\ sent = [i \in Incidents |-> 0]
        /\ inbox = [i \in Incidents |-> 0]
        /\ store = << >>
        /\ torn = FALSE
        /\ snapshots = [i \in Incidents |-> NoSnapshot]
        /\ tracker = [k \in Keys |-> 0]
        /\ worker = Idle
        /\ updates = {}
        /\ faults = 0

-----------------------------------------------------------------------------
(* The stream delivers a new result, or one it has delivered before. *)
Arrive(i) == /\ ~Arrived(i)
             /\ \E e \in Messages : message' = [message EXCEPT ![i] = e]
             /\ sent' = [sent EXCEPT ![i] = 1]
             /\ inbox' = [inbox EXCEPT ![i] = 1]
             /\ UNCHANGED <<store, manager, worker, updates, faults, torn>>

Redeliver(i) == /\ Arrived(i)
                /\ sent[i] < MaxCopies
                /\ sent' = [sent EXCEPT ![i] = @ + 1]
                /\ inbox' = [inbox EXCEPT ![i] = @ + 1]
                /\ UNCHANGED <<message, store, manager, worker, updates, faults, torn>>

(* Mutant: the incident-level check finds incidents by correlation key. *)
ExistingByCorrelation(i) ==
    LET ended == {j \in Incidents : /\ Arrived(j) /\ message[j].key = message[i].key
                                    /\ snapshots[j].state \in Terminal}
    IN  IF ended = {} THEN i ELSE CHOOSE j \in ended : TRUE

(* get_incident: the incident whose snapshot handle() looks at. *)
Existing(i) == i

(* Mutant: any known incident is skipped, terminal or not. *)
SkipsKnown(i) == snapshots[Existing(i)] # NoSnapshot

(* existing is not None and existing.is_terminal *)
Skips(i) == snapshots[Existing(i)].state \in Terminal

(* record_incident *)
Counted(key) == [tracker EXCEPT ![key] = @ + 1]

(* handle() starts record_full_lifecycle: the incident is counted first. *)
Begin(i) == /\ worker = Idle
            /\ inbox[i] > 0
            /\ ~Skips(i)
            /\ LET key == message[i].key
               IN  /\ tracker' = Counted(key)
                   /\ worker' = [at |-> "recording", incident |-> i, state |-> "DETECTED",
                                 todo |-> Lifecycle(message[i], tracker'[key])]
            /\ UNCHANGED <<message, sent, inbox, store, snapshots, updates, faults, torn>>

Recording == worker.at = "recording"

(* _emit: validate the transition and append the event. *)
Emit == /\ Recording
        /\ worker.todo # << >>
        /\ LET next == Head(worker.todo)
           IN  /\ next.to # worker.state => Permits(worker.state, next.to)
               /\ store' = Append(store, Recorded(worker.incident, next.type, next.to))
               /\ worker' = [worker EXCEPT !.state = next.to, !.todo = Tail(@)]
        /\ UNCHANGED <<message, sent, inbox, manager, updates, faults, torn>>

(* The history is complete: the snapshot is rebuilt, the update published *)
(* and the message acknowledged.                                          *)
Finish == /\ Recording
          /\ worker.todo = << >>
          /\ LET i == worker.incident
                 snapshot == Reconstruct(i, store)
             IN  /\ SnapshotAdmits(snapshot)
                 /\ snapshots' = [snapshots EXCEPT ![i] = snapshot]
                 /\ updates' = updates \cup
                        {[incident |-> i, state |-> snapshot.state, skipped |-> FALSE]}
                 /\ inbox' = [inbox EXCEPT ![i] = @ - 1]
          /\ worker' = Idle
          /\ UNCHANGED <<message, sent, store, tracker, faults, torn>>

(* Mutant: append_idempotent_skip does not rebuild the snapshot. *)
SkipStale(i) ==
    LET existing == Existing(i)
        state == snapshots[existing].state
    IN  /\ worker = Idle
        /\ inbox[i] > 0
        /\ Skips(i)
        /\ store' = Append(store, Recorded(existing, "IDEMPOTENT_SKIP", state))
        /\ updates' = updates \cup {[incident |-> i, state |-> state, skipped |-> TRUE]}
        /\ inbox' = [inbox EXCEPT ![i] = @ - 1]
        /\ UNCHANGED <<message, sent, manager, worker, faults, torn>>

(* handle() finds the incident terminal: append_idempotent_skip, and an *)
(* update that repeats the state it ended in.                           *)
Skip(i) ==
    LET existing == Existing(i)
        state == snapshots[existing].state
    IN  /\ worker = Idle
        /\ inbox[i] > 0
        /\ Skips(i)
        /\ store' = Append(store, Recorded(existing, "IDEMPOTENT_SKIP", state))
        /\ snapshots' = [snapshots EXCEPT ![existing] = Reconstruct(existing, store')]
        /\ updates' = updates \cup {[incident |-> i, state |-> state, skipped |-> TRUE]}
        /\ inbox' = [inbox EXCEPT ![i] = @ - 1]
        /\ UNCHANGED <<message, sent, tracker, worker, faults, torn>>

-----------------------------------------------------------------------------
(* The file after an append that did not complete: as it was, or with a    *)
(* line that json.loads will refuse.                                       *)
MayTear == torn' \in {torn, TRUE}

(* An append raises (the disk is full): handle() ends half-way, the stream *)
(* will deliver the message again, and the process keeps its memory.       *)
Fail == /\ \/ Recording /\ worker.todo # << >>
           \/ worker = Idle /\ \E i \in Incidents : inbox[i] > 0 /\ Skips(i)
        /\ faults < MaxFaults
        /\ faults' = faults + 1
        /\ worker' = Idle
        /\ MayTear
        /\ UNCHANGED <<message, sent, inbox, store, manager, updates>>

(* The process dies: what it held in memory is gone. *)
Crash == /\ worker # Down
         /\ faults < MaxFaults
         /\ faults' = faults + 1
         /\ worker' = Down
         /\ snapshots' = [i \in Incidents |-> NoSnapshot]
         /\ tracker' = [k \in Keys |-> 0]
         /\ IF Recording THEN MayTear ELSE UNCHANGED torn
         /\ UNCHANGED <<message, sent, inbox, store, updates>>

(* Mutant: the tracker counts stored events instead of incidents. *)
CountEvents(k) == Cardinality({n \in DOMAIN store : message[store[n].incident].key = k})

(* Mutant: the tracker starts from zero. *)
CountNothing(k) == 0

(* build_tracker_from_events: distinct incidents with a DETECTION_CREATED. *)
CountDetected(k) == Cardinality({i \in Detected(store) : message[i].key = k})

(* _load_from_disk: a line that does not parse raises out of the store's   *)
(* constructor, and build_worker with it.                                  *)
Loads == ~torn

(* Mutant: the manager starts with empty snapshots, the store is only a log. *)
RestartWithoutReplay ==
    /\ worker = Down
    /\ Loads
    /\ tracker' = [k \in Keys |-> CountDetected(k)]
    /\ worker' = Idle
    /\ UNCHANGED <<message, sent, inbox, store, snapshots, updates, faults, torn>>

(* IncidentManager.__init__ on the reloaded file. *)
Restart == /\ worker = Down
           /\ Loads
           /\ snapshots' = [i \in Incidents |-> Reconstruct(i, store)]
           /\ tracker' = [k \in Keys |-> CountDetected(k)]
           /\ worker' = Idle
           /\ UNCHANGED <<message, sent, inbox, store, updates, faults, torn>>

Step == Emit \/ Finish \/ Restart \/ \E i \in Incidents : Begin(i) \/ Skip(i)

Next == \/ Step
        \/ \E i \in Incidents : Arrive(i) \/ Redeliver(i)
        \/ Fail \/ Crash

Safety == Init /\ [][Next]_vars
Spec == Safety /\ WF_vars(Step)

-----------------------------------------------------------------------------
(* Properties *)

(* Whatever crashes, failed appends and redeliveries do, the state the     *)
(* file replays to moves along the approved transition table, except that  *)
(* an interrupted incident starts over at DETECTED; a terminal state is    *)
(* never left ("must never re-run ... a second time").                     *)
ReplayedStateMovesLegally ==
    [][\A i \in Incidents :
          LET was == StateOf(i, store)  is == StateOf(i, store)'
          IN  was # is => \/ was = "NONE" /\ is = "DETECTED"
                          \/ was \notin Terminal /\ is = "DETECTED"
                          \/ was \in States /\ is \in ValidTransitions[was]]_vars

(* "a brand-new process ... [gets] back the exact same snapshot the        *)
(* original process would have held in memory" (reconstruct_snapshot):     *)
(* what the running process holds of a finished incident is what a         *)
(* restarted one would read from the file.                                 *)
SnapshotsMatchStore ==
    worker # Down => \A i \in Incidents :
        snapshots[i].state \in Terminal => snapshots[i] = Reconstruct(i, store)

(* An incident the dashboard was told of ended in the state it was told,   *)
(* by every one of its updates, the ones for skipped duplicates included;  *)
(* an incident that merely shares a correlation key is never taken for it. *)
UpdatesTellTheOutcome ==
    \A u \in updates : StateOf(u.incident, store) = u.state

(* The restart never forgets recurrence: an incident is resolved without   *)
(* escalation only if, with it, fewer than Threshold incidents of its key  *)
(* had been recorded when it ended.                                        *)
RecurrenceEscalates ==
    \A n \in DOMAIN store : store[n].type = "INCIDENT_RESOLVED" =>
        LET key == message[store[n].incident].key
        IN  Cardinality({i \in Detected(SubSeq(store, 1, n)) : message[i].key = key}) < Threshold

(* Every delivered result ends: its incident reaches a terminal state and  *)
(* all its copies are acknowledged.  Crashes, failed appends and partial   *)
(* histories do not prevent it; only a line that no longer parses does.    *)
EveryIncidentSettles ==
    \A i \in Incidents :
        inbox[i] > 0 ~> \/ inbox[i] = 0 /\ StateOf(i, store) \in Terminal
                        \/ torn

(* PHASE8_IDENTITY_MODEL.md: "a duplicate delivery cannot inflate the      *)
(* repeated-incident count"; the tracker counts distinct incidents.        *)
CountsDistinctIncidents ==
    \A k \in Keys : tracker[k] <= Cardinality({i \in Incidents :
                                      Arrived(i) /\ message[i].key = k})
=============================================================================
