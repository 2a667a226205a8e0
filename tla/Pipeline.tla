------------------------------ MODULE Pipeline ------------------------------
(***************************************************************************)
(* The distributed pipeline from end to end: the agent environment         *)
(* (src/agents/environment_engine.py) hands the samples of a session to    *)
(* the gateway, five stages connected by streams process them              *)
(* (src/runtime/services/), and a feedback listener reads what became of   *)
(* each turn (src/agents/feedback_listener.py).                            *)
(*                                                                         *)
(* A stage is what AtLeastOnce promises and StreamWorker was shown to      *)
(* implement: each event_id is completed after its result was published,   *)
(* or given up; its result may be published more than once, each time      *)
(* under a new event_id.  The evidence in a message is abstracted to       *)
(* whether it calls for an escalation.                                     *)
(***************************************************************************)
EXTENDS Integers, FiniteSets, Sequences

CONSTANTS Last,         (* number of stages: detection, quantum, risk,       *)
                        (* defense and incident, 5 as deployed               *)
          Sessions,     (* the session_ids of the runs                       *)
          Turns,        (* turns of a run                                    *)
          Threshold,    (* repeated_incident_threshold                       *)
          MaxFaults     (* bound: repetitions, failures and interruptions    *)

ASSUME PipelineAssumption == /\ Last \in Nat \ {0, 1}
                             /\ IsFiniteSet(Sessions)
                             /\ Turns \in Nat \ {0}
                             /\ Threshold \in Nat \ {0}
                             /\ MaxFaults \in Nat

VARIABLES run,          (* per session, the turns ingested                   *)
          aborted,      (* the sessions whose run ended in an exception      *)
          accepted,     (* per stage, the messages on its input stream       *)
          produced,     (* per stage, those whose result was published       *)
          completed,    (* per stage, those marked processed                 *)
          givenUp,      (* per stage, those dead-lettered                    *)
          recorded,     (* the incidents with events in the store            *)
          terminal,     (* the state in which each incident's history ended  *)
          settled,      (* history: the messages with which they ended       *)
          tracker,      (* incidents counted per correlation key             *)
          updates,      (* the incident.updated stream                       *)
          interrupted,  (* history: incidents whose update went missing      *)
          faults

engine == <<run, aborted>>
ledger == <<accepted, produced, completed, givenUp>>
manager == <<recorded, terminal, settled, tracker>>
vars == <<engine, ledger, manager, updates, interrupted, faults>>

Stages == 1..Last
Defense == Last - 1

(* AgentSessionCorrelation reads the session off the sample id. *)
Incidents == Sessions \X (1..Turns)
Key(i) == i[1]

(* A message: its incident_id, which of the messages with this event_type *)
(* it is, and what its payload calls for.                                 *)
Messages == [incident : Incidents, copy : 1..(MaxFaults + 1), severe : BOOLEAN]
Copies(s, i) == {m \in accepted[s] : m.incident = i}
Fresh(s, i, severe) ==
    [incident |-> i, copy |-> Cardinality(Copies(s, i)) + 1, severe |-> severe]

States == {"NONE", "RESOLVED", "ESCALATED"}
Flags == {"none", "yes", "no"}          (* payload.get("escalated") *)
Update == [incident : Incidents, state : States \ {"NONE"}, escalated : Flags]

TypeOK == /\ run \in [Sessions -> 0..Turns]
          /\ aborted \in SUBSET Sessions
          /\ accepted \in [Stages -> SUBSET Messages]
          /\ \A s \in Stages : /\ produced[s] \subseteq accepted[s]
                               /\ completed[s] \subseteq accepted[s]
                               /\ givenUp[s] \subseteq accepted[s]
          /\ recorded \in SUBSET Incidents
          /\ terminal \in [Incidents -> States]
          /\ settled \subseteq accepted[Last]
          /\ tracker \in [Sessions -> 0..(Turns + MaxFaults)]
          /\ updates \in Seq(Update)
          /\ interrupted \in SUBSET Incidents
          /\ faults \in 0..MaxFaults

Init == /\ run = [k \in Sessions |-> 0]
        /\ aborted = {}
        /\ accepted = [s \in Stages |-> {}]
        /\ produced = [s \in Stages |-> {}]
        /\ completed = [s \in Stages |-> {}]
        /\ givenUp = [s \in Stages |-> {}]
        /\ recorded = {}
        /\ terminal = [i \in Incidents |-> "NONE"]
        /\ settled = {}
        /\ tracker = [k \in Sessions |-> 0]
        /\ updates = << >>
        /\ interrupted = {}
        /\ faults = 0

Fault == faults < MaxFaults /\ faults' = faults + 1

-----------------------------------------------------------------------------
(* EnvironmentEngine.run: one turn after the other, each ingested by the *)
(* gateway under a fresh incident_id.                                    *)
More(k) == k \notin aborted /\ run[k] < Turns

Turn(k) ==
    /\ More(k)
    /\ run' = [run EXCEPT ![k] = @ + 1]
    /\ accepted' = [accepted EXCEPT ![1] = @ \cup {Fresh(1, <<k, run[k] + 1>>, FALSE)}]
    /\ UNCHANGED <<aborted, produced, completed, givenUp, manager, updates, interrupted, faults>>

(* ingest raises, perhaps after Redis has added the message, and run with it. *)
Abort(k) ==
    /\ More(k)
    /\ Fault
    /\ aborted' = aborted \cup {k}
    /\ \/ UNCHANGED accepted
       \/ accepted' = [accepted EXCEPT ![1] = @ \cup {Fresh(1, <<k, run[k] + 1>>, FALSE)}]
    /\ UNCHANGED <<run, produced, completed, givenUp, manager, updates, interrupted>>

-----------------------------------------------------------------------------
(* The stages before the last one: handle() and the publication of its *)
(* result, for the first time or again.                                *)
Open(s, m) == m \in accepted[s] \ (completed[s] \cup givenUp[s])

Repeats(s, m) == IF m \in produced[s] THEN Fault ELSE UNCHANGED faults

(* What a message calls for is settled when the outcome of the defense is *)
(* in; until then it depends on answers that a repetition may change.      *)
Results(s, m) == IF s = Defense THEN BOOLEAN ELSE {m.severe}

Produce(s, m) ==
    /\ s # Last
    /\ Open(s, m)
    /\ Repeats(s, m)
    /\ produced' = [produced EXCEPT ![s] = @ \cup {m}]
    /\ \E severe \in Results(s, m) :
          accepted' = [accepted EXCEPT ![s + 1] = @ \cup {Fresh(s + 1, m.incident, severe)}]
    /\ UNCHANGED <<engine, completed, givenUp, manager, updates, interrupted>>

(* The event is marked and acknowledged. *)
Complete(s, m) ==
    /\ Open(s, m)
    /\ m \in produced[s]
    /\ completed' = [completed EXCEPT ![s] = @ \cup {m}]
    /\ UNCHANGED <<engine, accepted, produced, givenUp, manager, updates, interrupted, faults>>

(* Its retries are used up: the message goes to the dead-letter stream, *)
(* whether or not a result was published or the event marked.           *)
GiveUp(s, m) ==
    /\ m \in accepted[s] \ givenUp[s]
    /\ Fault
    /\ givenUp' = [givenUp EXCEPT ![s] = @ \cup {m}]
    /\ UNCHANGED <<engine, accepted, produced, completed, manager, updates, interrupted>>

-----------------------------------------------------------------------------
(* The incident worker. *)

(* Mutant: the guard on terminal incidents is missing. *)
NeverEnded(i) == FALSE

(* Mutant: every incident the store knows is taken for ended. *)
AnyRecorded(i) == i \in recorded

(* existing is not None and existing.is_terminal *)
Ended(i) == terminal[i] # "NONE"

(* How the lifecycle of message m ends, as the count-th of its session. *)
Outcome(m, count) ==
    IF m.severe \/ count >= Threshold THEN "ESCALATED" ELSE "RESOLVED"

Counted(i) == tracker[Key(i)] + 1

(* record_full_lifecycle to its end. *)
Record(m) ==
    LET i == m.incident
    IN  /\ recorded' = recorded \cup {i}
        /\ tracker' = [tracker EXCEPT ![Key(i)] = Counted(i)]
        /\ terminal' = [terminal EXCEPT ![i] = Outcome(m, Counted(i))]
        /\ settled' = settled \cup {m}

Published(u) == updates' = Append(updates, u)

(* handle() for a new incident, and for one already ended, whose update *)
(* has no "escalated" field.                                            *)
Settle(m) ==
    LET i == m.incident
    IN  /\ ~Ended(i)
        /\ Record(m)
        /\ Published([incident |-> i, state |-> terminal'[i],
                      escalated |-> IF terminal'[i] = "ESCALATED" THEN "yes" ELSE "no"])

(* Mutant: a skipped duplicate publishes no update. *)
SkipSilently(m) ==
    /\ Ended(m.incident)
    /\ UNCHANGED <<manager, updates>>

SkipEnded(m) ==
    /\ Ended(m.incident)
    /\ Published([incident |-> m.incident, state |-> terminal[m.incident], escalated |-> "none"])
    /\ UNCHANGED manager

HandleIncident(m) ==
    /\ Open(Last, m)
    /\ Repeats(Last, m)
    /\ Settle(m) \/ SkipEnded(m)
    /\ produced' = [produced EXCEPT ![Last] = @ \cup {m}]
    /\ UNCHANGED <<engine, accepted, completed, givenUp, interrupted>>

(* Rebuilt from the store: every incident of the session counts once. *)
Rebuilt == [k \in Sessions |-> Cardinality({i \in recorded' : Key(i) = k})]

(* The lifecycle breaks off, or its update is not published: an exception, *)
(* or a crash after which the manager is rebuilt from the store.           *)
Interrupt(m) ==
    LET i == m.incident
    IN  /\ Open(Last, m)
        /\ ~Ended(i)
        /\ Fault
        /\ recorded' = recorded \cup {i}
        /\ tracker' = [tracker EXCEPT ![Key(i)] = Counted(i)] \/ tracker' = Rebuilt
        /\ \/ /\ terminal' = [terminal EXCEPT ![i] = Outcome(m, Counted(i))]
              /\ settled' = settled \cup {m}
              /\ interrupted' = interrupted \cup {i}
           \/ UNCHANGED <<terminal, settled, interrupted>>
        /\ UNCHANGED <<engine, ledger, updates>>

(* The worker dies between two messages and is started again. *)
Restart ==
    /\ Fault
    /\ UNCHANGED <<engine, ledger, recorded, terminal, settled, updates, interrupted>>
    /\ tracker' = Rebuilt

-----------------------------------------------------------------------------
(* FeedbackListener.  collect_outcome reads the updates of an incident,    *)
(* then the results of the defense stage for it, and takes the last entry  *)
(* of each.  Every update was the last one at some time.  The last result  *)
(* may be any of them: the incident stage puts a message whose recording   *)
(* failed back on its stream, behind those published since.                *)
UpdatesOf(i) == {updates[n] : n \in {m \in DOMAIN updates : updates[m].incident = i}}

(* The last of no entries is {}, and what is read off it None. *)
NoUpdate(i) == [incident |-> i, state |-> "NONE", escalated |-> "none"]
NoResult(i) == [incident |-> i, copy |-> 0, severe |-> FALSE]

(* incident_current_state and escalated are the update's, selected_action, *)
(* risk_level and final_prediction the result's.                           *)
Outcomes(i) ==
    LET results == IF Copies(Last, i) = {} THEN {NoResult(i)} ELSE Copies(Last, i)
    IN  [update : UpdatesOf(i) \cup {NoUpdate(i)}, result : results]
           \ {[update |-> NoUpdate(i), result |-> NoResult(i)]}

(* session_escalation_count looks at all updates of the session. *)
CountedEscalations(k) ==
    {i \in Incidents : Key(i) = k /\ \E u \in UpdatesOf(i) : u.escalated = "yes"}

-----------------------------------------------------------------------------
Work(s, m) == Produce(s, m) \/ Complete(s, m) \/ (s = Last /\ HandleIncident(m))

Next == \/ \E k \in Sessions : Turn(k) \/ Abort(k)
        \/ \E s \in Stages : \E m \in accepted[s] : Work(s, m) \/ GiveUp(s, m)
        \/ \E m \in accepted[Last] : Interrupt(m)
        \/ Restart

Safety == Init /\ [][Next]_vars

(* A stage goes on with an accepted message until it is settled *)
(* (PendingDrains of StreamWorker).                             *)
Spec == Safety /\ \A s \in Stages, m \in Messages :
                     WF_vars(m \in accepted[s] /\ Work(s, m))

-----------------------------------------------------------------------------
(* The state and the escalation the listener returns are what the incident *)
(* worker has recorded, for good, whatever copies of its messages arrive   *)
(* with whatever other evidence.  The action, risk level and prediction    *)
(* beside them are of a defense result for that very incident, and of the  *)
(* recorded one if the defense stage published only one; if they are of    *)
(* the recorded one and call for an escalation, there was one.  The        *)
(* escalations it counts did happen; and it misses one only if the update  *)
(* that told of it never reached the stream.                               *)
ListenerTellsTheTruth ==
    /\ \A i \in Incidents : \A o \in Outcomes(i) :
          o.update.state # "NONE" =>
             /\ o.update.state = terminal[i]
             /\ o.update.escalated = "yes" => terminal[i] = "ESCALATED"
             /\ o.update.escalated = "no" => terminal[i] = "RESOLVED"
             /\ o.result \in Copies(Last, i)
             /\ Copies(Last, i) = {o.result} => o.result \in settled
             /\ o.result \in settled /\ o.result.severe => terminal[i] = "ESCALATED"
    /\ \A k \in Sessions :
          LET escalated == {i \in Incidents : Key(i) = k /\ terminal[i] = "ESCALATED"}
          IN  /\ CountedEscalations(k) \subseteq escalated
              /\ escalated \ CountedEscalations(k) \subseteq interrupted

(* From end to end the pipeline promises what each of its stages does: a   *)
(* turn that reached the first stream is eventually completed by the       *)
(* incident worker, with its update published first, or dead-lettered by   *)
(* some stage, and neither is taken back.                                  *)
With(s, set) == {m.incident : m \in set[s]}
EndToEnd == INSTANCE AtLeastOnce
              WITH Events    <- Incidents,
                   accepted  <- With(1, accepted),
                   produced  <- {updates[n].incident : n \in DOMAIN updates},
                   completed <- With(Last, completed),
                   givenUp   <- UNION {With(s, givenUp) : s \in Stages}
ImplementsAtLeastOnce == EndToEnd!Spec
=============================================================================
